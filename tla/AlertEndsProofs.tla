--------------------------- MODULE AlertEndsProofs ---------------------------
(***************************************************************************)
(* How alerts end, proved for every instance of AlertEngine that records   *)
(* what the properties read:                                               *)
(*   ResolvedWhenStable  the engine ends an alert only after a quiet time; *)
(*   NobodyIsSurprised   who is told that an alert is over has been told   *)
(*                       that it fired, where nothing fails (after a crash *)
(*                       between commit and dispatch it is not true).      *)
(***************************************************************************)
EXTENDS AlertEngineProofs

\* The notice of an alert that has a notice time is out, or about to go out.
Heard(id) == id \in told \/ <<id, "fired">> \in pending

RowsAreHeard == \A id \in AlertIds : Stored(id).notified # Never => Heard(id)
ReadsAreHeard == \A id \in AlertIds : tx[id].notified # Never => Heard(id)

\* Only alerts of rules the cycle has evaluated have notices waiting.
NoticesAreOfEvaluated ==
    InSession => \A n \in pending : RuleOf(FpOf(n[1])) < turn
NoNoticesBetweenCycles == turn = Idle => pending = {}

NoticesAgree == /\ TypeOK /\ OnlySessionsWrite /\ RowsAreHeard /\ ReadsAreHeard
                /\ NoticesAreOfEvaluated /\ NoNoticesBetweenCycles /\ NoUnheraldedResolve

\* Nothing fails, and who is told is recorded.
Faultless == MaxFaults = 0 /\ "told" \in History

LEMMA NoticesInit == Init => NoticesAgree
BY TypeInit, AbsentIsARow
   DEF Init, NoticesAgree, OnlySessionsWrite, RowsAreHeard, ReadsAreHeard, Stored, Absent,
       NoticesAreOfEvaluated, NoNoticesBetweenCycles, NoUnheraldedResolve

-----------------------------------------------------------------------------
(* Evaluating a rule.                                                      *)

\* What a rule adds to the notices waiting.
Announced(r) ==
    LET created == Created(r)
        revived == Revived(r)
        retro == RetroSuppressed(r)
    IN  {i \in created : ParentFor(FpOf(i)) = NoAlert} \cup revived
        \cup {id \in IdsOfRule[r] : MustEscalate(r, id, Fired(id, created, revived, retro))}
        \cup {id \in IdsOfRule[r] :
                MustRenotify(r, id, Escalated(r, id, Fired(id, created, revived, retro)))}
Ended(r) == {i \in Resolving(r) : tx[i].notified # Never /\ NotifyOnResolve[r]}

LEMMA EvaluateNotices ==
    ASSUME NEW r \in Rules, EvaluateRule(r), Faultless
    PROVE  /\ pending' = pending \cup {<<id, "fired">> : id \in Announced(r)}
                                 \cup {<<id, "resolved">> : id \in Ended(r)}
           /\ told' = {id \in told : id \notin Created(r)}
BY DEF EvaluateRule, Announced, Ended, Record, Faultless

\* A rule sets the notice time of the alerts it announces, and of no others.
LEMMA NewRowNotice ==
    ASSUME TypeOK, NEW r \in Rules, \A fp \in Creating(r) : FreeIds(fp) # {},
           NEW id \in AlertIds, id \notin Announced(r), NewRow(r, id).notified # Never
    PROVE  id \notin Created(r) /\ NewRow(r, id).notified = tx[id].notified
<1> DEFINE f == Fired(id, Created(r), Revived(r), RetroSuppressed(r))
           e == Escalated(r, id, f)
           n == Renotified(r, id, e)
<1>1. f \in Row /\ tx[id] \in Row
  <2>1. \A i \in Revived(r) \cup RetroSuppressed(r) : tx[i].status \in Live
    BY ActedOn
  <2> QED
    BY <2>1, FiredShape DEF TypeOK, RowsOK
<1>2. ~MustEscalate(r, id, f) /\ ~MustRenotify(r, id, e)
  <2>1. MustEscalate(r, id, f) => RuleOf(FpOf(id)) = r
    BY DEF MustEscalate
  <2>2. MustRenotify(r, id, e) => RuleOf(FpOf(id)) = r
    BY DEF MustRenotify
  <2> QED
    BY <2>1, <2>2, Identifiers DEF Announced
<1>3. n = f
  BY <1>2 DEF Escalated, Renotified
<1>4. NewRow(r, id) = Settled(id, f, Resolving(r), Created(r))
  BY <1>3 DEF NewRow
<1>5. f.notified # Never /\ NewRow(r, id).notified = f.notified
  BY <1>1, <1>4 DEF Settled, Row
<1>6. id \notin Created(r)
  <2>1. id \in Created(r) => ParentFor(FpOf(id)) # NoAlert
    BY DEF Announced
  <2>2. id \in Created(r) => f.notified = Never
    BY <2>1 DEF Fired, NewAlert, Absent
  <2> QED
    BY <1>5, <2>2
<1>7. id \notin Revived(r)
  BY DEF Announced
<1>8. f.notified = tx[id].notified
  BY <1>1, <1>6, <1>7 DEF Fired, Row
<1> QED
  BY <1>5, <1>6, <1>8

LEMMA EvaluateKeepsNotices ==
    ASSUME NoticesAgree, Faultless, NEW r \in Rules, EvaluateRule(r)
    PROVE  NoticesAgree'
<1> USE DEF NoticesAgree
<1>1. /\ InSession /\ turn = r /\ turn' = r + 1 /\ alerts' = alerts
      /\ r \in Nat /\ r # Idle
  BY EvaluateFacts, ConstantsAssumption DEF InSession, Rules, CommitTurn, Idle
<1>2. TypeOK'
  BY TypeEvaluate
<1>3. \A id \in AlertIds : id \notin Created(r) => (Heard(id) => Heard(id)')
  BY EvaluateNotices DEF Heard
<1>4. \A id \in AlertIds : id \in Announced(r) => Heard(id)'
  BY EvaluateNotices DEF Heard
<1>5. ASSUME NEW id \in AlertIds, tx'[id].notified # Never
      PROVE  Heard(id)'
  <2>1. CASE id \in Announced(r)
    BY <1>4, <2>1
  <2>2. CASE id \notin Announced(r) /\ id \in Created(r)
    <3>1. tx'[id] = NewRow(r, id)
      BY <2>2, EvaluateFacts
    <3> QED
      BY <1>5, <2>2, <3>1, EvaluateFacts, NewRowNotice
  <2>3. CASE id \notin Announced(r) /\ id \notin Created(r)
    <3>1. tx'[id] = Flush(tx[id], NewRow(r, id), Stored(id))
      BY <2>3, EvaluateFacts
    <3>2. tx'[id].notified = IF NewRow(r, id).notified # tx[id].notified
                             THEN NewRow(r, id).notified ELSE Stored(id).notified
      BY <3>1 DEF Flush
    <3>3. Stored(id).notified # Never
      BY <1>5, <2>3, <3>2, EvaluateFacts, NewRowNotice
    <3> QED
      BY <1>3, <2>3, <3>3 DEF RowsAreHeard
  <2> QED
    BY <2>1, <2>2, <2>3
<1>6. RowsAreHeard'
  <2> SUFFICES ASSUME NEW id \in AlertIds, Stored(id)'.notified # Never PROVE Heard(id)'
    BY DEF RowsAreHeard
  <2>1. CASE id \in dirty'
    BY <1>5, <2>1 DEF Stored
  <2>2. CASE id \notin dirty'
    <3>1. id \notin dirty /\ id \notin Created(r)
      BY <2>2, EvaluateFacts
    <3>2. Stored(id)' = Stored(id)
      BY <1>1, <2>2, <3>1 DEF Stored
    <3> QED
      BY <1>3, <3>1, <3>2 DEF RowsAreHeard
  <2> QED
    BY <2>1, <2>2
<1>7. ReadsAreHeard'
  BY <1>5 DEF ReadsAreHeard
<1>8. Announced(r) \cup Ended(r) \subseteq {id \in AlertIds : RuleOf(FpOf(id)) = r}
  <2>1. \A id \in Created(r) : id \in AlertIds /\ RuleOf(FpOf(id)) = r
    BY EvaluateFacts, ActedOn, Identifiers
  <2>2. \A id \in Revived(r) \cup Resolving(r) : id \in AlertIds /\ RuleOf(FpOf(id)) = r
    BY EvaluateFacts, ActedOn
  <2>3. IdsOfRule[r] = {id \in AlertIds : RuleOf(FpOf(id)) = r}
    BY Identifiers
  <2> QED
    BY <2>1, <2>2, <2>3 DEF Announced, Ended
<1>9. \A n \in pending : RuleOf(FpOf(n[1])) \in Nat /\ RuleOf(FpOf(n[1])) < r
  BY <1>1, Identifiers DEF NoticesAreOfEvaluated, TypeOK, Notification
<1>10. NoticesAreOfEvaluated'
  <2> SUFFICES ASSUME NEW n \in pending' PROVE RuleOf(FpOf(n[1])) < r + 1
    BY <1>1 DEF NoticesAreOfEvaluated
  <2>1. CASE n \in pending
    BY <1>1, <1>9, <2>1
  <2>2. CASE n \notin pending
    BY <1>1, <1>8, <2>2, EvaluateNotices
  <2> QED
    BY <2>1, <2>2
<1>11. NoNoticesBetweenCycles' /\ OnlySessionsWrite'
  BY <1>1, ConstantsAssumption
     DEF NoNoticesBetweenCycles, OnlySessionsWrite, InSession, Idle, CommitTurn, Rules
<1>12. NoUnheraldedResolve'
  <2> SUFFICES ASSUME NEW id \in AlertIds, <<id, "resolved">> \in pending'
               PROVE  id \in told /\ id \notin Created(r)
    BY EvaluateNotices DEF NoUnheraldedResolve
  <2>1. CASE <<id, "resolved">> \in pending
    <3>1. RuleOf(FpOf(id)) < r
      BY <1>9, <2>1
    <3>2. id \in Created(r) => RuleOf(FpOf(id)) = r
      BY EvaluateFacts, ActedOn, Identifiers
    <3> QED
      BY <1>1, <2>1, <3>1, <3>2 DEF NoUnheraldedResolve
  <2>2. CASE <<id, "resolved">> \notin pending
    <3>1. id \in Ended(r)
      BY <2>2, EvaluateNotices
    <3>2. RuleOf(FpOf(id)) = r /\ tx[id].status \in Live /\ tx[id].notified # Never
      BY <3>1, EvaluateFacts, ActedOn DEF Ended
    <3>3. id \notin Created(r)
      BY <3>2, EvaluateFacts, ActedOn
    <3>4. <<id, "fired">> \notin pending
      BY <1>1, <1>9, <3>2
    <3> QED
      BY <3>2, <3>3, <3>4 DEF ReadsAreHeard, Heard
  <2> QED
    BY <2>1, <2>2
<1> QED
  BY <1>2, <1>6, <1>7, <1>10, <1>11, <1>12

-----------------------------------------------------------------------------
(* The other steps.                                                        *)

\* Requests and time touch neither notices nor notice times that are not set.
LEMMA OthersKeepNotices ==
    ASSUME NoticesAgree, TypeOK', UNCHANGED <<turn, tx, dirty, pending, told>>,
           \A id \in AlertIds : alerts'[id].notified # Never => alerts[id].notified # Never
    PROVE  NoticesAgree'
<1>1. \A id \in AlertIds : Heard(id)' <=> Heard(id)
  BY DEF Heard
<1>2. \A id \in AlertIds : Stored(id)'.notified # Never => Stored(id).notified # Never
  BY DEF Stored
<1> QED
  BY <1>1, <1>2
     DEF NoticesAgree, OnlySessionsWrite, InSession, RowsAreHeard, ReadsAreHeard,
         NoticesAreOfEvaluated, NoNoticesBetweenCycles, NoUnheraldedResolve

LEMMA NoticesStep ==
    ASSUME NoticesAgree, Faultless, [Next]_vars
    PROVE  NoticesAgree'
<1> USE DEF NoticesAgree
<1>1. TypeOK'
  BY TypeStep
<1>2. alerts \in [AlertIds -> Row] /\ faults = 0 /\ MaxFaults = 0
  BY DEF TypeOK, RowsOK, Faultless
<1>3. CASE Tick
  <2>1. UNCHANGED <<turn, tx, dirty, pending, told>>
    BY <1>3 DEF Tick, cycle
  <2>2. \A id \in AlertIds : alerts'[id].notified # Never => alerts[id].notified # Never
    BY <1>2, <1>3 DEF Tick, Older, Row
  <2> QED
    BY <1>1, <2>1, <2>2, OthersKeepNotices
<1>4. CASE (\E fp \in FPs : ConditionChanges(fp)) \/ (\E d \in Devices : MaintenanceChanges(d))
           \/ UNCHANGED vars
  <2>1. UNCHANGED <<turn, tx, dirty, pending, told, alerts>>
    BY <1>4 DEF ConditionChanges, MaintenanceChanges, vars, cycle
  <2> QED
    BY <1>1, <2>1, OthersKeepNotices
<1>5. CASE Operators
  <2>1. PICK id \in AlertIds : \/ RequestRead("acknowledge", id) \/ RequestRead("resolve", id)
                               \/ Acknowledge(id) \/ Resolve(id)
    BY <1>5 DEF Operators
  <2>2. UNCHANGED <<turn, tx, dirty, pending, told>>
    BY <2>1 DEF RequestRead, Acknowledge, Resolve, cycle
  <2>3. \A i \in AlertIds : alerts'[i].notified = alerts[i].notified
    BY <1>2, <2>1 DEF RequestRead, Acknowledge, Resolve, Row
  <2> QED
    BY <1>1, <2>2, <2>3, OthersKeepNotices
<1>6. CASE BeginCycle
  <2>1. /\ turn = Idle /\ turn' = 1 /\ tx' = alerts
        /\ UNCHANGED <<alerts, dirty, pending, told>> /\ pending = {}
    BY <1>6 DEF BeginCycle, NoNoticesBetweenCycles
  <2>2. dirty = {}
    BY <2>1, Identifiers DEF OnlySessionsWrite, InSession, Idle
  <2> QED
    BY <1>1, <2>1, <2>2
       DEF OnlySessionsWrite, RowsAreHeard, ReadsAreHeard, Stored, Heard,
           NoticesAreOfEvaluated, NoNoticesBetweenCycles, NoUnheraldedResolve, Idle
<1>7. ASSUME NEW r \in Rules, LookupFails(r) \/ EvaluatorFails(r) PROVE NoticesAgree'
  <2>1. /\ tx' = [id \in AlertIds |-> Stored(id)] /\ turn = r /\ turn' = r + 1
        /\ UNCHANGED <<alerts, dirty, pending, told>>
    BY <1>7, <1>2 DEF LookupFails, EvaluatorFails
  <2>2. \A id \in AlertIds : Stored(id)' = Stored(id) /\ (Heard(id)' <=> Heard(id))
    BY <2>1 DEF Stored, Heard
  <2>3. InSession /\ r \in Nat /\ r + 1 # Idle
    BY <2>1, ConstantsAssumption DEF InSession, Rules, CommitTurn, Idle
  <2>4. \A n \in pending : RuleOf(FpOf(n[1])) \in Nat /\ RuleOf(FpOf(n[1])) < r
    BY <2>1, <2>3, Identifiers DEF NoticesAreOfEvaluated, TypeOK, Notification
  <2>5. NoticesAreOfEvaluated'
    BY <2>1, <2>3, <2>4 DEF NoticesAreOfEvaluated
  <2>6. OnlySessionsWrite'
    BY <2>1, ConstantsAssumption DEF OnlySessionsWrite, InSession, Rules, CommitTurn
  <2> QED
    BY <1>1, <2>1, <2>2, <2>3, <2>5, <2>6
       DEF RowsAreHeard, ReadsAreHeard, NoNoticesBetweenCycles, NoUnheraldedResolve
<1>8. CASE Commit
  <2>1. /\ alerts' = [id \in AlertIds |-> Stored(id)] /\ dirty' = {} /\ turn' = DispatchTurn
        /\ tx' = [id \in AlertIds |-> Absent] /\ UNCHANGED <<pending, told>>
    BY <1>8 DEF Commit, CloseSession
  <2>2. \A id \in AlertIds : Stored(id)' = Stored(id) /\ (Heard(id)' <=> Heard(id))
    BY <2>1 DEF Stored, Heard
  <2>3. ~InSession' /\ DispatchTurn # Idle
    BY <2>1, Identifiers DEF InSession, CommitTurn, DispatchTurn, Idle
  <2> QED
    BY <1>1, <2>1, <2>2, <2>3
       DEF OnlySessionsWrite, RowsAreHeard, ReadsAreHeard, Absent, NoticesAreOfEvaluated,
           NoNoticesBetweenCycles, NoUnheraldedResolve
<1>9. CASE Housekeeping
  <2>1. UNCHANGED <<turn, tx, dirty, pending, told>>
    BY <1>9 DEF Housekeeping, cycle
  <2>2. \A id \in AlertIds : alerts'[id].notified # Never => alerts[id].notified # Never
    BY <1>2, <1>9 DEF Housekeeping, RecoverOrphans, Row
  <2> QED
    BY <1>1, <2>1, <2>2, OthersKeepNotices
<1>10. CASE Dispatch
  <2>1. /\ turn' = Idle /\ pending' = {} /\ UNCHANGED <<alerts, tx, dirty>>
        /\ told' = told \cup {n[1] : n \in {m \in pending : m[2] = "fired"}}
        /\ turn = DispatchTurn
    BY <1>10 DEF Dispatch, Record, Faultless
  <2>2. \A id \in AlertIds : Heard(id) => Heard(id)'
    BY <2>1 DEF Heard
  <2>3. ~InSession /\ ~InSession'
    BY <2>1, Identifiers DEF InSession, CommitTurn, DispatchTurn, Idle
  <2>4. \A id \in AlertIds : Stored(id)' = Stored(id)
    BY <2>1 DEF Stored
  <2> QED
    BY <1>1, <2>1, <2>2, <2>3, <2>4
       DEF OnlySessionsWrite, RowsAreHeard, ReadsAreHeard, NoticesAreOfEvaluated,
           NoNoticesBetweenCycles, NoUnheraldedResolve
<1>11. CASE CommitFails \/ Restart
  BY <1>2, <1>11 DEF CommitFails, Restart
<1>12. CASE \E r \in Rules : EvaluateRule(r)
  BY <1>12, EvaluateKeepsNotices
<1> QED
  BY <1>3, <1>4, <1>5, <1>6, <1>7, <1>8, <1>9, <1>10, <1>11, <1>12
     DEF Next, Environment, Evaluation

\* Where nothing fails, an operator is told that an alert is over only if they were
\* told that it fired, whichever way a suppressed alert ends (engine.py:1077).
THEOREM NobodyIsSurprised ==
    ASSUME Faultless
    PROVE  Spec => []NoUnheraldedResolve
<1>1. Init => NoticesAgree
  BY NoticesInit
<1>2. NoticesAgree /\ [Next]_vars => NoticesAgree'
  BY NoticesStep
<1>3. NoticesAgree => NoUnheraldedResolve
  BY DEF NoticesAgree
<1> QED
  BY <1>1, <1>2, <1>3, PTL DEF Spec

-----------------------------------------------------------------------------
(* The stability clock.                                                    *)

\* A clear clock that runs has run no longer than evaluations have found the
\* condition clear, without a break.
ClocksAgree ==
    \A fp \in FPs : clearSince[fp] # Never =>
        obs[fp].seen = "clear" /\ clearSince[fp] <= obs[fp].age

QuietTime == TypeOK /\ OnlySessionsWrite /\ ClocksAgree

\* What evaluations find is recorded.
Watched == "observed" \in History

\* A rule whose turn it is counts a fingerprint as clear only if it finds it clear.
LEMMA RuleKeepsClocks ==
    ASSUME QuietTime, NEW r \in Rules, obs' = Observed(r),
           \A fp \in FPs : /\ clearSince'[fp] \in {clearSince[fp], 0, Never}
                           /\ RuleOf(fp) # r => clearSince'[fp] = clearSince[fp]
                           /\ RuleOf(fp) = r /\ Breaching(fp) => clearSince'[fp] = Never
    PROVE  ClocksAgree'
<1> SUFFICES ASSUME NEW fp \in FPs, clearSince'[fp] # Never
             PROVE  obs'[fp].seen = "clear" /\ clearSince'[fp] <= obs'[fp].age
  BY DEF ClocksAgree
<1>1. obs[fp] \in Observation /\ clearSince[fp] \in Nat \cup {Never}
  BY DEF QuietTime, TypeOK, MemoryOK
<1>2. CASE RuleOf(fp) # r
  <2>1. obs'[fp] = obs[fp] /\ clearSince'[fp] = clearSince[fp]
    BY <1>2 DEF Observed
  <2> QED
    BY <2>1 DEF QuietTime, ClocksAgree
<1>3. CASE RuleOf(fp) = r
  <2>1. ~Breaching(fp) /\ clearSince'[fp] \in {clearSince[fp], 0}
    BY <1>3
  <2>2. obs'[fp].seen = "clear" /\ obs'[fp].age = IF obs[fp].seen = "clear" THEN obs[fp].age ELSE 0
    BY <1>3, <2>1 DEF Observed
  <2> QED
    BY <1>1, <2>1, <2>2 DEF QuietTime, ClocksAgree, Observation, Never
<1> QED
  BY <1>2, <1>3

LEMMA TickKeepsClocks == ASSUME QuietTime, Watched, Tick PROVE ClocksAgree'
<1> SUFFICES ASSUME NEW fp \in FPs, clearSince'[fp] # Never
             PROVE  obs'[fp].seen = "clear" /\ clearSince'[fp] <= obs'[fp].age
  BY DEF ClocksAgree
<1> DEFINE gate == StableGate[RuleOf(fp)]
           cap == Larger(DurationGate[RuleOf(fp)], gate)
<1>1. /\ obs[fp] \in Observation /\ clearSince[fp] \in Nat \cup {Never}
      /\ gate \in Nat /\ DurationGate[RuleOf(fp)] \in Nat
  BY Identifiers, ConstantsAssumption DEF QuietTime, TypeOK, MemoryOK
<1>2. cap \in Nat /\ gate <= cap
  BY <1>1 DEF Larger
<1>3. clearSince'[fp] = Older(clearSince[fp], gate)
  BY DEF Tick
<1>4. obs'[fp] = [obs[fp] EXCEPT !.age = Older(@, cap)]
  BY DEF Tick, Record, Watched
<1>5. obs'[fp].seen = obs[fp].seen /\ obs'[fp].age = Older(obs[fp].age, cap)
  BY <1>1, <1>4 DEF Observation
<1>6. clearSince[fp] # Never
  BY <1>3 DEF Older
<1>7. obs[fp].seen = "clear" /\ clearSince[fp] <= obs[fp].age /\ obs[fp].age \in Nat
  BY <1>1, <1>6 DEF QuietTime, ClocksAgree, Observation
<1> HIDE DEF gate, cap
<1>8. Older(clearSince[fp], gate) <= Older(obs[fp].age, cap)
  BY <1>1, <1>2, <1>6, <1>7 DEF Older, Never
<1> QED
  BY <1>3, <1>5, <1>7, <1>8

LEMMA QuietStep == ASSUME QuietTime, SessionAgrees, SessionAgrees', Watched, [Next]_vars PROVE QuietTime'
<1>1. TypeOK' /\ OnlySessionsWrite'
  BY TypeStep DEF QuietTime, SessionAgrees
<1>2. SUFFICES ClocksAgree'
  BY <1>1 DEF QuietTime
<1>3. ASSUME UNCHANGED clearSince, \A fp \in FPs : obs'[fp].seen = obs[fp].seen /\ obs'[fp].age = obs[fp].age
      PROVE  ClocksAgree'
  BY <1>3 DEF QuietTime, ClocksAgree
<1>4. CASE Tick
  BY <1>4, TickKeepsClocks
<1>5. ASSUME NEW r \in Rules, EvaluateRule(r) PROVE ClocksAgree'
  <2>1. obs' = Observed(r) /\ \E resolved : clearSince' = ClearClock(r, resolved)
    BY <1>5 DEF EvaluateRule, Record, Watched
  <2>2. PICK resolved : clearSince' = ClearClock(r, resolved)
    BY <2>1
  <2>3. \A fp \in FPs : /\ clearSince'[fp] \in {clearSince[fp], 0, Never}
                        /\ RuleOf(fp) # r => clearSince'[fp] = clearSince[fp]
                        /\ RuleOf(fp) = r /\ Breaching(fp) => clearSince'[fp] = Never
    BY <2>2 DEF ClearClock
  <2> QED
    BY <2>1, <2>3, RuleKeepsClocks
<1>6. ASSUME NEW r \in Rules, LookupFails(r) PROVE ClocksAgree'
  <2>1. obs' = Observed(r)
    BY <1>6 DEF LookupFails, Record, Watched
  <2>2. clearSince' = [fp \in FPs |-> IF RuleOf(fp) = r /\ Breaching(fp) THEN Never
                                                                         ELSE clearSince[fp]]
    BY <1>6 DEF LookupFails
  <2>3. \A fp \in FPs : /\ clearSince'[fp] \in {clearSince[fp], 0, Never}
                        /\ RuleOf(fp) # r => clearSince'[fp] = clearSince[fp]
                        /\ RuleOf(fp) = r /\ Breaching(fp) => clearSince'[fp] = Never
    BY <2>2
  <2> QED
    BY <2>1, <2>3, RuleKeepsClocks
<1>7. CASE Operators
  <2>1. PICK id \in AlertIds : \/ RequestRead("acknowledge", id) \/ RequestRead("resolve", id)
                               \/ Acknowledge(id) \/ Resolve(id)
    BY <1>7 DEF Operators
  <2>2. UNCHANGED clearSince
    BY <2>1 DEF RequestRead, Acknowledge, Resolve, memory
  <2>3. obs' = obs \/ obs' = [obs EXCEPT ![FpOf(id)].cleared = FALSE]
    BY <2>1 DEF RequestRead, Acknowledge, Resolve, Record
  <2>4. obs \in [FPs -> Observation]
    BY DEF QuietTime, TypeOK
  <2>5. \A fp \in FPs : obs'[fp].seen = obs[fp].seen /\ obs'[fp].age = obs[fp].age
    BY <2>3, <2>4 DEF Observation
  <2> QED
    BY <1>3, <2>2, <2>5
<1>8. CASE Housekeeping
  <2>1. obs' = obs /\ \A fp \in FPs : clearSince'[fp] \in {Never, clearSince[fp]}
    BY <1>8 DEF Housekeeping, PruneMemory
  <2> QED
    BY <2>1 DEF QuietTime, ClocksAgree
<1>9. CASE Restart
  BY <1>9 DEF Restart, ClocksAgree
<1>10. CASE \/ \E fp \in FPs : ConditionChanges(fp)
            \/ \E d \in Devices : MaintenanceChanges(d)
            \/ BeginCycle \/ (\E r \in Rules : EvaluatorFails(r))
            \/ Commit \/ CommitFails \/ Dispatch \/ UNCHANGED vars
  <2>1. UNCHANGED <<clearSince, obs>>
    BY <1>10 DEF ConditionChanges, MaintenanceChanges, BeginCycle, EvaluatorFails,
                 Commit, CommitFails, Dispatch, vars, memory
  <2> QED
    BY <1>3, <2>1
<1> QED
  BY <1>4, <1>5, <1>6, <1>7, <1>8, <1>9, <1>10 DEF Next, Environment, Evaluation

\* A rule resolves the alerts that pass its stable gate, and no others.
LEMMA RuleResolves ==
    ASSUME TypeOK, NEW r \in Rules, \A fp \in Creating(r) : FreeIds(fp) # {}, NEW id \in AlertIds,
           id \notin Created(r), tx[id].status \in Live, NewRow(r, id).status = "resolved"
    PROVE  id \in Resolving(r)
<1> DEFINE f == Fired(id, Created(r), Revived(r), RetroSuppressed(r))
           e == Escalated(r, id, f)
           n == Renotified(r, id, e)
<1>1. \A i \in Revived(r) \cup RetroSuppressed(r) : tx[i].status \in Live
  BY ActedOn
<1>2. f \in Row /\ f.status \in Live
  BY <1>1, FiredShape
<1>3. e \in Row /\ e.status = f.status
  BY <1>2, EscalatedShape
<1>4. n \in Row /\ n.status \in Live
  BY <1>2, <1>3, RenotifiedShape
<1> HIDE DEF n
<1>5. NewRow(r, id) = Settled(id, n, Resolving(r), Created(r))
  BY DEF NewRow, n
<1> QED
  BY <1>4, <1>5, SettledShape DEF Live

LEMMA StableStep ==
    ASSUME QuietTime, Watched, [Next]_vars,
           NEW id \in AlertIds, tx[id].status \in Live, Stored(id).status \in Live,
           tx'[id].status = "resolved"
    PROVE  /\ obs'[FpOf(id)].seen = "clear"
           /\ obs'[FpOf(id)].age >= StableGate[RuleOf(FpOf(id))]
<1> DEFINE fp == FpOf(id)
<1>1. "resolved" \notin Live /\ Absent.status # "resolved"
  BY DEF Live, Absent
<1>2. ASSUME NEW r \in Rules, EvaluateRule(r) PROVE obs'[fp].seen = "clear" /\ obs'[fp].age >= StableGate[RuleOf(fp)]
  <2>1. TypeOK /\ \A g \in Creating(r) : FreeIds(g) # {}
    BY <1>2, EvaluateFacts DEF QuietTime
  <2>2. id \notin Created(r)
    BY <2>1, ActedOn
  <2>3. tx'[id] = Flush(tx[id], NewRow(r, id), Stored(id))
    BY <1>2, <2>2, EvaluateFacts
  <2>4. NewRow(r, id).status = "resolved"
    BY <1>1, <2>3 DEF Flush
  <2>5. id \in Resolving(r) /\ RuleOf(fp) = r /\ fp \in FPs
    BY <2>1, <2>2, <2>4, RuleResolves, ActedOn, Identifiers
  <2>6. ~Breaching(fp) /\ clearSince[fp] >= StableGate[r]
    BY <2>5 DEF Resolving
  <2>7. clearSince[fp] # Never /\ StableGate[r] \in Nat /\ clearSince[fp] \in Nat /\ obs[fp].age \in Nat
    BY <2>5, <2>6, ConstantsAssumption DEF Never, QuietTime, TypeOK, MemoryOK, Observation
  <2>8. obs[fp].seen = "clear" /\ clearSince[fp] <= obs[fp].age
    BY <2>5, <2>7 DEF QuietTime, ClocksAgree
  <2>9. obs' = Observed(r)
    BY <1>2 DEF EvaluateRule, Record, Watched
  <2>10. obs'[fp].seen = "clear" /\ obs'[fp].age = obs[fp].age
    BY <2>5, <2>6, <2>8, <2>9 DEF Observed
  <2> HIDE DEF fp
  <2> QED
    BY <2>5, <2>6, <2>7, <2>8, <2>10
<1>3. ~(\E r \in Rules : LookupFails(r) \/ EvaluatorFails(r))
  BY <1>1 DEF LookupFails, EvaluatorFails
<1>4. ~BeginCycle
  <2>1. BeginCycle => id \notin dirty /\ tx' = alerts
    BY Identifiers DEF BeginCycle, QuietTime, OnlySessionsWrite, InSession, Idle
  <2> QED
    BY <1>1, <2>1 DEF Stored
<1>5. ~Commit /\ ~CommitFails /\ ~Restart
  BY <1>1 DEF Commit, CommitFails, Restart, CloseSession
<1>6. tx' # tx
  BY <1>1
<1>7. ~Tick /\ ~Housekeeping /\ ~Dispatch /\ ~(UNCHANGED vars)
  BY <1>6 DEF Tick, Housekeeping, Dispatch, vars, cycle
<1>8. /\ ~(\E g \in FPs : ConditionChanges(g)) /\ ~(\E d \in Devices : MaintenanceChanges(d))
      /\ ~Operators
  BY <1>6 DEF ConditionChanges, MaintenanceChanges, Operators, RequestRead, Acknowledge, Resolve, cycle
<1> QED
  BY <1>2, <1>3, <1>4, <1>5, <1>7, <1>8 DEF Next, Environment, Evaluation

\* The engine ends an alert on its own account only when every evaluation of its
\* condition during the last stable gate found it clear, whatever restarts, failed
\* commits and requests there were meanwhile (engine.py:1040).
THEOREM ResolvedWhenStable ==
    ASSUME Watched
    PROVE  Spec => AutoResolveOnlyAfterStable
<1>1. Init => QuietTime
  BY TypeInit, AgreementInit DEF Init, QuietTime, SessionAgrees, ClocksAgree
<1>2. QuietTime /\ SessionAgrees /\ SessionAgrees' /\ [Next]_vars => QuietTime'
  BY QuietStep
<1>3. QuietTime /\ [Next]_vars =>
        [\A id \in AlertIds :
           tx[id].status \in Live /\ Stored(id).status \in Live /\ tx'[id].status = "resolved" =>
              /\ obs'[FpOf(id)].seen = "clear"
              /\ obs'[FpOf(id)].age >= StableGate[RuleOf(FpOf(id))]]_vars
  BY StableStep
<1> QED
  BY <1>1, <1>2, <1>3, Agreement, PTL DEF Spec, AutoResolveOnlyAfterStable
=============================================================================
