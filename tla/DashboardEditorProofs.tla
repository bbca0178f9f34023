------------------------ MODULE DashboardEditorProofs ------------------------
(***************************************************************************)
(* What holds of the dashboard editor for any dashboards, whatever fails,  *)
(* overlaps or arrives late: its types, and that no answer takes an edit   *)
(* off the page.                                                           *)
(***************************************************************************)
EXTENDS DashboardEditor, TLAPS

USE NoDashboardAssumption, BoundsAssumption DEF pageVars

-----------------------------------------------------------------------------
(* Types *)

LEMMA NoneIsTyped ==
  /\ NoFetch \in [state : {"none", "sent", "answered"}, layout : Layouts]
  /\ NoData \in [known : BOOLEAN, layout : Layouts]
  /\ {} \in Layouts
  BY DEF NoFetch, NoData, Layouts

LEMMA DataIsTyped ==
  ASSUME NEW layout \in Layouts
  PROVE  /\ Data(layout) \in [known : BOOLEAN, layout : Layouts]
         /\ Data(layout).known /\ Data(layout).layout = layout
  BY DEF Data

LEMMA SeedsTyped ==
  ASSUME NEW d \in Dashboards, NEW data \in [known : BOOLEAN, layout : Layouts],
         local \in Layouts, timer \in {NoTimer} \cup [on : Dashboards, layout : Layouts],
         Seeds(d, data)
  PROVE  /\ seeded' \in Dashboards \cup {NoDashboard} /\ local' \in Layouts
         /\ timer' \in {NoTimer} \cup [on : Dashboards, layout : Layouts]
  BY DEF Seeds

LEMMA SendsTyped ==
  ASSUME NEW d \in Dashboards, NEW layout \in Layouts, saves \subseteq Save, Sends(d, layout)
  PROVE  saves' \subseteq Save
  BY DEF Sends, Save

LEMMA TypeInit == Init => TypeOK
  <1> SUFFICES ASSUME Init PROVE TypeOK
    OBVIOUS
  <1>1. /\ fetch \in [Dashboards -> [state : {"none", "sent", "answered"}, layout : Layouts]]
        /\ cache \in [Dashboards -> [known : BOOLEAN, layout : Layouts]]
        /\ server \in [Dashboards -> Layouts]
    BY NoneIsTyped DEF Init
  <1> QED
    BY <1>1, NoneIsTyped DEF Init, TypeOK

\* Coming, going and editing.
LEMMA TypePage ==
  ASSUME TypeOK,
         \/ \E d \in Dashboards : Open(d)
         \/ Leave \/ EditLayout \/ GridReports \/ TimerFires \/ StartEditing \/ Done
  PROVE  TypeOK'
  <1> USE DEF TypeOK
  <1>1. ASSUME NEW d \in Dashboards, Open(d) PROVE TypeOK'
    BY <1>1, SeedsTyped DEF Open
  <1>2. CASE Leave
    BY <1>2, NoneIsTyped DEF Leave
  <1>3. CASE EditLayout
    <2>1. local' \in Layouts
      BY <1>3 DEF EditLayout, Loaded, Edit, Layouts
    <2> QED
      BY <1>3, <2>1 DEF EditLayout, Loaded
  <1>4. CASE TimerFires
    <2>1. saves' \subseteq Save
      BY <1>4, SendsTyped DEF TimerFires
    <2> QED
      BY <1>4, <2>1 DEF TimerFires
  <1>5. CASE StartEditing
    BY <1>5 DEF StartEditing
  <1>6. CASE Done
    <2>1. saves' \subseteq Save
      BY <1>6, SendsTyped DEF Done, Loaded
    <2> QED
      BY <1>6, <2>1 DEF Done
  <1>7. CASE GridReports
    BY <1>7 DEF GridReports, Loaded
  <1> QED
    BY <1>1, <1>2, <1>3, <1>4, <1>5, <1>6, <1>7

\* What the server and the network do.
LEMMA TypeNetwork ==
  ASSUME TypeOK,
         \/ \E d \in Dashboards : Fetch(d) \/ Serve(d) \/ Arrive(d)
         \/ \E save \in saves : Commit(save) \/ Answer(save) \/ SaveFails(save)
  PROVE  TypeOK'
  <1> USE DEF TypeOK
  <1>1. ASSUME NEW d \in Dashboards, Fetch(d) PROVE TypeOK'
    BY <1>1 DEF Fetch
  <1>2. ASSUME NEW d \in Dashboards, Serve(d) PROVE TypeOK'
    BY <1>2 DEF Serve
  <1>3. ASSUME NEW d \in Dashboards, Arrive(d) PROVE TypeOK'
    <2>1. cache' \in [Dashboards -> [known : BOOLEAN, layout : Layouts]]
      BY <1>3, DataIsTyped DEF Arrive
    <2>2. /\ seeded' \in Dashboards \cup {NoDashboard} /\ local' \in Layouts
          /\ timer' \in {NoTimer} \cup [on : Dashboards, layout : Layouts]
      BY <1>3, <2>1, SeedsTyped DEF Arrive
    <2>3. fetch' \in [Dashboards -> [state : {"none", "sent", "answered"}, layout : Layouts]]
      BY <1>3, NoneIsTyped DEF Arrive
    <2> QED
      BY <1>3, <2>1, <2>2, <2>3 DEF Arrive
  <1>4. ASSUME NEW save \in saves, Commit(save) PROVE TypeOK'
    BY <1>4 DEF Commit, Save
  <1>5. ASSUME NEW save \in saves, Answer(save) PROVE TypeOK'
    <2>1. cache' \in [Dashboards -> [known : BOOLEAN, layout : Layouts]]
      BY <1>5, DataIsTyped DEF Answer, Save
    <2>2. /\ seeded' \in Dashboards \cup {NoDashboard} /\ local' \in Layouts
          /\ timer' \in {NoTimer} \cup [on : Dashboards, layout : Layouts]
      BY <1>5, <2>1, SeedsTyped DEF Answer, Save
    <2> QED
      BY <1>5, <2>1, <2>2 DEF Answer
  <1>6. ASSUME NEW save \in saves, SaveFails(save) PROVE TypeOK'
    BY <1>6 DEF SaveFails
  <1> QED
    BY <1>1, <1>2, <1>3, <1>4, <1>5, <1>6

LEMMA TypeStep == TypeOK /\ [Next]_vars => TypeOK'
  <1> SUFFICES ASSUME TypeOK, [Next]_vars PROVE TypeOK'
    OBVIOUS
  <1>1. CASE UNCHANGED vars
    BY <1>1 DEF vars, TypeOK
  <1> QED
    BY <1>1, TypePage, TypeNetwork DEF Next

\* Every variable keeps its type, for any dashboards and whatever goes wrong.
THEOREM EditorTypeCorrect == Spec => []TypeOK
  BY TypeInit, TypeStep, PTL DEF Spec

-----------------------------------------------------------------------------
(* What the page shows.                                                    *)

Stays == Loaded /\ page' = page /\ seeded' = seeded => local \subseteq local'

LEMMA StaysStep == TypeOK /\ [Next]_vars => Stays
  <1> SUFFICES ASSUME TypeOK, [Next]_vars, Loaded, page' = page, seeded' = seeded
               PROVE  local \subseteq local'
    BY DEF Stays
  <1> USE DEF Loaded
  <1>1. ASSUME NEW d \in Dashboards, Open(d) \/ Fetch(d) \/ Serve(d) PROVE local \subseteq local'
    BY <1>1 DEF Open, Fetch, Serve
  <1>2. ASSUME NEW d \in Dashboards, Arrive(d) PROVE local \subseteq local'
    BY <1>2 DEF Arrive, Seeds
  <1>3. CASE Leave \/ EditLayout \/ GridReports \/ TimerFires \/ StartEditing \/ Done
    BY <1>3 DEF Leave, EditLayout, GridReports, TimerFires, StartEditing, Done
  <1>4. ASSUME NEW save \in saves, Commit(save) \/ SaveFails(save) PROVE local \subseteq local'
    BY <1>4 DEF Commit, SaveFails
  <1>5. ASSUME NEW save \in saves, Answer(save) PROVE local \subseteq local'
    BY <1>5 DEF Answer, Seeds
  <1>6. CASE UNCHANGED vars
    BY <1>6 DEF vars
  <1> QED
    BY <1>1, <1>2, <1>3, <1>4, <1>5, <1>6 DEF Next

\* As long as the page stays at its dashboard no answer, however old, takes an
\* edit off it.
THEOREM EditsStay == Spec => EditsStayOnPage
  <1>1. TypeOK /\ [Next]_vars => [Stays]_vars
    BY StaysStep
  <1> QED
    BY <1>1, EditorTypeCorrect, PTL DEF Spec, EditsStayOnPage, Stays
=============================================================================
