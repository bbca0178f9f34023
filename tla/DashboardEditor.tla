--------------------------- MODULE DashboardEditor ---------------------------
(***************************************************************************)
(* Editing a dashboard (frontend/dashboard/src/hooks/useDashboardWidgets,  *)
(* pages/DashboardViewPage).                                               *)
(*                                                                         *)
(* The page keeps its own copy of the layout, seeded from the query cache  *)
(* when the dashboard's id changes, and saves the whole of it: 800 ms      *)
(* after the last edit (debounced), or at once when the user leaves edit   *)
(* mode.  The answer replaces the dashboard in the cache.  One page        *)
(* instance serves every dashboard the user goes to from it (Clone), and   *)
(* keeps its copy, its timer and its edit mode then.                       *)
(*                                                                         *)
(* The copy is saved without the user too: the grid (react-grid-layout,    *)
(* external) reports its layout when it is mounted and when it lays the    *)
(* widgets out anew, and every report is taken for an edit.                *)
(*                                                                         *)
(* A layout is the set of the edits it contains; a dashboard starts empty. *)
(***************************************************************************)
EXTENDS Naturals, FiniteSets

CONSTANTS
    Dashboards,
    NoDashboard,
    Conditions,     \* the sets of troubles a behaviour may meet
    MaxEdits,       \* bound on the user's edits
    MaxSaves        \* bound on the PATCH requests in flight

ASSUME NoDashboardAssumption == NoDashboard \notin Dashboards

\* Return: the user leaves a dashboard and comes back.  Haste: and does not wait
\* for the last save.  Refetch: the query asks again while something is unsaved.
\* Race: a save is sent while another is on its way.  Failure: saves get lost.
Troubles == {"return", "haste", "refetch", "race", "failure"}

ASSUME ConditionsAssumption == Conditions \subseteq SUBSET Troubles

ASSUME BoundsAssumption == MaxEdits \in Nat /\ MaxSaves \in Nat

VARIABLES
    condition,  \* the troubles of this behaviour; never changes
    page,       \* the dashboard the page is at, or none when it is unmounted
    seeded,     \* the dashboard the page's copy was last seeded from (the effect's id)
    local,      \* the page's copy of the layout
    editing,    \* edit mode
    timer,      \* the save the debounce timer will send
    saves,      \* the PATCH requests in flight
    fetch,      \* for each dashboard, the GET in flight
    cache,      \* the query cache
    server,     \* the dashboards table
    edits       \* how many edits the user made

vars == <<condition, page, seeded, local, editing, timer, saves, fetch, cache, server,
          edits>>

pageVars == <<page, seeded, local, editing, timer>>

Edit(d, n) == [on |-> d, n |-> n]

NoTimer == [on |-> NoDashboard, layout |-> {}]

NoFetch == [state |-> "none", layout |-> {}]

NoData == [known |-> FALSE, layout |-> {}]

Data(layout) == [known |-> TRUE, layout |-> layout]

Init ==
    /\ condition \in Conditions
    /\ page = NoDashboard /\ seeded = NoDashboard
    /\ local = {} /\ editing = FALSE
    /\ timer = NoTimer
    /\ saves = {}
    /\ fetch = [d \in Dashboards |-> NoFetch]
    /\ cache = [d \in Dashboards |-> NoData]
    /\ server = [d \in Dashboards |-> {}]
    /\ edits = 0

NothingUnsaved == timer = NoTimer /\ saves = {}

MayGo ==
    page # NoDashboard =>
        /\ condition \cap {"return", "haste"} # {}
        /\ "haste" \in condition \/ NothingUnsaved

-----------------------------------------------------------------------------
(* Coming and going.                                                       *)


\* The effect on [dashboard?.id]: the copy is replaced when another dashboard
\* is loaded; while none is, the copy stays and nothing can be edited.  A grid
\* that was not on the screen while the data was loading is mounted with the
\* copy as it was, before the effect has run: its report is about the new
\* dashboard and holds the widgets of the old one.
Seeds(d, data) ==
    /\ seeded' = IF data.known THEN d ELSE NoDashboard
    /\ local' = IF data.known /\ seeded # d THEN data.layout ELSE local
    /\ \/ timer' = timer
       \/ /\ data.known /\ seeded = NoDashboard /\ local # {}
          /\ timer' = [on |-> d, layout |-> local]

\* The page is mounted, or another dashboard's id comes into its URL.
Open(d) ==
    /\ page # d
    /\ MayGo
    /\ page' = d
    /\ Seeds(d, cache[d])
    /\ UNCHANGED <<condition, editing, saves, fetch, cache, server, edits>>

\* Unmounting clears the timer and drops the copy.
Leave ==
    /\ page # NoDashboard
    /\ MayGo
    /\ page' = NoDashboard /\ seeded' = NoDashboard
    /\ local' = {} /\ editing' = FALSE
    /\ timer' = NoTimer
    /\ UNCHANGED <<condition, saves, fetch, cache, server, edits>>

-----------------------------------------------------------------------------
(* Editing and saving.                                                     *)

Loaded == page # NoDashboard /\ seeded = page

\* addWidget, removeWidget, a drag, the time range: the copy changes, and a
\* running timer starts again with it.
EditLayout ==
    /\ Loaded /\ edits < MaxEdits
    /\ edits' = edits + 1
    /\ local' = local \cup {Edit(page, edits)}
    /\ timer' = [on |-> page, layout |-> local']
    /\ UNCHANGED <<condition, page, seeded, editing, saves, fetch, cache, server>>

\* The grid has laid out the widgets of the copy: updateFromRGL saves them, in
\* edit mode or not.
GridReports ==
    /\ Loaded /\ local # {}
    /\ timer' = [on |-> page, layout |-> local]
    /\ UNCHANGED <<condition, page, seeded, local, editing, saves, fetch, cache, server,
                   edits>>

MaySend ==
    /\ "race" \in condition \/ saves = {}
    /\ "refetch" \in condition \/ \A d \in Dashboards : fetch[d].state = "none"

\* Mutant: the request is not marked as sent.
Sends_Unmarked(d, layout) ==
    /\ MaySend
    /\ Cardinality(saves) < MaxSaves
    /\ saves' = saves \cup {[on |-> d, layout |-> layout, stage |-> "new"]}

Sends(d, layout) ==
    /\ MaySend
    /\ Cardinality(saves) < MaxSaves
    /\ saves' = saves \cup {[on |-> d, layout |-> layout, stage |-> "sent"]}

\* persist's timer: the dashboard and the layout of when it was set.
TimerFires ==
    /\ timer # NoTimer
    /\ Sends(timer.on, timer.layout)
    /\ timer' = NoTimer
    /\ UNCHANGED <<condition, page, seeded, local, editing, fetch, cache, server, edits>>

StartEditing ==
    /\ Loaded /\ ~ editing
    /\ editing' = TRUE
    /\ UNCHANGED <<condition, page, seeded, local, timer, saves, fetch, cache, server,
                   edits>>

\* toggleEdit, Done: flush cancels the timer and sends the copy, also when
\* nothing was edited.
Done ==
    /\ Loaded /\ editing
    /\ Sends(page, local)
    /\ editing' = FALSE
    /\ timer' = NoTimer
    /\ UNCHANGED <<condition, page, seeded, local, fetch, cache, server, edits>>

\* update_dashboard replaces the layout by the one in the request.
Commit(save) ==
    /\ save.stage = "sent"
    /\ server' = [server EXCEPT ![save.on] = save.layout]
    /\ saves' = (saves \ {save}) \cup {[save EXCEPT !.stage = "committed"]}
    /\ UNCHANGED <<condition, pageVars, fetch, cache, edits>>

\* Mutant: the answer also replaces the page's copy.
Answer_Reseeds(save) ==
    /\ save.stage = "committed"
    /\ cache' = [cache EXCEPT ![save.on] = Data(save.layout)]
    /\ saves' = saves \ {save}
    /\ local' = IF page = save.on THEN save.layout ELSE local
    /\ UNCHANGED <<condition, page, seeded, editing, timer, fetch, server, edits>>

\* applyUpdate.  The answer also loads the page, if it waits for this dashboard.
Answer(save) ==
    /\ save.stage = "committed"
    /\ cache' = [cache EXCEPT ![save.on] = Data(save.layout)]
    /\ saves' = saves \ {save}
    /\ IF page = save.on
       THEN Seeds(page, cache'[page])
       ELSE UNCHANGED <<seeded, local, timer>>
    /\ UNCHANGED <<condition, page, editing, fetch, server, edits>>

\* No catch: a refused or unanswered save is forgotten.
SaveFails(save) ==
    /\ "failure" \in condition
    /\ saves' = saves \ {save}
    /\ UNCHANGED <<condition, pageVars, fetch, cache, server, edits>>

-----------------------------------------------------------------------------
(* The query.                                                              *)

\* On mount, on focus, by the refresh button.
Fetch(d) ==
    /\ page = d /\ fetch[d].state = "none"
    /\ "refetch" \in condition \/ NothingUnsaved
    /\ fetch' = [fetch EXCEPT ![d].state = "sent"]
    /\ UNCHANGED <<condition, pageVars, saves, cache, server, edits>>

Serve(d) ==
    /\ fetch[d].state = "sent"
    /\ fetch' = [fetch EXCEPT ![d] = [state |-> "answered", layout |-> server[d]]]
    /\ UNCHANGED <<condition, pageVars, saves, cache, server, edits>>

Arrive(d) ==
    /\ fetch[d].state = "answered"
    /\ cache' = [cache EXCEPT ![d] = Data(fetch[d].layout)]
    /\ fetch' = [fetch EXCEPT ![d] = NoFetch]
    /\ IF page = d
       THEN Seeds(d, cache'[d])
       ELSE UNCHANGED <<seeded, local, timer>>
    /\ UNCHANGED <<condition, page, editing, saves, server, edits>>

Next ==
    \/ \E d \in Dashboards : Open(d) \/ Fetch(d) \/ Serve(d) \/ Arrive(d)
    \/ Leave \/ EditLayout \/ GridReports \/ TimerFires \/ StartEditing \/ Done
    \/ \E save \in saves : Commit(save) \/ Answer(save) \/ SaveFails(save)

Spec == Init /\ [][Next]_vars

\* The browser's timer fires; the API and the network answer.
Fairness ==
    /\ WF_vars(TimerFires)
    /\ WF_vars(\E save \in saves : Commit(save))
    /\ WF_vars(\E save \in saves : Answer(save))
    /\ \A d \in Dashboards : WF_vars(Serve(d)) /\ WF_vars(Arrive(d))

FairSpec == Spec /\ Fairness

-----------------------------------------------------------------------------
Layouts == SUBSET [on : Dashboards, n : Nat]

Save == [on : Dashboards, layout : Layouts, stage : {"sent", "committed"}]

\* Every variable keeps its type.
TypeOK ==
    /\ condition \in Conditions
    /\ {page, seeded} \subseteq Dashboards \cup {NoDashboard}
    /\ local \in Layouts /\ editing \in BOOLEAN
    /\ timer \in {NoTimer} \cup [on : Dashboards, layout : Layouts]
    /\ saves \subseteq Save
    /\ fetch \in [Dashboards -> [state : {"none", "sent", "answered"}, layout : Layouts]]
    /\ cache \in [Dashboards -> [known : BOOLEAN, layout : Layouts]]
    /\ server \in [Dashboards -> Layouts]
    /\ edits \in Nat

\* "Background refetches don't clobber in-flight local edits": as long as the
\* page stays at its dashboard, no answer takes an edit off it.
EditsStayOnPage == [][Loaded /\ page' = page /\ seeded' = seeded => local \subseteq local']_vars


\* "Call when leaving edit mode so changes aren't lost on navigation": what was
\* saved stays saved, also when the user goes to another page and comes back
\* before the save is answered.
SavedIsKept == [][\A d \in Dashboards : server[d] \subseteq server'[d]]_vars

\* A dashboard is never sent the widgets of another one.
NothingStrays == \A save \in saves : \A e \in save.layout : e.on = save.on
=============================================================================
