----------------------------- MODULE QueryCache -----------------------------
(***************************************************************************)
(* One key of the dashboard's query cache (App.tsx: one QueryClient for    *)
(* all pages) and the user who moves between the screens that show it.     *)
(*                                                                         *)
(* The cache itself is a library (TanStack Query 5), modelled from how the *)
(* dashboard uses it: what starts a fetch (a screen that shows stale data, *)
(* a poll, a focus, an invalidation), that an invalidation cancels and     *)
(* repeats a fetch only for a key that is shown and has data, and that     *)
(* an answer clears the invalidation whenever it was sent.                 *)
(*                                                                         *)
(* A shape is what the pages do with one key: the places (screens) the     *)
(* user can be at, and in each whether it shows the key, whether it polls, *)
(* whether a message or button refreshes it, and the effects its calls     *)
(* have.  DashboardPages computes the shapes.                              *)
(***************************************************************************)
EXTENDS Integers, FiniteSets

CONSTANTS
    Shapes,         \* the ways the pages use a key
    Slots,          \* calls in flight at once
    MaxWrites,      \* bound on the versions of the data
    MaxFailures     \* bound on failed fetches and rejected calls

None == -1

\* What a call does to the key: the data changes on the server, the answer
\* invalidates the key, the answer is put under it; owes: the user who made
\* the call expects to see what it wrote.
Effects == [writes : BOOLEAN, refreshes : BOOLEAN, sets : BOOLEAN, owes : BOOLEAN]

IsPlace(p) ==
    /\ {p.shows, p.polls, p.fed} \subseteq BOOLEAN
    /\ p.calls \subseteq Effects
    /\ \A effect \in p.calls : effect.sets => effect.writes

ASSUME ShapesAssumption ==
    \A shape \in Shapes : \A p \in shape.places : IsPlace(p)

ASSUME BoundsAssumption == MaxWrites \in Nat /\ MaxFailures \in Nat /\ IsFiniteSet(Slots)

VARIABLES
    view,       \* the shape of the key; never changes
    place,      \* where the user is
    server,     \* the version of the data on the server
    cache,      \* the data in the browser, and its marks
    fetch,      \* the request under way, if there is one
    calls,      \* the calls in flight
    due,        \* the latest version the user wrote and must see
    failures

vars == <<view, place, server, cache, fetch, calls, due, failures>>

Empty == [version |-> None, invalid |-> FALSE, aged |-> FALSE]

NoFetch == [state |-> "none", version |-> None]

\* Mutant: the states of a query, where those of its fetch belong.
Sent_Pending == [state |-> "pending", version |-> None]

Sent == [state |-> "sent", version |-> None]

Free == [stage |-> "free", version |-> None,
         effect |-> [writes |-> FALSE, refreshes |-> FALSE, sets |-> FALSE, owes |-> FALSE]]

Init ==
    /\ view \in Shapes
    /\ place \in {p \in view.places : ~ p.shows}
    /\ server = 0 /\ due = 0 /\ failures = 0
    /\ cache = Empty
    /\ fetch = NoFetch
    /\ calls = [s \in Slots |-> Free]

Idle == fetch.state = "none"

HasData == cache.version # None

Stale == ~ HasData \/ cache.aged \/ cache.invalid

-----------------------------------------------------------------------------
(* The user and the clock.                                                 *)

\* The screen changes; a component that is mounted by it fetches what is stale
\* unless a fetch is already under way, whoever started it.
Visit(p) ==
    /\ p # place
    /\ place' = p
    /\ fetch' = IF p.shows /\ Stale /\ Idle THEN Sent ELSE fetch
    /\ UNCHANGED <<view, server, cache, calls, due, failures>>

\* The component that shows the key stays mounted (the frame, the page behind
\* a dialog).
Remain(p) ==
    /\ p # place
    /\ place.shows /\ p.shows
    /\ place' = p
    /\ UNCHANGED <<view, server, cache, fetch, calls, due, failures>>

\* Data nobody has shown for a while is collected.
Forget ==
    /\ ~ place.shows /\ Idle /\ HasData
    /\ cache' = Empty
    /\ UNCHANGED <<view, place, server, fetch, calls, due, failures>>

\* The stale time runs out.
Age ==
    /\ HasData /\ ~ cache.aged
    /\ cache' = [cache EXCEPT !.aged = TRUE]
    /\ UNCHANGED <<view, place, server, fetch, calls, due, failures>>

Ask ==
    /\ place.shows /\ Idle
    /\ fetch' = Sent
    /\ UNCHANGED <<view, place, server, cache, calls, due, failures>>

\* The window gets the focus back.
Refocus == Stale /\ Ask

\* The poll's interval has passed; nothing happens while a fetch is under way.
Tick == place.polls /\ Ask

-----------------------------------------------------------------------------
(* A fetch.                                                                *)

Serve ==
    /\ fetch.state = "sent"
    /\ fetch' = [fetch EXCEPT !.state = "answered", !.version = server]
    /\ UNCHANGED <<view, place, server, cache, calls, due, failures>>

\* Clears the invalidation, also one that came after the fetch was served.
Arrive ==
    /\ fetch.state = "answered"
    /\ cache' = [version |-> fetch.version, invalid |-> FALSE, aged |-> FALSE]
    /\ fetch' = NoFetch
    /\ UNCHANGED <<view, place, server, calls, due, failures>>

\* The last retry failed: the old data stays, marked.
FetchFails ==
    /\ ~ Idle /\ failures < MaxFailures
    /\ failures' = failures + 1
    /\ fetch' = NoFetch
    /\ cache' = [cache EXCEPT !.invalid = TRUE]
    /\ UNCHANGED <<view, place, server, calls, due>>

-----------------------------------------------------------------------------
(* Invalidation.                                                           *)

\* Nothing is repeated for a key that nobody shows; a first fetch that is
\* under way is joined, not cancelled.
Repeats == place.shows /\ (HasData \/ Idle)

Invalidated == IF Repeats THEN Sent ELSE fetch

\* A message from the server or the refresh button.
Feed ==
    /\ place.fed
    /\ fetch' = Invalidated
    /\ cache' = [cache EXCEPT !.invalid = TRUE]
    /\ UNCHANGED <<view, place, server, calls, due, failures>>

-----------------------------------------------------------------------------
(* Calls.                                                                  *)

\* Bounds the versions, those of the calls under way counted.
MoreWrites ==
    server + Cardinality({s \in Slots : calls[s].stage = "sent" /\ calls[s].effect.writes}) < MaxWrites

Submit(s, effect) ==
    /\ calls[s].stage = "free"
    /\ effect.writes => MoreWrites
    /\ calls' = [calls EXCEPT ![s] = [stage |-> "sent", version |-> None, effect |-> effect]]
    /\ UNCHANGED <<view, place, server, cache, fetch, due, failures>>

Commit(s) ==
    /\ calls[s].stage = "sent"
    /\ server' = IF calls[s].effect.writes THEN server + 1 ELSE server
    /\ calls' = [calls EXCEPT ![s].stage = "committed", ![s].version = server']
    /\ UNCHANGED <<view, place, cache, fetch, due, failures>>

\* Whether the user can count on seeing the write: it is the last one of those
\* that put their answer into the cache, and no older fetch can overtake it.
Owed(s) ==
    LET effect == calls[s].effect
    IN  /\ effect.owes
        /\ \A other \in Slots \ {s} : ~ calls[other].effect.sets
        /\ Idle \/ (effect.refreshes /\ place.shows /\ HasData)

Answer_WithoutInvalidation(s) ==
    LET effect  == calls[s].effect
        version == calls[s].version
    IN  /\ calls[s].stage = "committed"
        /\ cache' = IF effect.sets
                    THEN [version |-> version, invalid |-> FALSE, aged |-> FALSE]
                    ELSE cache
        /\ due' = IF Owed(s) /\ version > due THEN version ELSE due
        /\ calls' = [calls EXCEPT ![s] = Free]
        /\ UNCHANGED <<view, place, server, fetch, failures>>

\* onSuccess: setQueryData, then invalidateQueries.
Answer(s) ==
    LET effect  == calls[s].effect
        version == calls[s].version
        kept    == IF effect.sets
                   THEN [version |-> version, invalid |-> FALSE, aged |-> FALSE]
                   ELSE cache
    IN  /\ calls[s].stage = "committed"
        /\ cache' = IF effect.refreshes THEN [kept EXCEPT !.invalid = TRUE] ELSE kept
        /\ fetch' = IF effect.refreshes THEN Invalidated ELSE fetch
        /\ due' = IF Owed(s) /\ version > due THEN version ELSE due
        /\ calls' = [calls EXCEPT ![s] = Free]
        /\ UNCHANGED <<view, place, server, failures>>

\* Refused, or done with its answer lost: nothing is refreshed.
Reject(s) ==
    /\ calls[s].stage # "free" /\ failures < MaxFailures
    /\ failures' = failures + 1
    /\ calls' = [calls EXCEPT ![s] = Free]
    /\ UNCHANGED <<view, place, server, cache, fetch, due>>

\* The data changes without the user: another user, a collector, the engine.
OutsideWrite ==
    /\ MoreWrites
    /\ server' = server + 1
    /\ UNCHANGED <<view, place, cache, fetch, calls, due, failures>>

Next ==
    \/ \E p \in view.places : Visit(p) \/ Remain(p)
    \/ Forget \/ Age \/ Refocus \/ Tick
    \/ Serve \/ Arrive \/ FetchFails
    \/ Feed \/ OutsideWrite
    \/ \E s \in Slots :
          \/ \E effect \in place.calls : Submit(s, effect)
          \/ Commit(s) \/ Answer(s) \/ Reject(s)

Spec == Init /\ [][Next]_vars

\* The browser's timer fires, the API serves and its answer arrives, if nothing takes
\* it back.
Fairness == WF_vars(Tick) /\ WF_vars(Serve) /\ WF_vars(Arrive)

FairSpec == Spec /\ Fairness

-----------------------------------------------------------------------------
Versions == Nat \cup {None}

\* What the pages have to get right: a call that changes what its user is
\* looking at invalidates it or puts its answer there.
OwesWhatItRefreshes ==
    \A shape \in Shapes : \A p \in shape.places : \A effect \in p.calls :
        effect.owes => effect.writes /\ (effect.refreshes \/ effect.sets)

\* Every variable keeps its type.
TypeOK ==
    /\ view \in Shapes
    /\ place \in view.places
    /\ server \in Nat /\ due \in Nat /\ failures \in Nat
    /\ cache \in [version : Versions, invalid : BOOLEAN, aged : BOOLEAN]
    /\ fetch \in [state : {"none", "sent", "answered"}, version : Versions]
    /\ calls \in [Slots -> [stage   : {"free", "sent", "committed"},
                            version : Versions,
                            effect  : Effects]]

\* A screen that has finished loading shows what its user wrote: after the
\* call was answered, no order of fetches, polls, messages and page changes
\* leaves data from before the call on the screen as fresh (the invalidations
\* in the pages' onSuccess).  A failed fetch leaves a mark instead.
OwnWriteShown == place.shows /\ Idle /\ ~ cache.invalid => cache.version >= due

\* What cancels and repeats a fetch that has been answered.
Interrupts == Feed \/ \E s \in Slots : Answer(s)

\* A screen that stays open on data that others change catches up with the server
\* (the refetchInterval of the pages) again and again, also when fetches fail and
\* messages cancel them, unless messages and answers never stop coming.
WatchedCatchesUp ==
    view.watched /\ <>[] place.shows =>
       []<>(cache.version = server) \/ []<><<Interrupts>>_vars

\* The same without the exception: AlertsPage.tsx:116-121 refreshes on every message,
\* and messages that come faster than answers leave the page as it was.
StormsAreSurvived ==
    view.watched /\ <>[] place.shows => []<>(cache.version = server)
=============================================================================
