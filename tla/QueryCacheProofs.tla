-------------------------- MODULE QueryCacheProofs --------------------------
(***************************************************************************)
(* What holds of a key of the query cache whatever the pages are, however  *)
(* many calls are in flight and requests fail: its types, and that users   *)
(* see what they wrote if every call that owes them its effect refreshes   *)
(* or sets the key, which is what has to be true of the pages.             *)
(***************************************************************************)
EXTENDS QueryCache, TLAPS

USE ShapesAssumption, BoundsAssumption DEF None

-----------------------------------------------------------------------------
(* Types *)

LEMMA PlaceIsTyped ==
  ASSUME NEW shape \in Shapes, NEW p \in shape.places
  PROVE  /\ p.shows \in BOOLEAN
         /\ p.calls \subseteq Effects
         /\ \A effect \in p.calls : effect.sets => effect.writes
  BY DEF IsPlace

LEMMA FreeIsTyped ==
  Free \in [stage : {"free", "sent", "committed"}, version : Versions, effect : Effects]
  BY DEF Free, Effects, Versions

LEMMA SentIsTyped ==
  /\ Sent \in [state : {"none", "sent", "answered"}, version : Versions]
  /\ Sent.state = "sent" /\ Sent.version = None
  BY DEF Sent, Versions

LEMMA NoFetchIsTyped ==
  NoFetch \in [state : {"none", "sent", "answered"}, version : Versions]
  BY DEF NoFetch, Versions

LEMMA EmptyIsTyped ==
  Empty \in [version : Versions, invalid : BOOLEAN, aged : BOOLEAN]
  BY DEF Empty, Versions

LEMMA TypeInit == Init => TypeOK
  BY FreeIsTyped, NoFetchIsTyped, EmptyIsTyped DEF Init, TypeOK

\* The moves of the user, the clock and the fetch.
LEMMA TypeMove ==
  ASSUME TypeOK,
         \/ \E p \in view.places : Visit(p) \/ Remain(p)
         \/ Forget \/ Age \/ Refocus \/ Tick \/ Serve \/ Arrive \/ FetchFails \/ Feed
         \/ OutsideWrite
  PROVE  TypeOK'
  <1> USE DEF TypeOK
  <1>1. ASSUME NEW p \in view.places, Visit(p) PROVE TypeOK'
    BY <1>1, PlaceIsTyped, SentIsTyped DEF Visit
  <1>2. ASSUME NEW p \in view.places, Remain(p) PROVE TypeOK'
    BY <1>2 DEF Remain
  <1>3. CASE Forget
    BY <1>3, EmptyIsTyped DEF Forget
  <1>4. CASE Age
    BY <1>4 DEF Age
  <1>5. CASE Ask
    BY <1>5, PlaceIsTyped, SentIsTyped DEF Ask
  <1>6. CASE Serve
    BY <1>6 DEF Serve, Versions
  <1>7. CASE Arrive
    BY <1>7, NoFetchIsTyped DEF Arrive
  <1>8. CASE FetchFails
    <2>1. cache' \in [version : Versions, invalid : BOOLEAN, aged : BOOLEAN]
      BY <1>8 DEF FetchFails
    <2>2. failures' \in Nat /\ fetch' = NoFetch /\ UNCHANGED <<view, place, server, calls, due>>
      BY <1>8 DEF FetchFails
    <2> QED
      BY <2>1, <2>2, NoFetchIsTyped
  <1>9. CASE Feed
    BY <1>9, PlaceIsTyped, SentIsTyped DEF Feed, Invalidated
  <1>10. CASE OutsideWrite
    BY <1>10 DEF OutsideWrite
  <1> QED
    BY <1>1, <1>2, <1>3, <1>4, <1>5, <1>6, <1>7, <1>8, <1>9, <1>10 DEF Refocus, Tick

LEMMA TypeCall ==
  ASSUME TypeOK, NEW s \in Slots,
         \/ \E effect \in place.calls : Submit(s, effect)
         \/ Commit(s) \/ Answer(s) \/ Reject(s)
  PROVE  TypeOK'
  <1> USE DEF TypeOK
  <1>0. place.calls \subseteq Effects
    BY PlaceIsTyped
  <1>1. ASSUME NEW effect \in place.calls, Submit(s, effect) PROVE TypeOK'
    BY <1>0, <1>1 DEF Submit, Versions
  <1>2. CASE Commit(s)
    <2>1. server' \in Nat
      BY <1>2 DEF Commit
    <2>2. calls' = [calls EXCEPT ![s] = [@ EXCEPT !.stage = "committed", !.version = server']]
      BY <1>2 DEF Commit
    <2>3. [calls[s] EXCEPT !.stage = "committed", !.version = server']
             \in [stage : {"free", "sent", "committed"}, version : Versions, effect : Effects]
      BY <2>1 DEF Versions
    <2> QED
      BY <1>2, <2>1, <2>2, <2>3 DEF Commit
  <1>3. CASE Answer(s)
    <2>1. fetch' \in [state : {"none", "sent", "answered"}, version : Versions]
      BY <1>0, <1>3, SentIsTyped DEF Answer, Invalidated
    <2>2. cache' \in [version : Versions, invalid : BOOLEAN, aged : BOOLEAN]
      BY <1>0, <1>3 DEF Answer
    <2>3. due' \in Nat
      BY <1>3 DEF Answer, Versions
    <2> QED
      BY <1>3, <2>1, <2>2, <2>3, FreeIsTyped DEF Answer
  <1>4. CASE Reject(s)
    BY <1>4, FreeIsTyped DEF Reject
  <1> QED
    BY <1>1, <1>2, <1>3, <1>4

LEMMA TypeStep == TypeOK /\ [Next]_vars => TypeOK'
  <1> SUFFICES ASSUME TypeOK, [Next]_vars PROVE TypeOK'
    OBVIOUS
  <1>1. CASE UNCHANGED vars
    BY <1>1 DEF vars, TypeOK
  <1> QED
    BY <1>1, TypeMove, TypeCall DEF Next

\* Every variable keeps its type, whatever the pages do with the key.
THEOREM QueryTypeCorrect == Spec => []TypeOK
  BY TypeInit, TypeStep, PTL DEF Spec

-----------------------------------------------------------------------------
(* The user's own writes.                                                  *)

\* Nothing is newer than the server.
BehindServer ==
    /\ due <= server
    /\ \A s \in Slots : calls[s].stage = "committed" => calls[s].version \in 0 .. server

\* Calls in flight came from a page.  One that will replace the data under the
\* key and has been carried out is no older than what the user must see.
CallsAreHonest ==
    \A s \in Slots :
        LET effect == calls[s].effect
        IN  /\ effect.owes => effect.writes /\ (effect.refreshes \/ effect.sets)
            /\ effect.sets => effect.writes
            /\ effect.sets /\ calls[s].stage = "committed" => calls[s].version >= due

\* An answer on its way was served after the write the user must see.
FetchIsCurrent == fetch.state = "answered" => fetch.version \in Nat /\ fetch.version >= due

\* Unmarked data at rest is current, and a screen that shows the key and waits
\* for nothing has some.
RestIsCurrent ==
    Idle /\ ~ cache.invalid =>
        /\ HasData => cache.version >= due
        /\ place.shows => HasData

Owing == BehindServer /\ CallsAreHonest /\ FetchIsCurrent /\ RestIsCurrent

LEMMA OwingInit == Init => Owing
  BY DEF Init, Owing, BehindServer, CallsAreHonest, FetchIsCurrent, RestIsCurrent, Free,
         NoFetch, Empty, HasData

LEMMA OwingMove ==
  ASSUME TypeOK, Owing,
         \/ \E p \in view.places : Visit(p) \/ Remain(p)
         \/ Forget \/ Age \/ Refocus \/ Tick \/ Serve \/ Arrive \/ FetchFails \/ Feed
         \/ OutsideWrite
  PROVE  Owing'
  <1> USE DEF TypeOK, Versions, Owing, BehindServer, CallsAreHonest, FetchIsCurrent,
              RestIsCurrent, Idle, HasData
  <1>1. ASSUME NEW p \in view.places, Visit(p) PROVE Owing'
    BY <1>1, PlaceIsTyped DEF Visit, Stale, Sent
  <1>2. ASSUME NEW p \in view.places, Remain(p) PROVE Owing'
    BY <1>2 DEF Remain
  <1>3. CASE Forget
    BY <1>3 DEF Forget, Empty
  <1>4. CASE Age
    BY <1>4 DEF Age
  <1>5. CASE Ask
    BY <1>5 DEF Ask, Sent
  <1>6. CASE Serve
    BY <1>6 DEF Serve
  <1>7. CASE Arrive
    BY <1>7 DEF Arrive, NoFetch
  <1>8. CASE FetchFails
    BY <1>8 DEF FetchFails, NoFetch
  <1>9. CASE Feed
    BY <1>9 DEF Feed, Invalidated, Sent
  <1>10. CASE OutsideWrite
    BY <1>10 DEF OutsideWrite
  <1> QED
    BY <1>1, <1>2, <1>3, <1>4, <1>5, <1>6, <1>7, <1>8, <1>9, <1>10 DEF Refocus, Tick

\* The answer of a call: what it raises due to is either in the cache, or the
\* cache is marked and no answer of before is on its way.
LEMMA OwingAnswer ==
  ASSUME TypeOK, Owing, NEW s \in Slots, Answer(s)
  PROVE  Owing'
  <1> DEFINE effect == calls[s].effect
             version == calls[s].version
  <1> USE DEF Owing
  <1>0. /\ version \in 0 .. server /\ due \in Nat /\ server \in Nat
        /\ effect \in Effects
        /\ effect.owes => effect.refreshes \/ effect.sets
        /\ effect.sets => version >= due
        /\ server' = server /\ place' = place
        /\ calls' = [calls EXCEPT ![s] = Free]
    BY DEF TypeOK, Answer, BehindServer, CallsAreHonest
  <1>1. /\ due' \in Nat /\ due' >= due /\ due' <= server
        /\ due' # due => Owed(s) /\ due' = version
    <2>1. CASE Owed(s) /\ version > due
      BY <1>0, <2>1 DEF Answer
    <2>2. CASE ~ (Owed(s) /\ version > due)
      BY <1>0, <2>2 DEF Answer, BehindServer
    <2> QED
      BY <2>1, <2>2
  <1>2. \A other \in Slots \ {s} : calls'[other] = calls[other]
    BY <1>0 DEF TypeOK
  <1>3. calls'[s] = Free
    BY <1>0 DEF TypeOK
  <1>4. BehindServer'
    BY <1>0, <1>1, <1>2, <1>3 DEF BehindServer, Free
  <1>5. CallsAreHonest'
    <2>1. CASE due' = due
      BY <1>2, <1>3, <2>1 DEF CallsAreHonest, Free
    <2>2. CASE due' # due
      BY <1>1, <1>2, <1>3, <2>2 DEF CallsAreHonest, Free, Owed
    <2> QED
      BY <2>1, <2>2
  <1>6. FetchIsCurrent'
    <2>1. CASE effect.refreshes
      BY <1>0, <1>1, <2>1 DEF Answer, Invalidated, Sent, Repeats, FetchIsCurrent, Owed, TypeOK, Idle
    <2>2. CASE ~ effect.refreshes
      BY <1>0, <1>1, <2>2 DEF Answer, FetchIsCurrent, Owed, Idle
    <2> QED
      BY <2>1, <2>2
  <1>7. RestIsCurrent'
    <2>1. CASE effect.refreshes
      <3>1. cache'.invalid = TRUE
        BY <2>1 DEF Answer, TypeOK
      <3> QED
        BY <3>1 DEF RestIsCurrent
    <2>2. CASE ~ effect.refreshes /\ effect.sets
      <3>1. cache'.version = version
        BY <2>2 DEF Answer
      <3> QED
        BY <1>0, <1>1, <3>1, <2>2 DEF RestIsCurrent, HasData
    <2>3. CASE ~ effect.refreshes /\ ~ effect.sets
      <3>1. due' = due /\ cache' = cache /\ fetch' = fetch
        BY <1>0, <1>1, <2>3 DEF Answer, Owed
      <3> QED
        BY <1>0, <3>1 DEF RestIsCurrent, Idle, HasData
    <2> QED
      BY <2>1, <2>2, <2>3
  <1> QED
    BY <1>4, <1>5, <1>6, <1>7

LEMMA OwingCall ==
  ASSUME OwesWhatItRefreshes, TypeOK, Owing, NEW s \in Slots,
         \/ \E effect \in place.calls : Submit(s, effect)
         \/ Commit(s) \/ Reject(s)
  PROVE  Owing'
  <1> USE DEF TypeOK, Versions, Owing, BehindServer, FetchIsCurrent, RestIsCurrent, Idle, HasData
  <1>1. ASSUME NEW effect \in place.calls, Submit(s, effect) PROVE Owing'
    <2>1. /\ effect.owes => effect.writes /\ (effect.refreshes \/ effect.sets)
          /\ effect.sets => effect.writes
      BY PlaceIsTyped DEF OwesWhatItRefreshes
    <2>2. CallsAreHonest'
      BY <1>1, <2>1 DEF Submit, CallsAreHonest
    <2> QED
      BY <1>1, <2>2 DEF Submit
  <1>2. CASE Commit(s)
    <2>1. server' \in Nat /\ server' >= server /\ calls[s].effect.writes => server' > due
      BY <1>2 DEF Commit, Effects
    <2>2. CallsAreHonest'
      BY <1>2, <2>1 DEF Commit, CallsAreHonest, Effects
    <2> QED
      BY <1>2, <2>1, <2>2 DEF Commit
  <1>3. CASE Reject(s)
    BY <1>3 DEF Reject, Free, CallsAreHonest
  <1> QED
    BY <1>1, <1>2, <1>3

LEMMA OwingStep ==
  ASSUME OwesWhatItRefreshes
  PROVE  TypeOK /\ Owing /\ [Next]_vars => Owing'
  <1> SUFFICES ASSUME TypeOK, Owing, [Next]_vars PROVE Owing'
    OBVIOUS
  <1>1. CASE UNCHANGED vars
    BY <1>1 DEF vars, Owing, BehindServer, CallsAreHonest, FetchIsCurrent, RestIsCurrent, Idle,
                HasData
  <1> QED
    BY <1>1, OwingMove, OwingCall, OwingAnswer DEF Next

LEMMA OwingShows == TypeOK /\ Owing => OwnWriteShown
  BY DEF TypeOK, Versions, Owing, RestIsCurrent, OwnWriteShown

\* Once all is quiet, users see what they wrote: if every call that owes its
\* effect refreshes or sets the key, no order of fetches, polls, messages, page
\* changes, failures and other users' writes leaves the data of before on the
\* screen as fresh.
THEOREM OwnWritesAreShown ==
  ASSUME OwesWhatItRefreshes
  PROVE  Spec => []OwnWriteShown
  <1>1. Spec => []Owing
    BY OwingInit, OwingStep, QueryTypeCorrect, PTL DEF Spec
  <1> QED
    BY <1>1, OwingShows, QueryTypeCorrect, PTL
=============================================================================
