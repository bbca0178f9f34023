----------------------- MODULE AlertCorrelationProofs -----------------------
(***************************************************************************)
(* What AlertCorrelation's suppression map says, for any network, rules    *)
(* and orders of simultaneous failures.  The cascade is two recursive      *)
(* functions over rounds.  Their values are had without an induction       *)
(* theorem over predicates: a set of naturals that holds 0 and, with a     *)
(* number, the next one, holds them all (Rounds).  First that the          *)
(* functions are defined, then that as many rounds as devices are enough,  *)
(* then what every round keeps, then the steps of the specification.       *)
(***************************************************************************)
EXTENDS AlertCorrelation, FiniteSetTheorems, TLAPS

-----------------------------------------------------------------------------
(* Naturals and iteration.                                                 *)

\* Every set of naturals that is not empty has a least element, because the intervals
\* 0..n are finite sets ordered by inclusion.
LEMMA LeastNatural ==
    ASSUME NEW T, T \subseteq Nat, T # {}
    PROVE  \E n \in T : \A m \in T : n <= m
<1> DEFINE R == StrictSubsetOrdering(Nat)
           I == {0..n : n \in T}
<1>1. IsWellFoundedOn(R, FiniteSubsetsOf(Nat))
  BY FS_StrictSubsetOrderingWellFounded
<1>2. I \subseteq FiniteSubsetsOf(Nat)
  <2>1. \A n \in T : IsFiniteSet(0..n) /\ 0..n \subseteq Nat
    BY FS_Interval
  <2> QED BY <2>1 DEF FiniteSubsetsOf
<1>3. I # {}
  OBVIOUS
<1>4. PICK i \in I : \A j \in I : ~(<<j, i>> \in R)
  <2> HIDE DEF R, I
  <2> QED BY <1>1, <1>2, <1>3, WFMin
<1>5. PICK n \in T : i = 0..n
  OBVIOUS
<1>6. ASSUME NEW m \in T, ~(n <= m) PROVE FALSE
  <2>1. <<0..m, 0..n>> \notin R
    BY <1>4, <1>5
  <2>2. 0..m \subseteq 0..n /\ n \in 0..n /\ n \notin 0..m
    BY <1>6
  <2>3. 0..m \subseteq Nat /\ 0..n \subseteq Nat
    BY <1>6
  <2> QED BY <2>1, <2>2, <2>3 DEF StrictSubsetOrdering
<1> QED BY <1>6

\* Induction over rounds, with a set of naturals in the place of the predicate.
LEMMA Rounds ==
    ASSUME NEW S, 0 \in S, \A n \in Nat : n \in S => n + 1 \in S
    PROVE  Nat \subseteq S
<1>1. SUFFICES ASSUME Nat \ S # {} PROVE FALSE
  OBVIOUS
<1>2. PICK n \in Nat \ S : \A m \in Nat \ S : n <= m
  BY <1>1, LeastNatural
<1>3. n - 1 \in Nat /\ n - 1 \in S
  BY <1>2
<1> QED BY <1>3, <1>2

Iterates(g, N, S, x, f) ==
    /\ g \in [0..N -> S]
    /\ g[0] = x
    /\ \A n \in 1..N : g[n] = f[g[n - 1]]

\* A function on S can be iterated any number of times.
LEMMA Iteration ==
    ASSUME NEW N \in Nat, NEW S, NEW x \in S, NEW f \in [S -> S]
    PROVE  \E g : Iterates(g, N, S, x, f)
<1> DEFINE Is(g, k) == g[0] = x /\ \A n \in 1..k : g[n] = f[g[n - 1]]
           Done == {k \in Nat : \E g \in [0..k -> S] : Is(g, k)}
<1>1. 0 \in Done
  <2>1. [n \in 0..0 |-> x] \in [0..0 -> S] /\ Is([n \in 0..0 |-> x], 0)
    OBVIOUS
  <2> QED BY <2>1
<1>2. ASSUME NEW k \in Nat, k \in Done PROVE k + 1 \in Done
  <2>1. PICK g \in [0..k -> S] : Is(g, k)
    BY <1>2
  <2> DEFINE h == [n \in 0..(k + 1) |-> IF n <= k THEN g[n] ELSE f[g[k]]]
  <2>2. h \in [0..(k + 1) -> S]
    OBVIOUS
  <2>3. h[0] = x
    BY <2>1
  <2>4. ASSUME NEW n \in 1..(k + 1) PROVE h[n] = f[h[n - 1]]
    <3>1. CASE n <= k
      BY <3>1, <2>1
    <3>2. CASE n = k + 1
      BY <3>2
    <3> QED BY <3>1, <3>2
  <2> HIDE DEF h
  <2> QED BY <2>2, <2>3, <2>4
<1>3. N \in Done
  <2> HIDE DEF Done
  <2> QED BY <1>1, <1>2, Rounds
<1> QED BY <1>3 DEF Iterates

-----------------------------------------------------------------------------
(* Rule 2 for one root: the order of failures, and reaching.               *)

\* older orders the failed devices, and only those.  That it is irreflexive is in TypeOK.
FailuresOrdered ==
    \A d \in Devices :
        /\ older[d] \subseteq Down
        /\ older[d] # {} => d \in Down
        /\ \A e \in older[d] : older[e] \subseteq older[d]

LEMMA SizeType == Cardinality(Devices) \in Nat
BY NetworkAssumption, FS_CardinalityType

\* Of devices that are not none, one has no earlier failure among them: the one with
\* the fewest.
LEMMA FirstExists ==
    ASSUME TypeOK, FailuresOrdered, NEW S, S \subseteq Devices, S # {}
    PROVE  \E d \in S : older[d] \cap S = {}
<1> DEFINE Size(d) == Cardinality(older[d] \cap S)
           sizes == {Size(d) : d \in S}
<1>1. \A d \in S : IsFiniteSet(older[d] \cap S) /\ Size(d) \in Nat
  BY NetworkAssumption, FS_Subset, FS_CardinalityType DEF TypeOK
<1>2. PICK d \in S : \A e \in S : Size(d) <= Size(e)
  <2>1. sizes \subseteq Nat /\ sizes # {}
    BY <1>1
  <2>2. PICK n \in sizes : \A k \in sizes : n <= k
    <3> HIDE DEF sizes
    <3> QED BY <2>1, LeastNatural
  <2> QED BY <2>2
<1>3. ASSUME NEW e \in older[d] \cap S PROVE FALSE
  <2>1. older[e] \cap S \subseteq older[d] \cap S /\ e \notin older[e]
    <3>1. d \in Devices /\ e \in Devices
      OBVIOUS
    <3> QED BY <1>3, <3>1 DEF FailuresOrdered, TypeOK
  <2>2. e \in older[d] \cap S /\ e \notin older[e] \cap S
    BY <1>3, <2>1
  <2>3. Size(e) <= Size(d) /\ Size(e) # Size(d)
    <3>1. IsFiniteSet(older[d] \cap S)
      BY <1>1
    <3> QED BY <2>1, <2>2, <3>1, FS_Subset
  <2>4. Size(e) \in Nat /\ Size(d) \in Nat /\ Size(d) <= Size(e)
    BY <1>1, <1>2, <1>3
  <2> HIDE DEF Size
  <2> QED BY <2>3, <2>4
<1> QED BY <1>3

\* The next root is one of the waiting devices, and none of them failed before it.
LEMMA EarliestExists ==
    ASSUME TypeOK, FailuresOrdered, NEW S, S \subseteq Devices, S # {}, NEW order \in Orders
    PROVE  Earliest(S, order) \in S /\ older[Earliest(S, order)] \cap S = {}
<1> DEFINE first == {d \in S : older[d] \cap S = {}}
           places == {order[d] : d \in first}
<1>1. first # {} /\ first \subseteq S
  BY FirstExists
<1>2. places \subseteq Nat /\ places # {}
  BY <1>1, SizeType DEF Orders
<1>3. PICK n \in places : \A k \in places : n <= k
  <2> HIDE DEF places
  <2> QED BY <1>2, LeastNatural
<1>4. \E x \in first : \A e \in first : order[x] <= order[e]
  BY <1>3
<1>5. Earliest(S, order) \in first
  <2> HIDE DEF first
  <2>1. (CHOOSE x \in first : \A e \in first : order[x] <= order[e]) \in first
    BY <1>4
  <2> QED BY <2>1 DEF Earliest, first
<1> QED BY <1>5

\* The rounds of Reached are defined, and each is the spread of the one before.
LEMMA ReachedRounds ==
    ASSUME NEW root \in Devices, NEW visited
    PROVE  LET N == Cardinality(Devices)
               R == Reached(root, visited) IN
           /\ R \in [0..N -> SUBSET Devices]
           /\ R[0] = {root}
           /\ \A n \in 1..N : R[n] = Spread(R[n - 1], root, visited)
<1> DEFINE N == Cardinality(Devices)
           f == [devs \in SUBSET Devices |-> Spread(devs, root, visited)]
<1>1. f \in [SUBSET Devices -> SUBSET Devices]
  BY DEF Spread
<1>n. N \in Nat
  BY SizeType
<1> HIDE DEF N
<1>2. PICK g \in [0..N -> SUBSET Devices] :
          g[0] = {root} /\ \A n \in 1..N : g[n] = f[g[n - 1]]
  <2> DEFINE D == SUBSET Devices
             x == {root}
  <2>1. x \in D /\ f \in [D -> D]
    BY <1>1
  <2> HIDE DEF f, D, x
  <2>2. \E g : Iterates(g, N, D, x, f)
    BY <2>1, <1>n, Iteration
  <2> QED BY <2>2 DEF D, x, Iterates
<1>3. \A n \in 1..N : g[n - 1] \in SUBSET Devices
  BY <1>n
<1>4. \A n \in 1..N : g[n] = Spread(g[n - 1], root, visited)
  BY <1>2, <1>3
<1>5. g = [n \in 0..N |-> IF n = 0 THEN {root} ELSE Spread(g[n - 1], root, visited)]
  <2>1. \A n \in 0..N : g[n] = IF n = 0 THEN {root} ELSE Spread(g[n - 1], root, visited)
    <3> HIDE DEF f
    <3> QED BY <1>2, <1>4, <1>n
  <2> HIDE DEF f
  <2> QED BY <2>1
<1> DEFINE R == Reached(root, visited)
<1>6. R = [n \in 0..N |-> IF n = 0 THEN {root} ELSE Spread(R[n - 1], root, visited)]
  <2> HIDE DEF f
  <2> QED BY <1>5 DEF Reached, N
<1> HIDE DEF R
<1>e. R[0] = {root} /\ \A n \in 1..N : R[n] = Spread(R[n - 1], root, visited)
  <2>1. 0 \in 0..N /\ \A n \in 1..N : n \in 0..N /\ n # 0
    BY <1>n
  <2> QED BY <1>6, <2>1
<1> DEFINE Typed == {n \in Nat : n \in 0..N => R[n] \in SUBSET Devices}
<1>7. 0 \in Typed
  BY <1>e
<1>8. ASSUME NEW n \in Nat, n \in Typed PROVE n + 1 \in Typed
  <2> SUFFICES ASSUME n + 1 \in 0..N PROVE R[n + 1] \in SUBSET Devices
    OBVIOUS
  <2>1. n \in 0..N /\ n + 1 \in 1..N /\ (n + 1) - 1 = n
    BY <1>n
  <2>2. R[n + 1] = Spread(R[n], root, visited)
    BY <2>1, <1>e
  <2> QED BY <2>1, <2>2, <1>8 DEF Spread
<1>9. Nat \subseteq Typed
  <2> HIDE DEF Typed
  <2> QED BY <1>7, <1>8, Rounds
<1>10. R \in [0..N -> SUBSET Devices]
  <2>1. \A n \in 0..N : R[n] \in SUBSET Devices
    BY <1>9, <1>n
  <2>2. DOMAIN R = 0..N /\ R = [n \in DOMAIN R |-> R[n]]
    BY <1>6
  <2> HIDE DEF Typed
  <2> QED BY <2>1, <2>2
<1> QED BY <1>e, <1>10 DEF N, R

\* As many rounds as there are devices are enough: what rule 2 takes down with a root
\* is joined to it link by link, and there is nothing it could still take.  A round
\* that is not the last one adds a device.
LEMMA DownstreamIsClosed ==
    ASSUME NEW root \in Devices, NEW visited
    PROVE  LET with == Downstream(root, visited) \cup {root} IN
           /\ Downstream(root, visited) \subseteq Devices \ {root}
           /\ \A d \in Downstream(root, visited) :
                 CutOff(d, root, visited) /\ Neighbours(d) \cap with # {}
           /\ \A d \in Devices :
                 CutOff(d, root, visited) /\ Neighbours(d) \cap with # {} => d \in with
<1> DEFINE N == Cardinality(Devices)
           R == Reached(root, visited)
           Joined(d, devs) == CutOff(d, root, visited) /\ Neighbours(d) \cap devs # {}
           Grown(devs) == Spread(devs, root, visited)
<1>1. N \in Nat /\ IsFiniteSet(Devices)
  BY SizeType, NetworkAssumption
<1>2. /\ R \in [0..N -> SUBSET Devices]
      /\ R[0] = {root}
      /\ \A n \in 1..N : R[n] = Grown(R[n - 1])
  BY ReachedRounds
<1>3. \A devs : Grown(devs) = devs \cup {d \in Devices : Joined(d, devs)}
  BY DEF Spread
<1>4. Downstream(root, visited) = R[N] \ {root}
  BY DEF Downstream
<1> HIDE DEF N, R, Joined, Grown
<1> DEFINE Sound == {n \in Nat : n \in 0..N =>
                        root \in R[n] /\ \A d \in R[n] \ {root} : Joined(d, R[n])}
           Big == {n \in Nat : n \in 0..N =>
                        Grown(R[n]) = R[n] \/ Cardinality(R[n]) >= n + 1}
<1>5. ASSUME NEW n \in Nat, n + 1 \in 0..N
      PROVE  n \in 0..N /\ R[n + 1] = Grown(R[n]) /\ R[n] \subseteq R[n + 1]
             /\ R[n] \in SUBSET Devices /\ R[n + 1] \in SUBSET Devices
  <2>1. n \in 0..N /\ n + 1 \in 1..N /\ (n + 1) - 1 = n
    BY <1>1, <1>5
  <2>2. R[n + 1] = Grown(R[n])
    BY <1>2, <2>1
  <2> QED BY <2>1, <2>2, <1>2, <1>3
<1>6. Nat \subseteq Sound
  <2>1. 0 \in Sound
    BY <1>2
  <2>2. ASSUME NEW n \in Nat, n \in Sound PROVE n + 1 \in Sound
    <3> SUFFICES ASSUME n + 1 \in 0..N
                 PROVE  root \in R[n + 1] /\ \A d \in R[n + 1] \ {root} : Joined(d, R[n + 1])
      OBVIOUS
    <3>1. n \in 0..N /\ R[n + 1] = Grown(R[n]) /\ R[n] \subseteq R[n + 1]
      BY <1>5
    <3>2. root \in R[n] /\ \A d \in R[n] \ {root} : Joined(d, R[n])
      BY <3>1, <2>2
    <3>3. \A d \in R[n + 1] \ {root} : Joined(d, R[n])
      BY <3>1, <3>2, <1>3
    <3> QED BY <3>1, <3>2, <3>3 DEF Joined
  <2> HIDE DEF Sound
  <2> QED BY <2>1, <2>2, Rounds
<1>7. Nat \subseteq Big
  <2>1. 0 \in Big
    <3>1. Cardinality(R[0]) = 1
      BY <1>2, FS_Singleton
    <3> QED BY <3>1
  <2>2. ASSUME NEW n \in Nat, n \in Big PROVE n + 1 \in Big
    <3> SUFFICES ASSUME n + 1 \in 0..N, Grown(R[n + 1]) # R[n + 1]
                 PROVE  Cardinality(R[n + 1]) >= n + 2
      OBVIOUS
    <3>1. n \in 0..N /\ R[n + 1] = Grown(R[n]) /\ R[n] \subseteq R[n + 1]
          /\ R[n] \in SUBSET Devices /\ R[n + 1] \in SUBSET Devices
      BY <1>5
    <3>2. R[n] # R[n + 1]
      BY <3>1
    <3>3. Cardinality(R[n]) >= n + 1
      BY <3>1, <3>2, <2>2
    <3>4. IsFiniteSet(R[n + 1])
      BY <3>1, <1>1, FS_Subset
    <3>5. /\ Cardinality(R[n]) <= Cardinality(R[n + 1])
          /\ Cardinality(R[n]) # Cardinality(R[n + 1])
      BY <3>1, <3>2, <3>4, FS_Subset
    <3>6. IsFiniteSet(R[n]) /\ Cardinality(R[n]) \in Nat /\ Cardinality(R[n + 1]) \in Nat
      BY <3>1, <3>4, <1>1, FS_Subset, FS_CardinalityType
    <3> QED BY <3>3, <3>5, <3>6
  <2> HIDE DEF Big
  <2> QED BY <2>1, <2>2, Rounds
<1>8. N \in 0..N /\ R[N] \in SUBSET Devices
  BY <1>1, <1>2
<1>9. Grown(R[N]) = R[N]
  <2>1. Grown(R[N]) = R[N] \/ Cardinality(R[N]) >= N + 1
    BY <1>7, <1>8, <1>1
  <2>2. Cardinality(R[N]) <= N /\ Cardinality(R[N]) \in Nat
    BY <1>8, <1>1, FS_Subset, FS_CardinalityType DEF N
  <2> QED BY <2>1, <2>2, <1>1
<1>10. root \in R[N] /\ \A d \in R[N] \ {root} : Joined(d, R[N])
  BY <1>6, <1>8, <1>1
<1>11. Downstream(root, visited) \cup {root} = R[N]
  BY <1>4, <1>10
<1>12. \A d \in Devices : Joined(d, R[N]) => d \in R[N]
  BY <1>9, <1>3
<1> QED BY <1>4, <1>8, <1>10, <1>11, <1>12 DEF Joined

-----------------------------------------------------------------------------
(* The walk over the roots.                                                *)

\* Alert ids of different kinds or devices differ, and none is NULL.
LEMMA AlertsAreDistinct ==
    /\ \A d, e \in Devices : DownAlert(d) = DownAlert(e) => d = e
    /\ \A d \in Devices : DownAlert(d) \in Alerts /\ DownAlert(d) # NoAlert
                          /\ DownAlert(d) # CollectorAlert
    /\ \A p \in Ports : PortAlert(p) \in Alerts /\ PortAlert(p) # NoAlert
                        /\ PortAlert(p) # CollectorAlert
                        /\ \A d \in Devices : PortAlert(p) # DownAlert(d)
    /\ CollectorAlert # NoAlert
BY NullsAssumption DEF Alerts, DownAlert, PortAlert, CollectorAlert

\* The walk's state: the devices accounted for, and the map so far.
Accounts == [visited : SUBSET Devices, map : Maps]

LEMMA AttributeIsMap ==
    ASSUME NEW m \in Maps, NEW devs, NEW parent \in Alerts
    PROVE  Attribute(m, devs, parent) \in Maps
BY DEF Maps, Attribute

\* One step of the walk: idle if every failure is accounted for, else an earliest root
\* takes down what is downstream of it.
LEMMA AccountForStep ==
    ASSUME TypeOK, FailuresOrdered, NEW order \in Orders, NEW w \in Accounts
    PROVE  /\ AccountFor(w, order) \in Accounts
           /\ Down \subseteq w.visited => AccountFor(w, order) = w
           /\ ~(Down \subseteq w.visited) =>
                \E root \in Down \ w.visited :
                   /\ older[root] \cap (Down \ w.visited) = {}
                   /\ AccountFor(w, order).visited
                        = w.visited \cup Downstream(root, w.visited) \cup {root}
                   /\ AccountFor(w, order).map
                        = Attribute(w.map, Downstream(root, w.visited), DownAlert(root))
<1> DEFINE waiting == Down \ w.visited
           root == Earliest(waiting, order)
           taken == Downstream(root, w.visited)
           after == [visited |-> w.visited \cup taken \cup {root},
                     map |-> Attribute(w.map, taken, DownAlert(root))]
<1>1. CASE waiting = {}
  <2>1. AccountFor(w, order) = w
    BY <1>1 DEF AccountFor
  <2> QED BY <1>1, <2>1
<1>2. CASE waiting # {}
  <2>1. AccountFor(w, order) = after
    BY <1>2 DEF AccountFor
  <2>2. waiting \subseteq Devices
    BY DEF Down
  <2>3. root \in waiting /\ older[root] \cap waiting = {}
    <3> HIDE DEF waiting
    <3> QED BY <1>2, <2>2, EarliestExists
  <2>4. taken \subseteq Devices
    <3>1. root \in Devices
      BY <2>2, <2>3
    <3> HIDE DEF root
    <3> QED BY <3>1, DownstreamIsClosed
  <2>5. after.map \in Maps /\ after.visited \subseteq Devices
    <3>1. root \in Devices /\ DownAlert(root) \in Alerts
      BY <2>2, <2>3, AlertsAreDistinct
    <3> HIDE DEF root, taken
    <3> QED BY <3>1, <2>4, AttributeIsMap DEF Accounts
  <2>6. after \in Accounts
    <3> HIDE DEF root, taken
    <3> QED BY <2>5 DEF Accounts
  <2> HIDE DEF root
  <2>7. after.visited = w.visited \cup taken \cup {root}
        /\ after.map = Attribute(w.map, taken, DownAlert(root))
    OBVIOUS
  <2> QED BY <1>2, <2>1, <2>3, <2>6, <2>7
<1> QED BY <1>1, <1>2

Known(m) == {d \in Devices : m.down[d] # NoAlert}

\* The rounds of the walk are defined, and each is one step from the one before.
LEMMA WalkRounds ==
    ASSUME TypeOK, FailuresOrdered, NEW order \in Orders, NEW m \in Maps
    PROVE  LET N == Cardinality(Devices)
               W == Walk(m, order) IN
           /\ W \in [0..N -> Accounts]
           /\ W[0] = [visited |-> Known(m), map |-> m]
           /\ \A n \in 1..N : W[n] = AccountFor(W[n - 1], order)
<1> DEFINE N == Cardinality(Devices)
           f == [w \in Accounts |-> AccountFor(w, order)]
           x == [visited |-> Known(m), map |-> m]
<1>n. N \in Nat
  BY SizeType
<1>1. f \in [Accounts -> Accounts]
  BY AccountForStep
<1>2. x \in Accounts
  BY DEF Accounts, Known
<1> HIDE DEF N
<1>3. PICK g : Iterates(g, N, Accounts, x, f)
  <2> HIDE DEF f, x
  <2> QED BY <1>n, <1>1, <1>2, Iteration
<1>4. /\ g \in [0..N -> Accounts]
      /\ g[0] = x
      /\ \A n \in 1..N : g[n] = AccountFor(g[n - 1], order)
  <2>1. \A n \in 1..N : g[n - 1] \in Accounts /\ g[n] = f[g[n - 1]]
    <3> HIDE DEF f, x
    <3> QED BY <1>n, <1>3 DEF Iterates
  <2> HIDE DEF x
  <2> QED BY <1>3, <2>1 DEF Iterates
<1> HIDE DEF f
<1>5. g = [n \in 0..N |-> IF n = 0 THEN x ELSE AccountFor(g[n - 1], order)]
  <2>1. \A n \in 0..N : g[n] = IF n = 0 THEN x ELSE AccountFor(g[n - 1], order)
    <3> HIDE DEF x
    <3> QED BY <1>4, <1>n
  <2> HIDE DEF x
  <2> QED BY <2>1, <1>4
<1> DEFINE W == Walk(m, order)
<1>6. W = [n \in 0..N |-> IF n = 0 THEN x ELSE AccountFor(W[n - 1], order)]
  BY <1>5 DEF Walk, N, Known
<1> HIDE DEF W
<1>7. W[0] = x /\ \A n \in 1..N : W[n] = AccountFor(W[n - 1], order)
  <2>1. 0 \in 0..N /\ \A n \in 1..N : n \in 0..N /\ n # 0
    BY <1>n
  <2> HIDE DEF x
  <2> QED BY <1>6, <2>1
<1> DEFINE Typed == {n \in Nat : n \in 0..N => W[n] \in Accounts}
<1>8. 0 \in Typed
  <2> HIDE DEF x
  <2> QED BY <1>7, <1>2
<1>9. ASSUME NEW n \in Nat, n \in Typed PROVE n + 1 \in Typed
  <2> SUFFICES ASSUME n + 1 \in 0..N PROVE W[n + 1] \in Accounts
    OBVIOUS
  <2>1. n \in 0..N /\ n + 1 \in 1..N /\ (n + 1) - 1 = n
    BY <1>n
  <2>2. W[n + 1] = AccountFor(W[n], order)
    BY <2>1, <1>7
  <2> QED BY <2>1, <2>2, <1>9, AccountForStep
<1>10. Nat \subseteq Typed
  <2> HIDE DEF Typed
  <2> QED BY <1>8, <1>9, Rounds
<1>11. W \in [0..N -> Accounts]
  <2>1. \A n \in 0..N : W[n] \in Accounts
    BY <1>10, <1>n
  <2>2. DOMAIN W = 0..N /\ W = [n \in DOMAIN W |-> W[n]]
    BY <1>6
  <2> HIDE DEF Typed
  <2> QED BY <2>1, <2>2
<1> QED BY <1>7, <1>11 DEF N, W

-----------------------------------------------------------------------------
(* What every step of the walk keeps.                                      *)

\* What rules 0 and 1 leave: nothing but the collector explains a device_down.
Collected(m) == \A d \in Devices : m.down[d] \in {NoAlert, CollectorAlert}

\* The walk changes no entry that was known and writes none for a device it has not
\* accounted for; what it blames is grounded; a linked set of cut-off devices is
\* untouched, or accounted for with at most one left unblamed.
KeepsKnown(w, m) ==
    /\ Known(m) \subseteq w.visited
    /\ \A d \in Known(m) : w.map.down[d] = m.down[d]
    /\ \A d \in Devices \ w.visited : w.map.down[d] = NoAlert

BlamesGroundedly(w) ==
    \A r \in Devices : \A d \in FailureOf(r, w.map) :
        /\ d \in Down \ older[r]
        /\ Neighbours(d) \subseteq Down
        /\ Neighbours(d) \cap (FailureOf(r, w.map) \cup {r}) # {}
        /\ r \in Down \cap w.visited
        /\ w.map.down[r] = NoAlert

KeepsIslands(w, m) ==
    \A C \in SUBSET {d \in Down : Neighbours(d) \subseteq Down} :
        Linked(C) /\ C \cap Known(m) = {} =>
            \/ C \cap w.visited = {}
            \/ C \subseteq w.visited /\ AllButOneBlamed(C, w.map)

AccountsWell(w, m) == KeepsKnown(w, m) /\ BlamesGroundedly(w) /\ KeepsIslands(w, m)

Progress(w, n) == Down \subseteq w.visited \/ Cardinality(w.visited \cap Down) >= n

\* The facts of a turn of the walk that is not idle.
RootTakes(w, after, root, taken) ==
    /\ root \in Down \ w.visited
    /\ older[root] \cap (Down \ w.visited) = {}
    /\ taken \subseteq Devices \ ({root} \cup w.visited)
    /\ \A d \in taken : CutOff(d, root, w.visited) /\ Neighbours(d) \cap (taken \cup {root}) # {}
    /\ \A d \in Devices : CutOff(d, root, w.visited) /\ Neighbours(d) \cap (taken \cup {root}) # {}
                            => d \in taken \cup {root}
    /\ after.visited = w.visited \cup taken \cup {root}
    /\ \A d \in Devices : after.map.down[d] = IF d \in taken THEN DownAlert(root)
                                                               ELSE w.map.down[d]

\* A step of the walk that is not idle is of this form.
LEMMA RootExists ==
    ASSUME TypeOK, FailuresOrdered, NEW order \in Orders, NEW w \in Accounts,
           ~(Down \subseteq w.visited)
    PROVE  \E root, taken : RootTakes(w, AccountFor(w, order), root, taken)
<1>1. PICK root \in Down \ w.visited :
        /\ older[root] \cap (Down \ w.visited) = {}
        /\ AccountFor(w, order).visited
             = w.visited \cup Downstream(root, w.visited) \cup {root}
        /\ AccountFor(w, order).map
             = Attribute(w.map, Downstream(root, w.visited), DownAlert(root))
  BY AccountForStep
<1> DEFINE taken == Downstream(root, w.visited)
           after == AccountFor(w, order)
<1>2. root \in Devices
  BY DEF Down
<1>3. /\ taken \subseteq Devices \ {root}
      /\ \A d \in taken : CutOff(d, root, w.visited) /\ Neighbours(d) \cap (taken \cup {root}) # {}
      /\ \A d \in Devices :
            CutOff(d, root, w.visited) /\ Neighbours(d) \cap (taken \cup {root}) # {}
                              => d \in taken \cup {root}
  BY <1>2, DownstreamIsClosed
<1> HIDE DEF taken, after
<1>4. taken \cap w.visited = {}
  BY <1>3 DEF CutOff
<1>5. \A d \in Devices : after.map.down[d] = IF d \in taken THEN DownAlert(root)
                                                             ELSE w.map.down[d]
  BY <1>1 DEF Attribute, taken, after
<1>6. after.visited = w.visited \cup taken \cup {root}
  BY <1>1 DEF taken, after
<1> QED BY <1>1, <1>3, <1>4, <1>5, <1>6 DEF RootTakes, after

\* Such a step leaves known entries alone.
LEMMA RootKeepsKnown ==
    ASSUME NEW w, NEW after, NEW root, NEW taken, NEW m,
           RootTakes(w, after, root, taken), KeepsKnown(w, m)
    PROVE  KeepsKnown(after, m)
BY DEF RootTakes, KeepsKnown, Known

\* It adds the root's blame, and only that.
LEMMA RootBlames ==
    ASSUME NEW w, NEW after, NEW root, NEW taken, NEW m,
           RootTakes(w, after, root, taken), KeepsKnown(w, m), BlamesGroundedly(w)
    PROVE  /\ FailureOf(root, after.map) = taken
           /\ \A r \in Devices \ {root} : FailureOf(r, after.map) = FailureOf(r, w.map)
<1>1. root \in Devices /\ root \notin w.visited
  BY DEF RootTakes, Down
<1>2. FailureOf(root, w.map) = {}
  BY <1>1 DEF BlamesGroundedly
<1>3. \A d \in Devices : after.map.down[d] = IF d \in taken THEN DownAlert(root)
                                                             ELSE w.map.down[d]
  BY DEF RootTakes
<1>4. taken \subseteq Devices \ w.visited
  BY DEF RootTakes
<1>5. FailureOf(root, after.map) = taken
  BY <1>1, <1>2, <1>3, <1>4, AlertsAreDistinct DEF FailureOf
<1>6. ASSUME NEW r \in Devices \ {root} PROVE FailureOf(r, after.map) = FailureOf(r, w.map)
  <2>1. DownAlert(r) # DownAlert(root) /\ DownAlert(r) # NoAlert
    BY <1>1, AlertsAreDistinct
  <2>2. \A d \in taken : w.map.down[d] = NoAlert
    BY <1>4 DEF KeepsKnown
  <2> QED BY <2>1, <2>2, <1>3, <1>4 DEF FailureOf
<1> QED BY <1>5, <1>6

\* Its blame is grounded, and so is still what was blamed before.
LEMMA RootBlamesGroundedly ==
    ASSUME NEW w, NEW after, NEW root, NEW taken, NEW m,
           RootTakes(w, after, root, taken), KeepsKnown(w, m), BlamesGroundedly(w)
    PROVE  BlamesGroundedly(after)
<1> SUFFICES ASSUME NEW r \in Devices, NEW d \in FailureOf(r, after.map)
             PROVE  /\ d \in Down \ older[r]
                    /\ Neighbours(d) \subseteq Down
                    /\ Neighbours(d) \cap (FailureOf(r, after.map) \cup {r}) # {}
                    /\ r \in Down \cap after.visited
                    /\ after.map.down[r] = NoAlert
  BY DEF BlamesGroundedly
<1>1. root \in Devices /\ root \in Down \ w.visited /\ root \notin taken
  BY DEF RootTakes, Down
<1>2. \A e \in Devices \ taken : after.map.down[e] = w.map.down[e]
  BY DEF RootTakes
<1>3. CASE r = root
  <2>1. FailureOf(r, after.map) = taken
    BY <1>3, RootBlames
  <2>2. CutOff(d, root, w.visited) /\ Neighbours(d) \cap (taken \cup {root}) # {}
    BY <2>1 DEF RootTakes
  <2>3. after.map.down[root] = NoAlert
    BY <1>1, <1>2 DEF KeepsKnown
  <2>4. root \in after.visited
    BY DEF RootTakes
  <2> QED BY <1>1, <1>3, <2>1, <2>2, <2>3, <2>4 DEF CutOff
<1>4. CASE r # root
  <2>1. FailureOf(r, after.map) = FailureOf(r, w.map)
    BY <1>4, RootBlames
  <2>2. /\ d \in Down \ older[r]
        /\ Neighbours(d) \subseteq Down
        /\ Neighbours(d) \cap (FailureOf(r, w.map) \cup {r}) # {}
        /\ r \in Down \cap w.visited
        /\ w.map.down[r] = NoAlert
    BY <2>1 DEF BlamesGroundedly
  <2>3. r \in after.visited /\ r \notin taken
    BY <2>2 DEF RootTakes
  <2> QED BY <2>1, <2>2, <2>3, <1>2
<1> QED BY <1>3, <1>4

\* A linked set it touches, it takes whole: a member left over would be linked to a
\* member taken, no earlier than the root, and so be taken as well.
LEMMA RootKeepsIslands ==
    ASSUME NEW w, NEW after, NEW root, NEW taken, NEW m,
           RootTakes(w, after, root, taken), KeepsKnown(w, m), BlamesGroundedly(w),
           KeepsIslands(w, m)
    PROVE  KeepsIslands(after, m)
<1> SUFFICES ASSUME NEW C \in SUBSET {d \in Down : Neighbours(d) \subseteq Down},
                    Linked(C), C \cap Known(m) = {}
             PROVE  \/ C \cap after.visited = {}
                    \/ C \subseteq after.visited /\ AllButOneBlamed(C, after.map)
  BY DEF KeepsIslands
<1> DEFINE with == taken \cup {root}
<1>1. /\ root \in Devices
      /\ root \in Down \ w.visited
      /\ after.visited = w.visited \cup with
      /\ C \subseteq Devices
  BY DEF RootTakes, Down
<1>2. CASE C \subseteq w.visited /\ AllButOneBlamed(C, w.map)
  <2>1. \A r \in Devices : FailureOf(r, w.map) \subseteq FailureOf(r, after.map)
    <3>1. FailureOf(root, w.map) = {}
      BY <1>1 DEF BlamesGroundedly
    <3> QED BY <3>1, RootBlames
  <2> QED BY <1>1, <1>2, <2>1 DEF AllButOneBlamed
<1>3. CASE C \cap w.visited = {}
  <2>1. CASE C \cap with = {}
    BY <1>1, <1>3, <2>1
  <2>2. CASE C \cap with # {}
    <3>1. ASSUME NEW e \in C \ with, NEW d \in C \cap with, {d, e} \in Links PROVE FALSE
      <4>1. e \in Down \ (w.visited \cup {root}) /\ Neighbours(e) \subseteq Down
        BY <1>3
      <4>2. e \notin older[root]
        BY <4>1 DEF RootTakes
      <4>3. CutOff(e, root, w.visited)
        BY <4>1, <4>2 DEF CutOff
      <4>4. d \in Neighbours(e)
        <5>1. {e, d} = {d, e}
          OBVIOUS
        <5> QED BY <5>1, <3>1, <1>1 DEF Neighbours
      <4>5. e \in with
        BY <4>3, <4>4, <1>1 DEF RootTakes
      <4> QED BY <4>5
    <3>2. C \subseteq with
      <4> SUFFICES ASSUME C \cap with # C PROVE FALSE
        OBVIOUS
      <4>1. C \cap with \in (SUBSET C) \ {{}, C}
        BY <2>2
      <4>2. PICK d \in C \cap with, e \in C \ (C \cap with) : {d, e} \in Links
        BY <4>1 DEF Linked
      <4> QED BY <4>2, <3>1
    <3>3. FailureOf(root, after.map) = taken
      BY RootBlames
    <3>4. AllButOneBlamed(C, after.map)
      BY <1>1, <3>2, <3>3 DEF AllButOneBlamed
    <3> QED BY <1>1, <3>2, <3>4
  <2> QED BY <2>1, <2>2
<1> QED BY <1>2, <1>3 DEF KeepsIslands

\* Each such step accounts for one failure more.
LEMMA RootProgresses ==
    ASSUME NEW w \in Accounts, NEW after, NEW root, NEW taken, NEW n \in Nat,
           RootTakes(w, after, root, taken), Progress(w, n), after.visited \subseteq Devices
    PROVE  Progress(after, n + 1)
<1> DEFINE before == w.visited \cap Down
           now == after.visited \cap Down
<1>1. root \in now /\ root \notin before /\ before \subseteq now
  BY DEF RootTakes
<1>2. IsFiniteSet(now) /\ IsFiniteSet(before) /\ Cardinality(now) \in Nat
      /\ Cardinality(before) \in Nat
  <2>1. now \subseteq Devices /\ before \subseteq Devices
    BY DEF Down
  <2> HIDE DEF now, before
  <2> QED BY <2>1, NetworkAssumption, FS_Subset, FS_CardinalityType
<1>3. Cardinality(before) <= Cardinality(now) /\ Cardinality(before) # Cardinality(now)
  BY <1>1, <1>2, FS_Subset
<1>4. Cardinality(before) >= n
  BY <1>1 DEF Progress, RootTakes
<1> HIDE DEF before
<1>5. Cardinality(now) >= n + 1
  <2> HIDE DEF now
  <2> QED BY <1>2, <1>3, <1>4
<1> QED BY <1>5 DEF Progress

\* When the walk ends every failed device is accounted for, and well.
LEMMA WalkAccountsForAll ==
    ASSUME TypeOK, FailuresOrdered, NEW order \in Orders, NEW m \in Maps, Collected(m)
    PROVE  LET w == Walk(m, order)[Cardinality(Devices)] IN
           w \in Accounts /\ AccountsWell(w, m) /\ Down \subseteq w.visited
<1> DEFINE N == Cardinality(Devices)
           W == Walk(m, order)
           Good == {n \in Nat : n \in 0..N => AccountsWell(W[n], m) /\ Progress(W[n], n)}
<1>1. N \in Nat /\ IsFiniteSet(Devices)
  BY SizeType, NetworkAssumption
<1>2. /\ W \in [0..N -> Accounts]
      /\ W[0] = [visited |-> Known(m), map |-> m]
      /\ \A n \in 1..N : W[n] = AccountFor(W[n - 1], order)
  BY WalkRounds
<1> HIDE DEF N, W
<1>3. 0 \in Good
  <2>1. W[0].visited = Known(m) /\ W[0].map = m
    BY <1>2
  <2>2. KeepsKnown(W[0], m)
    BY <2>1 DEF KeepsKnown, Known
  <2>3. BlamesGroundedly(W[0])
    <3>1. ASSUME NEW r \in Devices PROVE FailureOf(r, m) = {}
      BY AlertsAreDistinct DEF Collected, FailureOf
    <3> QED BY <2>1, <3>1 DEF BlamesGroundedly
  <2>4. KeepsIslands(W[0], m)
    BY <2>1 DEF KeepsIslands
  <2>5. Progress(W[0], 0)
    <3>1. W[0].visited \cap Down \subseteq Devices
      BY DEF Down
    <3>2. Cardinality(W[0].visited \cap Down) \in Nat
      BY <3>1, <1>1, FS_Subset, FS_CardinalityType
    <3> QED BY <3>2 DEF Progress
  <2> QED BY <2>2, <2>3, <2>4, <2>5 DEF AccountsWell
<1>4. ASSUME NEW n \in Nat, n \in Good PROVE n + 1 \in Good
  <2> SUFFICES ASSUME n + 1 \in 0..N
               PROVE  AccountsWell(W[n + 1], m) /\ Progress(W[n + 1], n + 1)
    OBVIOUS
  <2>1. n \in 0..N /\ n + 1 \in 1..N /\ (n + 1) - 1 = n
    BY <1>1
  <2>2. W[n] \in Accounts /\ W[n + 1] \in Accounts /\ W[n + 1] = AccountFor(W[n], order)
    BY <2>1, <1>2
  <2>3. AccountsWell(W[n], m) /\ Progress(W[n], n)
    BY <2>1, <1>4
  <2>4. CASE Down \subseteq W[n].visited
    <3>1. W[n + 1] = W[n]
      BY <2>2, <2>4, AccountForStep
    <3> QED BY <3>1, <2>3, <2>4 DEF Progress
  <2>5. CASE ~(Down \subseteq W[n].visited)
    <3>1. PICK root, taken : RootTakes(W[n], W[n + 1], root, taken)
      BY <2>2, <2>5, RootExists
    <3>2. KeepsKnown(W[n], m) /\ BlamesGroundedly(W[n]) /\ KeepsIslands(W[n], m)
      BY <2>3 DEF AccountsWell
    <3>3. KeepsKnown(W[n + 1], m)
      BY <3>1, <3>2, RootKeepsKnown
    <3>4. BlamesGroundedly(W[n + 1])
      BY <3>1, <3>2, RootBlamesGroundedly
    <3>5. KeepsIslands(W[n + 1], m)
      BY <3>1, <3>2, RootKeepsIslands
    <3>6. Progress(W[n + 1], n + 1)
      <4>1. W[n + 1].visited \subseteq Devices
        BY <2>2 DEF Accounts
      <4> QED BY <4>1, <2>2, <2>3, <3>1, RootProgresses
    <3> QED BY <3>3, <3>4, <3>5, <3>6 DEF AccountsWell
  <2> QED BY <2>4, <2>5
<1>5. Nat \subseteq Good
  <2> HIDE DEF Good
  <2> QED BY <1>3, <1>4, Rounds
<1>6. N \in 0..N /\ W[N] \in Accounts
  BY <1>1, <1>2
<1>7. AccountsWell(W[N], m) /\ Progress(W[N], N)
  BY <1>1, <1>5, <1>6
<1>8. Down \subseteq W[N].visited
  <2>1. CASE Cardinality(W[N].visited \cap Down) >= N
    <3> DEFINE done == W[N].visited \cap Down
    <3>1. done \in SUBSET Devices
      BY DEF Down
    <3>2. Cardinality(done) <= N /\ Cardinality(done) \in Nat
          /\ (Cardinality(done) = N => done = Devices)
      <4> HIDE DEF done
      <4> QED BY <3>1, <1>1, FS_Subset, FS_CardinalityType DEF N
    <3>3. done = Devices
      <4> HIDE DEF done
      <4>1. Cardinality(done) >= N
        BY <2>1 DEF done
      <4> QED BY <3>2, <4>1, <1>1
    <3> QED BY <3>3 DEF Down
  <2> QED BY <1>7, <2>1 DEF Progress
<1> QED BY <1>6, <1>7, <1>8 DEF N, W

-----------------------------------------------------------------------------
(* The rules together.                                                     *)

\* Rules 0 and 1: the collector explains all its devices, and nothing else is explained.
LEMMA EarlierRules ==
    LET m == OwnDeviceRule(CollectorRule) IN
    /\ m \in Maps
    /\ Collected(m)
    /\ IsLive(CollectorAlert) => \A d \in Members : m.down[d] = CollectorAlert
<1>1. EmptyMap \in Maps /\ \A d \in Devices : EmptyMap.down[d] = NoAlert
  BY DEF EmptyMap, Maps
<1>2. CollectorRule \in Maps
  <2>1. CASE IsLive(CollectorAlert)
    <3>1. CollectorAlert \in Alerts
      BY <2>1 DEF IsLive
    <3> QED BY <2>1, <3>1, <1>1, AttributeIsMap DEF CollectorRule
  <2> QED BY <1>1, <2>1 DEF CollectorRule
<1>3. Collected(CollectorRule)
      /\ (IsLive(CollectorAlert) => \A d \in Members : CollectorRule.down[d] = CollectorAlert)
  BY <1>1, NetworkAssumption DEF CollectorRule, Attribute, Collected
<1>4. ASSUME NEW m \in Maps
      PROVE  OwnDeviceRule(m) \in Maps /\ OwnDeviceRule(m).down = m.down
  BY AlertsAreDistinct DEF OwnDeviceRule, Maps
<1> QED BY <1>2, <1>3, <1>4 DEF Collected

\* Rule 3 only explains what no earlier rule did, and by a port's alert.
LEMMA UplinkRuleAdds ==
    ASSUME NEW m \in Maps
    PROVE  /\ UplinkRule(m) \in Maps
           /\ \A d \in Devices : \/ UplinkRule(m).down[d] = m.down[d]
                                 \/ m.down[d] = NoAlert
                                    /\ \E p \in Ports : UplinkRule(m).down[d] = PortAlert(p)
<1> DEFINE evidence == {p \in Ports :
              \/ IsSurfaced(PortAlert(p))
              \/ /\ IsLive(PortAlert(p))
                 /\ m.other[p[1]] # NoAlert
                 /\ rows[PortAlert(p)].parent = m.other[p[1]]}
           Uplinks(d) == {p \in evidence : d \in RemoteDevice(p)}
           cause(d) == IF m.down[d] # NoAlert \/ Uplinks(d) = {} THEN m.down[d]
                       ELSE PortAlert(CHOOSE p \in Uplinks(d) : TRUE)
<1>1. ASSUME NEW d \in Devices
      PROVE  \/ cause(d) = m.down[d]
             \/ m.down[d] = NoAlert /\ \E p \in Ports : cause(d) = PortAlert(p)
  <2> HIDE DEF evidence
  <2>1. evidence \subseteq Ports
    BY DEF evidence
  <2>2. ASSUME Uplinks(d) # {} PROVE (CHOOSE p \in Uplinks(d) : TRUE) \in Ports
    BY <2>1, <2>2
  <2> HIDE DEF Uplinks
  <2> QED BY <2>2
<1>2. UplinkRule(m).down = [d \in Devices |-> cause(d)]
  BY DEF UplinkRule
<1>3. UplinkRule(m) = [down |-> UplinkRule(m).down, other |-> [d \in Devices |->
          IF m.other[d] = NoAlert /\ m.down[d] = NoAlert THEN cause(d) ELSE m.other[d]]]
  BY DEF UplinkRule
<1> HIDE DEF cause
<1>4. \A d \in Devices : cause(d) \in Alerts \cup {NoAlert}
                         /\ m.down[d] \in Alerts \cup {NoAlert}
                         /\ m.other[d] \in Alerts \cup {NoAlert}
  BY <1>1, AlertsAreDistinct DEF Maps
<1>5. UplinkRule(m) \in Maps
  BY <1>2, <1>3, <1>4 DEF Maps
<1> QED BY <1>1, <1>2, <1>5

\* The map of a cycle, from any state in which failures are ordered.
LEMMA MapIsGrounded ==
    ASSUME TypeOK, FailuresOrdered, NEW order \in Orders
    PROVE  LET m == SuppressionMap(order) IN
           /\ m \in Maps
           /\ Grounded(m)
           /\ \A C \in SUBSET CutOffDevices(m) : Linked(C) => AllButOneBlamed(C, m)
<1> DEFINE m0 == OwnDeviceRule(CollectorRule)
           w == Walk(m0, order)[Cardinality(Devices)]
           m == SuppressionMap(order)
<1>1. /\ m0 \in Maps
      /\ Collected(m0)
      /\ IsLive(CollectorAlert) => \A d \in Members : m0.down[d] = CollectorAlert
  BY EarlierRules
<1> HIDE DEF m0
<1>2. w \in Accounts /\ AccountsWell(w, m0) /\ Down \subseteq w.visited
  BY <1>1, WalkAccountsForAll
<1>3. m = UplinkRule(w.map)
  BY DEF SuppressionMap, CascadeRule, m0
<1> HIDE DEF w, m
<1>4. /\ KeepsKnown(w, m0)
      /\ BlamesGroundedly(w)
      /\ KeepsIslands(w, m0)
  BY <1>2 DEF AccountsWell
<1>5. w.map \in Maps
  BY <1>2 DEF Accounts
<1>6. /\ m \in Maps
      /\ \A d \in Devices : \/ m.down[d] = w.map.down[d]
                            \/ w.map.down[d] = NoAlert /\ \E p \in Ports : m.down[d] = PortAlert(p)
  BY <1>3, <1>5, UplinkRuleAdds
<1>7. \A r \in Devices : FailureOf(r, m) = FailureOf(r, w.map)
  BY <1>6, AlertsAreDistinct DEF FailureOf
<1>8. ASSUME IsLive(CollectorAlert), NEW d \in Members PROVE m.down[d] = CollectorAlert
  <2>1. d \in Devices /\ m0.down[d] = CollectorAlert
    BY <1>1, <1>8, NetworkAssumption
  <2>2. CollectorAlert # NoAlert
    BY AlertsAreDistinct
  <2>3. w.map.down[d] = CollectorAlert
    BY <1>4, <2>1, <2>2 DEF KeepsKnown, Known
  <2> QED BY <2>1, <2>2, <2>3, <1>6
<1>9. ASSUME NEW r \in Devices, NEW d \in FailureOf(r, m)
      PROVE  /\ d \in Down \ older[r]
             /\ Neighbours(d) \subseteq Down
             /\ Neighbours(d) \cap (FailureOf(r, m) \cup {r}) # {}
             /\ r \in Down /\ m.down[r] # CollectorAlert
             /\ \A e \in Devices : r \notin FailureOf(e, m)
  <2>1. /\ d \in Down \ older[r]
        /\ Neighbours(d) \subseteq Down
        /\ Neighbours(d) \cap (FailureOf(r, w.map) \cup {r}) # {}
        /\ r \in Down
        /\ w.map.down[r] = NoAlert
    BY <1>7, <1>4 DEF BlamesGroundedly
  <2>2. \A e \in Devices : r \notin FailureOf(e, m)
    BY <2>1, <1>7, AlertsAreDistinct DEF FailureOf
  <2>3. m.down[r] # CollectorAlert
    <3>1. CASE m.down[r] = w.map.down[r]
      BY <3>1, <2>1, AlertsAreDistinct
    <3> QED BY <3>1, <1>6, AlertsAreDistinct
  <2> QED BY <2>1, <2>2, <2>3, <1>7
<1>10. ASSUME NEW C \in SUBSET CutOffDevices(m), Linked(C) PROVE AllButOneBlamed(C, m)
  <2>1. C \subseteq Down /\ \A d \in C : Neighbours(d) \subseteq Down
                                          /\ m.down[d] # CollectorAlert
    BY DEF CutOffDevices
  <2>2. C \cap Known(m0) = {}
    <3> SUFFICES ASSUME NEW d \in C, d \in Known(m0) PROVE FALSE
      OBVIOUS
    <3>1. d \in Devices /\ m0.down[d] = CollectorAlert /\ m0.down[d] # NoAlert
      BY <1>1 DEF Known, Collected
    <3>2. w.map.down[d] = CollectorAlert
      BY <3>1, <1>4 DEF KeepsKnown
    <3>3. m.down[d] = CollectorAlert
      BY <3>1, <3>2, <1>6
    <3> QED BY <3>3, <2>1
  <2>3. \/ C \cap w.visited = {}
        \/ C \subseteq w.visited /\ AllButOneBlamed(C, w.map)
    BY <1>10, <2>1, <2>2, <1>4 DEF KeepsIslands
  <2>4. CASE C \cap w.visited = {}
    <3>1. C = {}
      BY <2>1, <2>4, <1>2
    <3> QED BY <3>1 DEF AllButOneBlamed
  <2>5. CASE AllButOneBlamed(C, w.map)
    BY <2>5, <1>7 DEF AllButOneBlamed
  <2> QED BY <2>3, <2>4, <2>5
<1> QED BY <1>6, <1>8, <1>9, <1>10 DEF Grounded, m

-----------------------------------------------------------------------------
(* The inductive invariant, and what holds of every cycle.                 *)

\* The inductive invariant.
CorrelationInv == TypeOK /\ FailuresOrdered

\* Every alert is about a device.
LEMMA CausesAreDevices ==
    ASSUME NEW k \in Alerts
    PROVE  DeviceOf(k) \in Devices
<1>1. CASE \E d \in Devices : k = DownAlert(d)
  BY <1>1 DEF DownAlert, DeviceOf, MetricOf
<1>2. CASE \E p \in Ports : k = PortAlert(p)
  BY <1>2, NetworkAssumption DEF PortAlert, DeviceOf, MetricOf
<1>3. CASE k = CollectorAlert /\ Members # {}
  BY <1>3, NetworkAssumption DEF CollectorAlert, DeviceOf, MetricOf
<1> QED BY <1>1, <1>2, <1>3 DEF Alerts

\* The alerts of the rule being evaluated, those it creates, and an alert after the
\* fire/suppress stage.
Mine == {k \in Alerts : MetricOf(k) = RuleOrder[turn]}
Created == {k \in Mine : rows[k].status = "none" /\ Breaching(k)}
AfterFiring(k) == IF k \in Mine THEN Fired(k) ELSE rows[k]

\* What a rule does to a row: it resolves the alert, releases it, leaves it under the
\* id of an alert that is gone, or fires it.
LEMMA RuleRowCases ==
    ASSUME TypeOK, NEW stable \in SUBSET clearing, EvaluateRule(stable), NEW k \in Alerts
    PROVE  \/ k \in stable /\ rows'[k] = NoRow
           \/ k \notin stable /\ rows'[k] = Open /\ AfterFiring(k).parent \in stable
           \/ /\ k \notin stable /\ AfterFiring(k).parent \in Created
              /\ rows'[k] = [AfterFiring(k) EXCEPT !.parent = GoneAlert]
           \/ /\ k \notin stable /\ AfterFiring(k).parent \notin stable \cup Created
              /\ rows'[k] = AfterFiring(k)
<1> DEFINE fired == [q \in Alerts |-> AfterFiring(q)]
<1>1. rows'[k] = CASE k \in stable -> NoRow
                   [] k \notin stable /\ fired[k].parent \in stable -> Open
                   [] k \notin stable /\ fired[k].parent \in Created ->
                        [fired[k] EXCEPT !.parent = GoneAlert]
                   [] OTHER -> fired[k]
  BY DEF EvaluateRule, AfterFiring, Mine, Created
<1>2. fired[k] = AfterFiring(k)
  OBVIOUS
<1>3. Created \cap stable = {}
  BY DEF EvaluateRule, Created, IsLive
<1> HIDE DEF fired
<1>4. CASE k \in stable
  <2>1. rows'[k] = NoRow
    BY <1>1, <1>4
  <2> QED BY <1>4, <2>1
<1>5. CASE k \notin stable /\ fired[k].parent \in stable
  <2>1. fired[k].parent \notin Created
    BY <1>3, <1>5
  <2>2. rows'[k] = Open
    BY <1>1, <1>5, <2>1
  <2> QED BY <1>2, <1>5, <2>2
<1>6. CASE k \notin stable /\ fired[k].parent \in Created
  <2>1. fired[k].parent \notin stable
    BY <1>3, <1>6
  <2>2. rows'[k] = [fired[k] EXCEPT !.parent = GoneAlert]
    BY <1>1, <1>6, <2>1
  <2> QED BY <1>2, <1>6, <2>2
<1>7. CASE k \notin stable /\ fired[k].parent \notin stable \cup Created
  <2>1. rows'[k] = fired[k]
    BY <1>1, <1>7
  <2> QED BY <1>2, <1>7, <2>1
<1> QED BY <1>4, <1>5, <1>6, <1>7

\* The fire/suppress stage takes a parent from the map, and ends no alert.
LEMMA AfterFiringShape ==
    ASSUME TypeOK, NEW k \in Alerts
    PROVE  /\ AfterFiring(k) \in Row
           /\ \/ AfterFiring(k) = rows[k]
              \/ AfterFiring(k) = Open
              \/ /\ AfterFiring(k) = Suppressed(ParentFor(k))
                 /\ ParentFor(k) \in Alerts
                 /\ ParentFor(k) \in {map.down[DeviceOf(k)], map.other[DeviceOf(k)]}
                 /\ MetricOf(k) = "device_down" => ParentFor(k) = map.down[DeviceOf(k)]
                 /\ k \in Mine /\ Breaching(k)
           /\ rows[k].status # "none" \/ k \in Created => AfterFiring(k).status # "none"
           /\ rows[k].status = "none" /\ k \notin Created => AfterFiring(k) = rows[k]
<1> DEFINE p == ParentFor(k)
<1>1. map.down[DeviceOf(k)] \in Alerts \cup {NoAlert}
      /\ map.other[DeviceOf(k)] \in Alerts \cup {NoAlert}
  BY CausesAreDevices DEF TypeOK, Maps
<1>2. p = NoAlert \/ /\ p \in {map.down[DeviceOf(k)], map.other[DeviceOf(k)]}
                     /\ MetricOf(k) = "device_down" => p = map.down[DeviceOf(k)]
  BY DEF ParentFor
<1>3. rows[k] \in Row
  BY DEF TypeOK
<1> HIDE DEF p
<1>4. CASE k \notin Mine
  BY <1>3, <1>4 DEF AfterFiring, Created
<1>5. CASE k \in Mine
  <2>1. AfterFiring(k) = IF ~Breaching(k) \/ (rows[k].status = "suppressed" /\ p # NoAlert)
                         THEN rows[k]
                         ELSE IF p = NoAlert THEN Open ELSE Suppressed(p)
    BY <1>5 DEF AfterFiring, Fired, p
  <2>2. k \in Created <=> rows[k].status = "none" /\ Breaching(k)
    BY <1>5 DEF Created
  <2>3. p # NoAlert => p \in Alerts
    BY <1>1, <1>2
  <2>4. Open \in Row /\ Open.status # "none"
    BY DEF Open, Row
  <2>5. p # NoAlert => Suppressed(p) \in Row /\ Suppressed(p).status # "none"
    BY <2>3 DEF Suppressed, Row
  <2>6. CASE ~Breaching(k) \/ (rows[k].status = "suppressed" /\ p # NoAlert)
    BY <1>3, <2>1, <2>2, <2>6
  <2>7. CASE Breaching(k) /\ ~(rows[k].status = "suppressed" /\ p # NoAlert)
    BY <1>2, <1>5, <2>1, <2>2, <2>3, <2>4, <2>5, <2>7 DEF p
  <2> QED BY <2>6, <2>7
<1> QED BY <1>4, <1>5

\* A rule keeps rows well-formed, and live unless they were stably clear.
LEMMA RuleStepRows ==
    ASSUME TypeOK, NEW stable \in SUBSET clearing, EvaluateRule(stable), NEW k \in Alerts
    PROVE  /\ rows'[k] \in Row
           /\ k \notin stable /\ (rows[k].status # "none" \/ k \in Created)
                => rows'[k].status # "none"
<1> DEFINE f == AfterFiring(k)
<1>1. f \in Row /\ (rows[k].status # "none" \/ k \in Created => f.status # "none")
  BY AfterFiringShape
<1>2. \/ k \in stable /\ rows'[k] = NoRow
      \/ rows'[k] = Open
      \/ rows'[k] = [f EXCEPT !.parent = GoneAlert]
      \/ rows'[k] = f
  BY RuleRowCases
<1> HIDE DEF f
<1>3. CASE k \in stable /\ rows'[k] = NoRow
  BY <1>3 DEF NoRow, Row
<1>4. CASE rows'[k] = Open
  BY <1>4 DEF Open, Row
<1>5. CASE rows'[k] = [f EXCEPT !.parent = GoneAlert]
  BY <1>1, <1>5 DEF Row
<1>6. CASE rows'[k] = f
  BY <1>1, <1>6
<1> QED BY <1>2, <1>3, <1>4, <1>5, <1>6

\* The order after a rule is a strict partial order of the alerts then live.
LEMMA FiredBeforeOrders ==
    ASSUME TypeOK, FailuresOrdered, NEW down \in SUBSET Devices
    PROVE  /\ FiredBefore(down) \in [Devices -> SUBSET Devices]
           /\ \A d \in Devices :
                /\ FiredBefore(down)[d] \subseteq down
                /\ FiredBefore(down)[d] # {} => d \in down
                /\ d \notin FiredBefore(down)[d]
                /\ \A e \in FiredBefore(down)[d] :
                     FiredBefore(down)[e] \subseteq FiredBefore(down)[d]
<1> DEFINE fb == FiredBefore(down)
<1>1. \A d \in Devices, e \in Devices :
        e \in fb[d] <=> /\ e \in down /\ d \in down
                        /\ d \in Down => e \in older[d]
                        /\ d \notin Down => e \in Down
  BY DEF FiredBefore, Down
<1>2. fb \in [Devices -> SUBSET Devices]
      /\ \A d \in Devices : fb[d] \subseteq down /\ (fb[d] # {} => d \in down)
  BY DEF FiredBefore
<1> HIDE DEF fb
<1>3. ASSUME NEW d \in Devices PROVE d \notin fb[d]
  BY <1>1 DEF TypeOK
<1>4. ASSUME NEW d \in Devices, NEW e \in fb[d], NEW g \in fb[e] PROVE g \in fb[d]
  <2>1. d \in Devices /\ e \in Devices /\ g \in Devices
    BY <1>2
  <2>2. /\ e \in down /\ d \in down /\ g \in down
        /\ d \in Down => e \in older[d]
        /\ d \notin Down => e \in Down
        /\ e \in Down => g \in older[e]
        /\ e \notin Down => g \in Down
    BY <2>1, <1>1
  <2>3. e \in Down
    BY <2>1, <2>2 DEF FailuresOrdered
  <2>4. g \in older[e] /\ g \in Down
    BY <2>1, <2>2, <2>3 DEF FailuresOrdered
  <2>5. d \in Down => g \in older[d]
    BY <2>1, <2>2, <2>4 DEF FailuresOrdered
  <2> QED BY <2>1, <2>2, <2>4, <2>5, <1>1
<1> QED BY <1>2, <1>3, <1>4 DEF fb

\* Evaluating a rule keeps the invariant: the order is one of alerts that are live after it.
LEMMA RuleStep ==
    ASSUME CorrelationInv, NEW stable \in SUBSET clearing, EvaluateRule(stable)
    PROVE  CorrelationInv'
<1> DEFINE down == {d \in Devices : /\ DownAlert(d) \notin stable
                                    /\ DownAlert(d) \in Created \/ IsLive(DownAlert(d))}
<1>1. TypeOK /\ FailuresOrdered
  BY DEF CorrelationInv
<1>2. older' = FiredBefore(down)
  BY DEF EvaluateRule, Created, Mine
<1>3. rows' \in [Alerts -> Row]
  <2>1. rows' = [k \in Alerts |-> rows'[k]]
    BY DEF EvaluateRule
  <2> QED BY <1>1, <2>1, RuleStepRows
<1>4. down \subseteq Down'
  BY <1>1, RuleStepRows, AlertsAreDistinct DEF Down, IsLive
<1>5. /\ older' \in [Devices -> SUBSET Devices]
      /\ \A d \in Devices :
           /\ older'[d] \subseteq down
           /\ older'[d] # {} => d \in down
           /\ d \notin older'[d]
           /\ \A e \in older'[d] : older'[e] \subseteq older'[d]
  <2>1. down \in SUBSET Devices
    OBVIOUS
  <2> HIDE DEF down
  <2> QED BY <1>1, <1>2, <2>1, FiredBeforeOrders
<1>6. FailuresOrdered'
  <2> HIDE DEF down
  <2> QED BY <1>4, <1>5 DEF FailuresOrdered
<1>7. turn' \in 0..Len(RuleOrder)
  BY <1>1, NetworkAssumption DEF TypeOK, EvaluateRule
<1>8. map' \in Maps
  BY <1>1 DEF TypeOK, EvaluateRule, EmptyMap, Maps
<1>9. clearing' \subseteq Alerts /\ UNCHANGED network
  BY DEF EvaluateRule
<1> HIDE DEF down
<1>10. TypeOK'
  BY <1>1, <1>3, <1>5, <1>7, <1>8, <1>9 DEF TypeOK, network
<1> QED BY <1>6, <1>10 DEF CorrelationInv

\* So does computing the map,
LEMMA CycleStep ==
    ASSUME CorrelationInv, BeginCycle
    PROVE  CorrelationInv'
<1>1. TypeOK /\ FailuresOrdered
  BY DEF CorrelationInv
<1>2. UNCHANGED <<network, rows, clearing, older>> /\ turn' = 1
  BY DEF BeginCycle
<1>3. map' \in Maps
  <2>1. PICK order \in Orders : map' = SuppressionMap(order)
    BY DEF BeginCycle
  <2> QED BY <1>1, <2>1, MapIsGrounded
<1>4. 1 \in 0..Len(RuleOrder)
  BY NetworkAssumption
<1>5. TypeOK'
  BY <1>1, <1>2, <1>3, <1>4 DEF TypeOK, network
<1>6. FailuresOrdered'
  BY <1>1, <1>2 DEF FailuresOrdered, Down, IsLive
<1> QED BY <1>5, <1>6 DEF CorrelationInv

\* the orphan pass, which ends no alert,
LEMMA OrphanStep ==
    ASSUME CorrelationInv, RecoverOrphans
    PROVE  CorrelationInv'
<1>1. TypeOK /\ FailuresOrdered
  BY DEF CorrelationInv
<1>2. /\ rows' = [k \in Alerts |->
            IF /\ rows[k].status = "suppressed"
               /\ rows[k].parent # NoAlert
               /\ ~IsSurfaced(rows[k].parent)
            THEN Open ELSE rows[k]]
      /\ UNCHANGED <<network, clearing, older, turn, map>>
  BY DEF RecoverOrphans
<1>3. \A k \in Alerts : rows'[k] \in Row /\ (rows'[k].status = "none" <=> rows[k].status = "none")
  BY <1>1, <1>2 DEF TypeOK, Open, Row
<1>4. Down' = Down
  BY <1>3 DEF Down, IsLive
<1>5. TypeOK'
  BY <1>1, <1>2, <1>3 DEF TypeOK, network
<1>6. FailuresOrdered'
  BY <1>1, <1>2, <1>4 DEF FailuresOrdered
<1> QED BY <1>5, <1>6 DEF CorrelationInv

\* and the network.
LEMMA NetworkStep ==
    ASSUME CorrelationInv,
           \/ \E d \in Devices : DeviceFlips(d)
           \/ CollectorFlips
           \/ \E p \in Ports : PortFlips(p)
           \/ UNCHANGED vars
    PROVE  CorrelationInv'
<1>1. TypeOK /\ FailuresOrdered
  BY DEF CorrelationInv
<1>2. UNCHANGED <<rows, clearing, older, turn, map>>
  BY DEF DeviceFlips, CollectorFlips, PortFlips, vars
<1>3. reach' \subseteq Devices /\ collectorUp' \in BOOLEAN /\ operDown' \subseteq Ports
  BY <1>1 DEF TypeOK, DeviceFlips, CollectorFlips, PortFlips, vars, network
<1>4. TypeOK'
  BY <1>1, <1>2, <1>3 DEF TypeOK
<1>5. FailuresOrdered'
  BY <1>1, <1>2 DEF FailuresOrdered, Down, IsLive
<1> QED BY <1>4, <1>5 DEF CorrelationInv

\* The three facts of the invariant.
LEMMA InitCorrelation == Init => CorrelationInv
<1> SUFFICES ASSUME Init PROVE CorrelationInv
  OBVIOUS
<1>1. TypeOK
  BY NetworkAssumption DEF Init, TypeOK, NoRow, Row, EmptyMap, Maps
<1>2. FailuresOrdered
  BY DEF Init, FailuresOrdered
<1> QED BY <1>1, <1>2 DEF CorrelationInv

LEMMA StepCorrelation == CorrelationInv /\ [Next]_vars => CorrelationInv'
<1> SUFFICES ASSUME CorrelationInv, [Next]_vars PROVE CorrelationInv'
  OBVIOUS
<1>1. CASE \/ \E d \in Devices : DeviceFlips(d)
           \/ CollectorFlips
           \/ \E p \in Ports : PortFlips(p)
           \/ UNCHANGED vars
  BY <1>1, NetworkStep
<1>2. CASE BeginCycle
  BY <1>2, CycleStep
<1>3. CASE \E stable \in SUBSET clearing : EvaluateRule(stable)
  BY <1>3, RuleStep
<1>4. CASE RecoverOrphans
  BY <1>4, OrphanStep
<1> QED BY <1>1, <1>2, <1>3, <1>4 DEF Next

LEMMA CorrelationInvariant == Spec => []CorrelationInv
BY InitCorrelation, StepCorrelation, PTL DEF Spec

\* Every variable keeps to its type, for any network and any rules.
THEOREM CorrelationTypeCorrect == Spec => []TypeOK
<1>1. CorrelationInv => TypeOK
  BY DEF CorrelationInv
<1> QED BY <1>1, CorrelationInvariant, PTL

\* Only the start of a cycle computes a map.
LEMMA MapOfACycle ==
    ASSUME CorrelationInv, [Next]_vars, turn = 0, turn' = 1
    PROVE  \E order \in Orders : map' = SuppressionMap(order)
<1>1. CASE \/ \E d \in Devices : DeviceFlips(d)
           \/ CollectorFlips
           \/ \E p \in Ports : PortFlips(p)
           \/ UNCHANGED vars
           \/ RecoverOrphans
  BY <1>1 DEF DeviceFlips, CollectorFlips, PortFlips, vars, RecoverOrphans
<1>2. CASE BeginCycle
  BY <1>2 DEF BeginCycle
<1>3. CASE \E stable \in SUBSET clearing : EvaluateRule(stable)
  BY <1>3 DEF EvaluateRule
<1> QED BY <1>1, <1>2, <1>3 DEF Next

\* Whatever the network and the order of failures, what a cycle blames on a failed
\* device can be its doing, and a dead collector's devices are blamed on it.
THEOREM BlameAlwaysGrounded == Spec => BlameIsGrounded
<1>1. CorrelationInv /\ [Next]_vars => [turn = 0 /\ turn' = 1 => Grounded(map')]_vars
  <2> SUFFICES ASSUME CorrelationInv, [Next]_vars, turn = 0, turn' = 1 PROVE Grounded(map')
    OBVIOUS
  <2> QED BY MapOfACycle, MapIsGrounded DEF CorrelationInv
<1> QED BY <1>1, CorrelationInvariant, PTL DEF Spec, BlameIsGrounded

\* Whatever the network and the order of failures, of linked devices that are cut off
\* the map leaves at most one unexplained: rule 2 needs no more rounds, and no other
\* order of roots, than the code gives it.
THEOREM IslandsSurfaceOnce == Spec => IslandSurfacesOnce
<1>1. CorrelationInv /\ [Next]_vars =>
        [turn = 0 /\ turn' = 1 =>
           \A C \in SUBSET CutOffDevices(map') : Linked(C) => AllButOneBlamed(C, map')]_vars
  <2> SUFFICES ASSUME CorrelationInv, [Next]_vars, turn = 0, turn' = 1
               PROVE  \A C \in SUBSET CutOffDevices(map') :
                         Linked(C) => AllButOneBlamed(C, map')
    OBVIOUS
  <2> QED BY MapOfACycle, MapIsGrounded DEF CorrelationInv
<1> QED BY <1>1, CorrelationInvariant, PTL DEF Spec, IslandSurfacesOnce

-----------------------------------------------------------------------------
(* Ports explain nothing.                                                  *)

\* No port's alert explains anything.
NoPortCauses(m) ==
    \A d \in Devices, p \in Ports : m.down[d] # PortAlert(p) /\ m.other[d] # PortAlert(p)

\* Neither by rules 0 and 1,
LEMMA EarlierRulesBlameNoPorts == NoPortCauses(OwnDeviceRule(CollectorRule))
<1>1. NoPortCauses(CollectorRule)
  BY AlertsAreDistinct DEF NoPortCauses, CollectorRule, Attribute, EmptyMap
<1>2. CollectorRule \in Maps
  <2>1. EmptyMap \in Maps
    BY DEF EmptyMap, Maps
  <2>2. IsLive(CollectorAlert) => CollectorAlert \in Alerts
    BY DEF IsLive
  <2> QED BY <2>1, <2>2, AttributeIsMap DEF CollectorRule
<1>3. ASSUME NEW m \in Maps, NoPortCauses(m) PROVE NoPortCauses(OwnDeviceRule(m))
  BY <1>3, AlertsAreDistinct DEF NoPortCauses, OwnDeviceRule, Maps
<1> QED BY <1>1, <1>2, <1>3

\* nor by rule 2,
LEMMA CascadeBlamesNoPorts ==
    ASSUME TypeOK, FailuresOrdered, NEW order \in Orders, NEW m \in Maps, NoPortCauses(m)
    PROVE  CascadeRule(m, order) \in Maps /\ NoPortCauses(CascadeRule(m, order))
<1> DEFINE N == Cardinality(Devices)
           W == Walk(m, order)
           Clean == {n \in Nat : n \in 0..N => NoPortCauses(W[n].map)}
<1>1. N \in Nat
  BY SizeType
<1>2. /\ W \in [0..N -> Accounts]
      /\ W[0] = [visited |-> Known(m), map |-> m]
      /\ \A n \in 1..N : W[n] = AccountFor(W[n - 1], order)
  BY WalkRounds
<1>c. CascadeRule(m, order) = W[N].map
  BY DEF CascadeRule
<1> HIDE DEF N, W
<1>3. 0 \in Clean
  BY <1>2
<1>4. ASSUME NEW n \in Nat, n \in Clean PROVE n + 1 \in Clean
  <2> SUFFICES ASSUME n + 1 \in 0..N PROVE NoPortCauses(W[n + 1].map)
    OBVIOUS
  <2>1. n \in 0..N /\ n + 1 \in 1..N /\ (n + 1) - 1 = n
    BY <1>1
  <2>2. W[n] \in Accounts /\ W[n + 1] = AccountFor(W[n], order) /\ NoPortCauses(W[n].map)
    BY <2>1, <1>2, <1>4
  <2>3. CASE Down \subseteq W[n].visited
    BY <2>2, <2>3, AccountForStep
  <2>4. CASE ~(Down \subseteq W[n].visited)
    <3>1. PICK root \in Down :
             W[n + 1].map = Attribute(W[n].map, Downstream(root, W[n].visited), DownAlert(root))
      BY <2>2, <2>4, AccountForStep
    <3>2. root \in Devices
      BY DEF Down
    <3> QED BY <2>2, <3>1, <3>2, AlertsAreDistinct DEF NoPortCauses, Attribute
  <2> QED BY <2>3, <2>4
<1>5. Nat \subseteq Clean
  <2> HIDE DEF Clean
  <2> QED BY <1>3, <1>4, Rounds
<1>6. N \in 0..N /\ W[N] \in Accounts
  BY <1>1, <1>2
<1> QED BY <1>1, <1>5, <1>6, <1>c DEF Accounts

\* Rule 3 changes nothing: no text is an address object.
LEMMA UplinkRuleIsIdle ==
    ASSUME NEW m \in Maps, NoPortCauses(m)
    PROVE  NoPortCauses(UplinkRule(m))
<1>1. \A p : RemoteDevice(p) = {}
  BY DEF RemoteDevice, TextIp, InetIp
<1>2. UplinkRule(m).down = [d \in Devices |-> m.down[d]]
  BY <1>1 DEF UplinkRule
<1>3. \A d \in Devices : UplinkRule(m).other[d] \in {m.other[d], m.down[d]}
  BY <1>1 DEF UplinkRule
<1> QED BY <1>2, <1>3 DEF NoPortCauses

\* and so not in the map of a cycle.
LEMMA MapBlamesNoPorts ==
    ASSUME TypeOK, FailuresOrdered, NEW order \in Orders
    PROVE  NoPortCauses(SuppressionMap(order))
<1> DEFINE m0 == OwnDeviceRule(CollectorRule)
<1>1. m0 \in Maps /\ NoPortCauses(m0)
  BY EarlierRules, EarlierRulesBlameNoPorts
<1> HIDE DEF m0
<1>2. CascadeRule(m0, order) \in Maps /\ NoPortCauses(CascadeRule(m0, order))
  BY <1>1, CascadeBlamesNoPorts
<1>3. NoPortCauses(UplinkRule(CascadeRule(m0, order)))
  BY <1>2, UplinkRuleIsIdle
<1> QED BY <1>3 DEF SuppressionMap, m0

-----------------------------------------------------------------------------
(* Blame moves forward when no two failures are simultaneous.              *)

\* Only suppressed alerts have a parent, and it is no port's alert; a device_down with a
\* live parent failed later; and what the map says of device_down alerts is true of the
\* rows until the device_down rule has used it.
RowsTellCauses ==
    /\ \A k \in Alerts : rows[k].status # "suppressed" => rows[k].parent = NoAlert
    /\ \A k \in Alerts, p \in Ports : rows[k].parent # PortAlert(p)

ParentsFailedEarlier ==
    \A d, r \in Devices :
        rows[DownAlert(d)].parent = DownAlert(r) /\ r \in Down => r \in older[d]

MapIsCurrent ==
    turn # 0 /\ (\A i \in 1..(turn - 1) : RuleOrder[i] # "device_down") =>
        \A r \in Devices : \A d \in FailureOf(r, map) :
            d # r /\ d \in Down \ older[r] /\ r \in Down

ForwardInv ==
    CorrelationInv /\ RowsTellCauses /\ NoPortCauses(map) /\ MapIsCurrent /\ ParentsFailedEarlier

\* A rule gives a parent to suppressed alerts only, and takes it from the map.
LEMMA RuleTellsCauses ==
    ASSUME ForwardInv, NEW stable \in SUBSET clearing, EvaluateRule(stable)
    PROVE  RowsTellCauses'
<1>1. TypeOK /\ RowsTellCauses /\ NoPortCauses(map)
  BY DEF ForwardInv, CorrelationInv
<1>2. ASSUME NEW k \in Alerts
      PROVE  /\ rows'[k].status # "suppressed" => rows'[k].parent = NoAlert
             /\ \A p \in Ports : rows'[k].parent # PortAlert(p)
  <2> DEFINE f == AfterFiring(k)
  <2>1. f \in Row /\ (f.status # "suppressed" => f.parent = NoAlert)
        /\ \A p \in Ports : f.parent # PortAlert(p)
    <3>1. \A p \in Ports : ParentFor(k) # PortAlert(p)
      BY <1>1, CausesAreDevices, AlertsAreDistinct DEF NoPortCauses, ParentFor
    <3>2. /\ rows[k].status # "suppressed" => rows[k].parent = NoAlert
          /\ \A p \in Ports : rows[k].parent # PortAlert(p)
      BY <1>1 DEF RowsTellCauses
    <3>3. f \in Row /\ (f = rows[k] \/ f = Open \/ f = Suppressed(ParentFor(k)))
      BY <1>1, AfterFiringShape
    <3> HIDE DEF f
    <3> QED BY <3>1, <3>2, <3>3, AlertsAreDistinct DEF Open, Suppressed
  <2> HIDE DEF f
  <2>2. CASE rows'[k] = NoRow \/ rows'[k] = Open
    BY <2>2, AlertsAreDistinct DEF NoRow, Open
  <2>3. CASE f.parent \in Created /\ rows'[k] = [f EXCEPT !.parent = GoneAlert]
    <3>1. f.status = "suppressed"
      BY <2>1, <2>3, NullsAssumption DEF Created, Mine
    <3>2. rows'[k].status = "suppressed" /\ rows'[k].parent = GoneAlert
      BY <2>1, <2>3, <3>1 DEF Row
    <3> QED BY <3>2, AlertsAreDistinct, NullsAssumption
  <2>4. CASE rows'[k] = f
    BY <2>1, <2>4
  <2> QED BY <1>1, <2>2, <2>3, <2>4, RuleRowCases DEF f
<1> QED BY <1>2 DEF RowsTellCauses

\* A rule of another metric neither starts nor ends a device_down alert.
LEMMA OtherRuleKeepsFailures ==
    ASSUME ForwardInv, NEW stable \in SUBSET clearing, EvaluateRule(stable),
           RuleOrder[turn] # "device_down"
    PROVE  /\ Down' = Down
           /\ older' = older
           /\ \A d \in Devices : rows'[DownAlert(d)].parent
                                   \in {rows[DownAlert(d)].parent, NoAlert, GoneAlert}
<1>1. TypeOK /\ FailuresOrdered
  BY DEF ForwardInv, CorrelationInv
<1>2. ASSUME NEW d \in Devices
      PROVE  /\ DownAlert(d) \in Alerts \ Mine /\ DownAlert(d) \notin stable \cup Created
             /\ AfterFiring(DownAlert(d)) = rows[DownAlert(d)]
  BY AlertsAreDistinct DEF EvaluateRule, Mine, Created, AfterFiring, MetricOf, DownAlert
<1>3. ASSUME NEW d \in Devices
      PROVE  /\ rows'[DownAlert(d)].status = "none" <=> rows[DownAlert(d)].status = "none"
             /\ rows'[DownAlert(d)].parent \in {rows[DownAlert(d)].parent, NoAlert, GoneAlert}
  <2> DEFINE k == DownAlert(d)
  <2>1. rows[k] \in Row /\ AfterFiring(k) = rows[k] /\ k \notin stable /\ k \in Alerts
    BY <1>1, <1>2 DEF TypeOK
  <2>2. rows[k].parent # NoAlert => rows[k].status = "suppressed"
    BY <1>2 DEF ForwardInv, RowsTellCauses
  <2>3. \/ rows'[k] = Open /\ rows[k].parent \in stable
        \/ rows'[k] = [rows[k] EXCEPT !.parent = GoneAlert]
        \/ rows'[k] = rows[k]
    BY <1>1, <2>1, RuleRowCases
  <2>4. NoAlert \notin stable
    BY <1>1, NullsAssumption DEF TypeOK
  <2> HIDE DEF k
  <2>5. CASE rows'[k] = Open /\ rows[k].parent \in stable
    <3>1. rows[k].status = "suppressed" /\ rows'[k].status = "open" /\ rows'[k].parent = NoAlert
      BY <2>2, <2>4, <2>5 DEF Open
    <3> QED BY <3>1 DEF k
  <2>6. CASE rows'[k] = [rows[k] EXCEPT !.parent = GoneAlert]
    <3>1. rows'[k].status = rows[k].status /\ rows'[k].parent = GoneAlert
      BY <2>1, <2>6 DEF Row
    <3> QED BY <3>1 DEF k
  <2> QED BY <2>3, <2>5, <2>6 DEF k
<1>4. Down' = Down
  BY <1>2, <1>3 DEF Down, IsLive
<1>5. older' = older
  <2> DEFINE down == {d \in Devices : /\ DownAlert(d) \notin stable
                                      /\ DownAlert(d) \in Created \/ IsLive(DownAlert(d))}
  <2>1. older' = FiredBefore(down)
    BY DEF EvaluateRule, Created, Mine
  <2>2. down = Down
    BY <1>2 DEF Down
  <2>3. FiredBefore(Down) = [d \in Devices |-> {e \in Down : d \in Down /\ e \in older[d]}]
    BY DEF FiredBefore, Down
  <2>4. older = [d \in Devices |-> {e \in Down : d \in Down /\ e \in older[d]}]
    <3>1. \A d \in Devices : older[d] \subseteq Down /\ (d \notin Down => older[d] = {})
      BY <1>1 DEF FailuresOrdered
    <3> QED BY <1>1, <3>1 DEF TypeOK
  <2> QED BY <2>1, <2>2, <2>3, <2>4
<1> QED BY <1>3, <1>4, <1>5

\* With one rule per metric the map is not used for device_down alerts once these have
\* changed.
LEMMA RuleKeepsMapCurrent ==
    ASSUME OneRuleEach, ForwardInv, NEW stable \in SUBSET clearing, EvaluateRule(stable)
    PROVE  MapIsCurrent'
<1>1. TypeOK
  BY DEF ForwardInv, CorrelationInv
<1>2. turn \in 1..Len(RuleOrder) /\ turn' = IF turn = Len(RuleOrder) THEN 0 ELSE turn + 1
  BY <1>1, NetworkAssumption DEF TypeOK, EvaluateRule
<1>3. CASE turn' = 0
  BY <1>3 DEF MapIsCurrent
<1>4. CASE turn' = turn + 1
  <2>1. turn \in 1..(turn' - 1)
    BY <1>2, <1>4
  <2>2. CASE RuleOrder[turn] = "device_down"
    BY <2>1, <2>2 DEF MapIsCurrent
  <2>3. CASE RuleOrder[turn] # "device_down"
    <3> SUFFICES ASSUME \A i \in 1..(turn' - 1) : RuleOrder[i] # "device_down"
                 PROVE  \A r \in Devices : \A d \in FailureOf(r, map') :
                          d # r /\ d \in Down' \ older'[r] /\ r \in Down'
      BY DEF MapIsCurrent
    <3>1. turn # 0 /\ \A i \in 1..(turn - 1) : RuleOrder[i] # "device_down"
      BY <1>2, <1>4
    <3>2. \A r \in Devices : \A d \in FailureOf(r, map) :
            d # r /\ d \in Down \ older[r] /\ r \in Down
      BY <3>1 DEF ForwardInv, MapIsCurrent
    <3>3. map' = map
      BY <1>2, <1>4 DEF EvaluateRule
    <3>4. Down' = Down /\ older' = older
      BY <2>3, OtherRuleKeepsFailures
    <3> QED BY <3>2, <3>3, <3>4
  <2> QED BY <2>2, <2>3
<1> QED BY <1>2, <1>3, <1>4

\* The device_down rule: an alert it suppresses gets a cause that failed earlier.
LEMMA DeviceRuleLooksBack ==
    ASSUME OneRuleEach, ForwardInv, Untied, NEW stable \in SUBSET clearing,
           EvaluateRule(stable), RuleOrder[turn] = "device_down"
    PROVE  ParentsFailedEarlier'
<1> SUFFICES ASSUME NEW d \in Devices, NEW r \in Devices,
                    rows'[DownAlert(d)].parent = DownAlert(r), r \in Down'
             PROVE  r \in older'[d]
  BY DEF ParentsFailedEarlier
<1> DEFINE k == DownAlert(d)
           q == DownAlert(r)
           down == {e \in Devices : /\ DownAlert(e) \notin stable
                                    /\ DownAlert(e) \in Created \/ IsLive(DownAlert(e))}
<1>1. TypeOK /\ FailuresOrdered /\ RowsTellCauses /\ MapIsCurrent /\ ParentsFailedEarlier
  BY DEF ForwardInv, CorrelationInv
<1>2. k \in Mine /\ q \in Mine /\ k \in Alerts /\ q \in Alerts
  BY AlertsAreDistinct DEF Mine, MetricOf, DownAlert
<1>3. older'[d] = {e \in down : /\ d \in down
                                /\ IF IsLive(k) THEN e \in older[d] ELSE IsLive(DownAlert(e))}
  <2>1. older' = FiredBefore(down)
    BY DEF EvaluateRule, Created, Mine
  <2> QED BY <2>1 DEF FiredBefore
\* Only the last case of a row keeps a cause that is an alert.
<1>4. /\ k \notin stable /\ rows'[k] = AfterFiring(k)
      /\ AfterFiring(k).parent = q /\ q \notin stable \cup Created
  <2>1. q # NoAlert /\ q # GoneAlert
    BY <1>2, NullsAssumption
  <2>2. rows'[k].parent = q
    OBVIOUS
  <2>3. AfterFiring(k) \in Row
    BY <1>1, <1>2, AfterFiringShape
  <2> HIDE DEF k, q
  <2>4. CASE rows'[k] = NoRow \/ rows'[k] = Open
    BY <2>1, <2>2, <2>4 DEF NoRow, Open
  <2>5. CASE rows'[k] = [AfterFiring(k) EXCEPT !.parent = GoneAlert]
    BY <2>1, <2>2, <2>3, <2>5 DEF Row
  <2> QED BY <1>1, <1>2, <2>2, <2>4, <2>5, RuleRowCases
\* The cause was live before this rule, and so was the alert or it is new.
<1>5. r \in Down
  <2>1. rows'[q].status # "none"
    BY DEF Down, IsLive
  <2> SUFFICES ASSUME rows[q].status = "none" PROVE FALSE
    BY <1>2 DEF Down, IsLive
  <2>2. AfterFiring(q) = rows[q]
    BY <1>1, <1>2, <1>4, AfterFiringShape
  <2>3. rows[q].parent = NoAlert
    BY <1>1, <1>2 DEF RowsTellCauses
  <2>4. NoAlert \notin stable \cup Created
    BY <1>1, NullsAssumption DEF TypeOK, Created, Mine
  <2>5. rows'[q] = NoRow \/ rows'[q] = rows[q]
    <3> HIDE DEF q
    <3> QED BY <1>1, <1>2, <2>2, <2>3, <2>4, RuleRowCases
  <2> QED BY <2>1, <2>5 DEF NoRow
<1>6. r \in down
  BY <1>4, <1>5 DEF Down
<1>7. CASE AfterFiring(k) = rows[k]
  <2>1. rows[k].parent = q /\ r \in older[d]
    BY <1>1, <1>4, <1>5, <1>7 DEF ParentsFailedEarlier
  <2>2. d \in Down
    BY <1>1, <2>1 DEF FailuresOrdered
  <2> QED BY <1>3, <1>4, <1>6, <2>1, <2>2 DEF Down
<1>8. CASE AfterFiring(k) # rows[k]
  <2>1. /\ AfterFiring(k) = Suppressed(ParentFor(k))
        /\ ParentFor(k) = map.down[DeviceOf(k)]
    <3>1. \/ AfterFiring(k) = Open
          \/ /\ AfterFiring(k) = Suppressed(ParentFor(k))
             /\ MetricOf(k) = "device_down" => ParentFor(k) = map.down[DeviceOf(k)]
      BY <1>1, <1>2, <1>8, AfterFiringShape
    <3>2. AfterFiring(k) # Open
      BY <1>2, <1>4, NullsAssumption DEF Open
    <3>3. MetricOf(k) = "device_down"
      BY DEF MetricOf, DownAlert
    <3> QED BY <3>1, <3>2, <3>3
  <2>2. map.down[d] = q
    <3>1. DeviceOf(k) = d
      BY DEF DeviceOf, MetricOf, DownAlert
    <3> QED BY <1>4, <2>1, <3>1 DEF Suppressed
  <2>3. turn # 0 /\ \A i \in 1..(turn - 1) : RuleOrder[i] # "device_down"
    <3>1. turn \in 1..Len(RuleOrder)
      <4>1. turn # 0
        BY DEF EvaluateRule
      <4>2. turn \in 0..Len(RuleOrder) /\ Len(RuleOrder) \in Nat
        BY <1>1, NetworkAssumption DEF TypeOK
      <4> QED BY <4>1, <4>2
    <3>2. \A i \in 1..(turn - 1) : i \in DOMAIN RuleOrder /\ turn \in DOMAIN RuleOrder /\ i # turn
      BY <3>1, NetworkAssumption
    <3> QED BY <3>1, <3>2 DEF OneRuleEach
  <2>4. d # r /\ d \in Down \ older[r]
    BY <1>1, <2>2, <2>3 DEF MapIsCurrent, FailureOf
  <2>5. r \in older[d]
    BY <1>5, <2>4 DEF Untied
  <2> QED BY <1>3, <1>4, <1>6, <2>4, <2>5 DEF Down
<1> QED BY <1>7, <1>8

\* No rule puts a device_down alert under a later one.
LEMMA RuleLooksBack ==
    ASSUME OneRuleEach, ForwardInv, Untied, NEW stable \in SUBSET clearing, EvaluateRule(stable)
    PROVE  ParentsFailedEarlier'
<1>1. CASE RuleOrder[turn] = "device_down"
  BY <1>1, DeviceRuleLooksBack
<1>2. CASE RuleOrder[turn] # "device_down"
  <2>1. ParentsFailedEarlier
    BY DEF ForwardInv
  <2>2. /\ Down' = Down /\ older' = older
        /\ \A d \in Devices : rows'[DownAlert(d)].parent
                               \in {rows[DownAlert(d)].parent, NoAlert, GoneAlert}
    BY <1>2, OtherRuleKeepsFailures
  <2>3. \A r \in Devices : DownAlert(r) \notin {NoAlert, GoneAlert}
    BY AlertsAreDistinct, NullsAssumption
  <2> QED BY <2>1, <2>2, <2>3 DEF ParentsFailedEarlier
<1> QED BY <1>1, <1>2

\* Every step keeps the invariant.
LEMMA RuleForward ==
    ASSUME OneRuleEach, ForwardInv, Untied, NEW stable \in SUBSET clearing, EvaluateRule(stable)
    PROVE  ForwardInv'
<1>1. CorrelationInv'
  BY RuleStep DEF ForwardInv
<1>2. NoPortCauses(map')
  BY AlertsAreDistinct DEF EvaluateRule, ForwardInv, NoPortCauses, EmptyMap
<1> QED BY <1>1, <1>2, RuleTellsCauses, RuleKeepsMapCurrent, RuleLooksBack DEF ForwardInv

LEMMA CycleForward ==
    ASSUME ForwardInv, BeginCycle
    PROVE  ForwardInv'
<1>1. CorrelationInv /\ RowsTellCauses /\ ParentsFailedEarlier
  BY DEF ForwardInv
<1>2. TypeOK /\ FailuresOrdered
  BY <1>1 DEF CorrelationInv
<1>3. UNCHANGED <<rows, older>> /\ Down' = Down
  BY DEF BeginCycle, Down, IsLive
<1>4. PICK order \in Orders : map' = SuppressionMap(order)
  BY DEF BeginCycle
<1>5. CorrelationInv'
  BY <1>1, CycleStep
<1>6. RowsTellCauses' /\ ParentsFailedEarlier'
  BY <1>1, <1>3 DEF RowsTellCauses, ParentsFailedEarlier
<1>7. NoPortCauses(map')
  BY <1>2, <1>4, MapBlamesNoPorts
<1>8. MapIsCurrent'
  <2>1. \A r \in Devices : \A d \in FailureOf(r, map') :
          /\ d \in Down \ older[r] /\ r \in Down
          /\ \A e \in Devices : r \notin FailureOf(e, map')
    BY <1>2, <1>4, MapIsGrounded DEF Grounded
  <2>2. \A r \in Devices : \A d \in FailureOf(r, map') :
          d # r /\ d \in Down' \ older'[r] /\ r \in Down'
    BY <1>3, <2>1
  <2> QED BY <2>2 DEF MapIsCurrent
<1> QED BY <1>5, <1>6, <1>7, <1>8 DEF ForwardInv

LEMMA OrphansForward ==
    ASSUME ForwardInv, RecoverOrphans
    PROVE  ForwardInv'
<1>1. CorrelationInv /\ RowsTellCauses /\ ParentsFailedEarlier /\ NoPortCauses(map)
  BY DEF ForwardInv
<1>2. TypeOK
  BY <1>1 DEF CorrelationInv
<1>3. /\ \A k \in Alerts : rows'[k] = Open \/ rows'[k] = rows[k]
      /\ \A k \in Alerts : rows'[k].status = "none" <=> rows[k].status = "none"
      /\ turn' = 0 /\ UNCHANGED <<older, map>>
  BY DEF RecoverOrphans, Open
<1>4. Down' = Down
  BY <1>3 DEF Down, IsLive
<1>5. RowsTellCauses'
  BY <1>1, <1>3, AlertsAreDistinct DEF RowsTellCauses, Open
<1>6. ParentsFailedEarlier'
  BY <1>1, <1>3, <1>4, AlertsAreDistinct DEF ParentsFailedEarlier, Open
<1>7. NoPortCauses(map')
  BY <1>1, <1>3
<1>8. MapIsCurrent'
  BY <1>3 DEF MapIsCurrent
<1> QED BY <1>1, <1>5, <1>6, <1>7, <1>8, OrphanStep DEF ForwardInv

LEMMA InitForward == Init => ForwardInv
<1> SUFFICES ASSUME Init PROVE ForwardInv
  OBVIOUS
<1>1. RowsTellCauses
  BY AlertsAreDistinct DEF Init, RowsTellCauses, NoRow
<1>2. NoPortCauses(map)
  BY AlertsAreDistinct DEF Init, NoPortCauses, EmptyMap
<1>3. MapIsCurrent
  BY DEF Init, MapIsCurrent
<1>4. ParentsFailedEarlier
  BY AlertsAreDistinct DEF Init, ParentsFailedEarlier, NoRow
<1> QED BY <1>1, <1>2, <1>3, <1>4, InitCorrelation DEF ForwardInv

LEMMA StepForward ==
    ASSUME OneRuleEach
    PROVE  ForwardInv /\ Untied /\ [Next]_vars => ForwardInv'
<1> SUFFICES ASSUME ForwardInv, Untied, [Next]_vars PROVE ForwardInv'
  OBVIOUS
<1>1. CASE \/ \E d \in Devices : DeviceFlips(d)
           \/ CollectorFlips
           \/ \E p \in Ports : PortFlips(p)
           \/ UNCHANGED vars
  <2>1. UNCHANGED <<rows, older, turn, map>>
    BY <1>1 DEF DeviceFlips, CollectorFlips, PortFlips, vars
  <2>2. Down' = Down
    BY <2>1 DEF Down, IsLive
  <2>3. CorrelationInv'
    BY <1>1, NetworkStep DEF ForwardInv
  <2>4. RowsTellCauses' /\ NoPortCauses(map') /\ MapIsCurrent' /\ ParentsFailedEarlier'
    BY <2>1, <2>2 DEF ForwardInv, RowsTellCauses, MapIsCurrent, ParentsFailedEarlier
  <2> QED BY <2>3, <2>4 DEF ForwardInv
<1>2. CASE BeginCycle
  BY <1>2, CycleForward
<1>3. CASE \E stable \in SUBSET clearing : EvaluateRule(stable)
  BY <1>3, RuleForward
<1>4. CASE RecoverOrphans
  BY <1>4, OrphansForward
<1> QED BY <1>1, <1>2, <1>3, <1>4 DEF Next

\* Of suppressed alerts that explain each other, the failure that came first
\* would have a cause that came before it.
LEMMA ForwardIsAcyclic == ForwardInv => NoCircularBlame
<1> SUFFICES ASSUME ForwardInv, NEW S \in SUBSET SuppressedDeviceAlerts, S # {}
             PROVE  \E k \in S : rows[k].parent \notin S
  BY DEF NoCircularBlame
<1>1. TypeOK /\ FailuresOrdered /\ RowsTellCauses /\ ParentsFailedEarlier
  BY DEF ForwardInv, CorrelationInv
<1>2. \A k \in S : /\ k \in Alerts /\ k # CollectorAlert /\ rows[k].status = "suppressed"
                   /\ \/ \E d \in Devices : k = DownAlert(d)
                      \/ \E p \in Ports : k = PortAlert(p)
  BY DEF SuppressedDeviceAlerts, Alerts
<1> DEFINE failed == {d \in Devices : DownAlert(d) \in S}
<1>3. CASE failed = {}
  <2>1. PICK k \in S : TRUE
    OBVIOUS
  <2>2. \A j \in S : \E p \in Ports : j = PortAlert(p)
    BY <1>2, <1>3
  <2>3. \A p \in Ports : rows[k].parent # PortAlert(p)
    BY <1>1, <1>2 DEF RowsTellCauses
  <2> QED BY <2>2, <2>3
<1>4. CASE failed # {}
  <2>1. PICK d \in failed : older[d] \cap failed = {}
    <3>1. failed \subseteq Devices
      OBVIOUS
    <3> HIDE DEF failed
    <3> QED BY <1>1, <1>4, <3>1, FirstExists
  <2>2. ASSUME rows[DownAlert(d)].parent \in S PROVE FALSE
    <3>1. PICK r \in Devices : rows[DownAlert(d)].parent = DownAlert(r)
      BY <1>1, <1>2, <2>2, AlertsAreDistinct DEF RowsTellCauses
    <3>2. r \in failed /\ r \in Down
      BY <1>2, <2>2, <3>1 DEF Down, IsLive
    <3>3. r \in older[d]
      BY <1>1, <3>1, <3>2 DEF ParentsFailedEarlier
    <3> QED BY <2>1, <3>2, <3>3
  <2> QED BY <2>2
<1> QED BY <1>3, <1>4

\* "Reattribution only ever moves forward toward a more fundamental cause", for any
\* network with one rule per metric, as long as no two live device_down alerts are of
\* one moment.  The configuration corr_ties shows that this condition is needed.
THEOREM BlameMovesForward ==
    ASSUME OneRuleEach
    PROVE  Spec /\ []Untied => []NoCircularBlame
<1>1. Init => ForwardInv
  BY InitForward
<1>2. ForwardInv /\ Untied /\ [Next]_vars => ForwardInv'
  BY StepForward
<1>3. ForwardInv => NoCircularBlame
  BY ForwardIsAcyclic
<1> QED BY <1>1, <1>2, <1>3, PTL DEF Spec

=============================================================================
