------------------------- MODULE RequestTrackerProofs -------------------------
(***************************************************************************)
(* Proofs about LimitRequestsMiddleware, for any requests, clients, window *)
(* and limit: the latest window of a client stays within the limit.        *)
(***************************************************************************)
EXTENDS RequestTracker, FiniteSetTheorems, TLAPS

\* No request of the client that was weighed is later than t.
NotAfter(i, t) == \A q \in Weighed(i) : stamp[q] <= t

\* The requests that were let in during the window that ends at t.
InWindow(i, t) == {q \in LetIn(i) : t - stamp[q] <= Window}

\* The map remembers nothing that was not weighed, and what it forgot lies a
\* window before something that was.
ForgottenIsOld(i) ==
    /\ IPMap[i] \subseteq Weighed(i)
    /\ \A q \in Weighed(i) \ IPMap[i] :
          \E m \in Weighed(i) : stamp[m] - stamp[q] > Window

\* NewestWindowBounded for every end of the window that is not before the
\* latest request: a refused request moves that end without adding to it.
WindowWithinLimit(i) ==
    \A t \in Nat :
        NotAfter(i, t) => Cardinality(InWindow(i, t)) <= MaxRequest

Inv == /\ TypeOK
       /\ \A i \in Clients : ForgottenIsOld(i) /\ WindowWithinLimit(i)
-----------------------------------------------------------------------------
\* A set of requests within another is not larger.
LEMMA SmallerSet ==
    ASSUME NEW S \in SUBSET Requests, NEW T \in SUBSET S
    PROVE  /\ Cardinality(S) \in Nat /\ Cardinality(T) \in Nat
           /\ Cardinality(T) <= Cardinality(S)
  <1>1. IsFiniteSet(S)
    BY TrackerAssumption, FS_Subset
  <1>2. IsFiniteSet(T) /\ Cardinality(T) <= Cardinality(S)
    BY <1>1, FS_Subset
  <1> QED
    BY <1>1, <1>2, FS_CardinalityType

\* A step that leaves what was weighed of a client, its times and its entry of
\* the map alone keeps the invariant for that client.
LEMMA ClientUndisturbed ==
    ASSUME NEW i \in Clients,
           ForgottenIsOld(i), WindowWithinLimit(i),
           Weighed(i)' = Weighed(i), LetIn(i)' = LetIn(i),
           IPMap'[i] = IPMap[i],
           \A q \in Weighed(i) : stamp'[q] = stamp[q]
    PROVE  ForgottenIsOld(i)' /\ WindowWithinLimit(i)'
  <1>1. ForgottenIsOld(i)'
    BY DEF ForgottenIsOld
  <1>2. ASSUME NEW t \in Nat
        PROVE  NotAfter(i, t)' = NotAfter(i, t)
               /\ InWindow(i, t)' = InWindow(i, t)
    BY DEF NotAfter, InWindow, LetIn
  <1>3. WindowWithinLimit(i)'
    BY <1>2 DEF WindowWithinLimit
  <1> QED
    BY <1>1, <1>3

LEMMA Initially == Init => Inv
  <1> SUFFICES ASSUME Init PROVE Inv
    OBVIOUS
  <1>1. TypeOK
    BY TrackerAssumption DEF Init, TypeOK
  <1>2. \A i \in Clients : Weighed(i) = {}
    BY DEF Init, Weighed
  <1>3. \A i \in Clients, t \in Nat : InWindow(i, t) = {}
    BY <1>2 DEF InWindow, LetIn
  <1>4. \A i \in Clients : ForgottenIsOld(i) /\ WindowWithinLimit(i)
    <2>1. ASSUME NEW i \in Clients PROVE ForgottenIsOld(i)
      BY <1>2 DEF Init, ForgottenIsOld
    <2>2. Cardinality({}) = 0
      BY FS_EmptySet
    <2>3. ASSUME NEW i \in Clients PROVE WindowWithinLimit(i)
      BY <1>3, <2>2, TrackerAssumption DEF WindowWithinLimit
    <2> QED
      BY <2>1, <2>3
  <1> QED
    BY <1>1, <1>4 DEF Inv

LEMMA TypePreserved == TypeOK /\ [Next]_vars => TypeOK'
  <1> SUFFICES ASSUME TypeOK, [Next]_vars PROVE TypeOK'
    OBVIOUS
  <1> USE DEF TypeOK
  <1>1. ASSUME NEW r \in Requests, Arrive(r) PROVE TypeOK'
    BY <1>1, TrackerAssumption DEF Arrive
  <1>2. ASSUME NEW r \in Requests, Limit(r) PROVE TypeOK'
    <2>1. ClientOf[r] \in Clients /\ Valid(r) \subseteq Requests
      BY TrackerAssumption DEF Valid
    <2> QED
      BY <1>2, <2>1, TrackerAssumption DEF Limit
  <1>3. ASSUME NEW r \in Requests, Finish(r) PROVE TypeOK'
    BY <1>3, TrackerAssumption DEF Finish
  <1>4. CASE Tick
    BY <1>4, TrackerAssumption DEF Tick
  <1>5. CASE UNCHANGED vars
    BY <1>5 DEF vars
  <1> QED
    BY <1>1, <1>2, <1>3, <1>4, <1>5 DEF Next

\* The request that is weighed joins what was weighed of its client.
LEMMA LimitWeighs ==
    ASSUME NEW r \in Requests, Limit(r), TypeOK
    PROVE  LET i == ClientOf[r] IN
           /\ i \in Clients /\ stamp' = stamp /\ IPMap'[i] = Valid(r)
           /\ Weighed(i)' = Weighed(i) \cup {r}
           /\ \/ LetIn(i)' = LetIn(i)
              \/ /\ LetIn(i)' = LetIn(i) \cup {r}
                 /\ Cardinality(Valid(r)) <= MaxRequest
           /\ \A j \in Clients \ {i} :
                /\ Weighed(j)' = Weighed(j) /\ LetIn(j)' = LetIn(j)
                /\ IPMap'[j] = IPMap[j]
  <1>1. ClientOf[r] \in Clients /\ ClientOf \in [Requests -> Clients]
    BY TrackerAssumption
  <1>2. /\ stamp' = stamp /\ state[r] = "waiting"
        /\ IPMap' = [IPMap EXCEPT ![ClientOf[r]] = Valid(r)]
        /\ \/ state' = [state EXCEPT ![r] = "refused"]
           \/ /\ Cardinality(Valid(r)) <= MaxRequest
              /\ state' = [state EXCEPT ![r] = "handling"]
    BY DEF Limit
  <1> QED
    BY <1>1, <1>2 DEF TypeOK, Weighed, LetIn

\* What Limit drops from the map lies a window before the request it weighs.
LEMMA LimitForgetsOld ==
    ASSUME NEW r \in Requests, Limit(r), Inv
    PROVE  ForgottenIsOld(ClientOf[r])'
  <1> DEFINE i == ClientOf[r]
  <1>1. /\ i \in Clients /\ stamp' = stamp /\ IPMap'[i] = Valid(r)
        /\ Weighed(i)' = Weighed(i) \cup {r}
    BY LimitWeighs DEF Inv
  <1>2. /\ stamp \in [Requests -> Nat] /\ Window \in Nat
        /\ Weighed(i) \subseteq Requests
    BY TrackerAssumption DEF Inv, TypeOK, Weighed
  <1>3. ForgottenIsOld(i)
    BY <1>1 DEF Inv
  <1>4. Valid(r) \subseteq Weighed(i) \cup {r}
    BY <1>3 DEF ForgottenIsOld, Valid
  <1>5. ASSUME NEW q \in Weighed(i), q \notin Valid(r)
        PROVE  \E m \in Weighed(i) \cup {r} : stamp[m] - stamp[q] > Window
    <2>1. CASE q \in IPMap[i]
      BY <1>2, <1>5, <2>1 DEF Valid
    <2>2. CASE q \notin IPMap[i]
      BY <1>3, <2>2 DEF ForgottenIsOld
    <2> QED
      BY <2>1, <2>2
  <1>6. r \in Valid(r)
    BY DEF Valid
  <1> QED
    BY <1>1, <1>4, <1>5, <1>6 DEF ForgottenIsOld

\* A request that is let in was weighed against all the window holds: what was
\* forgotten lies outside of it.  One that is refused adds nothing.
LEMMA LimitKeepsLimit ==
    ASSUME NEW r \in Requests, Limit(r), Inv
    PROVE  WindowWithinLimit(ClientOf[r])'
  <1> DEFINE i == ClientOf[r]
  <1>1. /\ i \in Clients /\ stamp' = stamp
        /\ Weighed(i)' = Weighed(i) \cup {r}
        /\ \/ LetIn(i)' = LetIn(i)
           \/ /\ LetIn(i)' = LetIn(i) \cup {r}
              /\ Cardinality(Valid(r)) <= MaxRequest
    BY LimitWeighs DEF Inv
  <1>2. /\ stamp \in [Requests -> Nat] /\ Window \in Nat /\ MaxRequest \in Nat
        /\ Weighed(i) \subseteq Requests /\ LetIn(i) \subseteq Weighed(i)
    BY TrackerAssumption DEF Inv, TypeOK, Weighed, LetIn
  <1>3. ForgottenIsOld(i) /\ WindowWithinLimit(i)
    BY <1>1 DEF Inv
  <1> SUFFICES ASSUME NEW t \in Nat, NotAfter(i, t)'
               PROVE  Cardinality(InWindow(i, t)') <= MaxRequest
    BY DEF WindowWithinLimit
  <1>4. /\ \A q \in Weighed(i) : stamp[q] <= t
        /\ stamp[r] <= t
        /\ NotAfter(i, t)
    BY <1>1 DEF NotAfter
  <1>5. CASE LetIn(i)' = LetIn(i)
    <2>1. InWindow(i, t)' = InWindow(i, t)
      BY <1>1, <1>5 DEF InWindow
    <2> QED
      BY <1>3, <1>4, <2>1 DEF WindowWithinLimit
  <1>6. CASE LetIn(i)' = LetIn(i) \cup {r}
             /\ Cardinality(Valid(r)) <= MaxRequest
    <2>1. ASSUME NEW q \in LetIn(i), t - stamp[q] <= Window
          PROVE  q \in Valid(r)
      <3>1. stamp[q] \in Nat /\ stamp[r] \in Nat /\ q \in Weighed(i)
        BY <1>2
      <3>2. stamp[r] - stamp[q] <= Window
        BY <1>2, <1>4, <2>1, <3>1
      <3>3. \A m \in Weighed(i) : ~(stamp[m] - stamp[q] > Window)
        BY <1>2, <1>4, <2>1, <3>1
      <3>4. q \in IPMap[i]
        BY <1>3, <3>1, <3>3 DEF ForgottenIsOld
      <3> QED
        BY <3>2, <3>4 DEF Valid
    <2>2. InWindow(i, t)' \subseteq Valid(r)
      BY <1>1, <1>6, <2>1 DEF InWindow, Valid
    <2>3. Valid(r) \subseteq Requests
      BY <1>2, <1>3 DEF Valid, ForgottenIsOld
    <2>4. Cardinality(InWindow(i, t)') <= Cardinality(Valid(r))
          /\ Cardinality(InWindow(i, t)') \in Nat
          /\ Cardinality(Valid(r)) \in Nat
      BY <2>2, <2>3, SmallerSet
    <2> QED
      BY <1>2, <1>6, <2>4
  <1> QED
    BY <1>1, <1>5, <1>6

LEMMA InvPreserved == Inv /\ [Next]_vars => Inv'
  <1> SUFFICES ASSUME Inv, [Next]_vars PROVE Inv'
    OBVIOUS
  <1>1. TypeOK /\ TypeOK'
    BY TypePreserved DEF Inv
  <1> SUFFICES ASSUME NEW i \in Clients
               PROVE  ForgottenIsOld(i)' /\ WindowWithinLimit(i)'
    BY <1>1 DEF Inv
  <1>2. ForgottenIsOld(i) /\ WindowWithinLimit(i)
    BY DEF Inv
  <1>3. ASSUME NEW r \in Requests, Arrive(r)
        PROVE  ForgottenIsOld(i)' /\ WindowWithinLimit(i)'
    <2>1. Weighed(i)' = Weighed(i) /\ LetIn(i)' = LetIn(i) /\ IPMap' = IPMap
      BY <1>1, <1>3 DEF Arrive, TypeOK, Weighed, LetIn
    <2>2. \A q \in Weighed(i) : stamp'[q] = stamp[q]
      BY <1>1, <1>3 DEF Arrive, TypeOK, Weighed
    <2> QED
      BY <1>2, <2>1, <2>2, ClientUndisturbed
  <1>4. ASSUME NEW r \in Requests, Limit(r)
        PROVE  ForgottenIsOld(i)' /\ WindowWithinLimit(i)'
    <2>1. CASE i = ClientOf[r]
      BY <1>4, <2>1, LimitForgetsOld, LimitKeepsLimit
    <2>2. CASE i # ClientOf[r]
      BY <1>1, <1>2, <1>4, <2>2, LimitWeighs, ClientUndisturbed
    <2> QED
      BY <2>1, <2>2
  <1>5. ASSUME NEW r \in Requests, Finish(r)
        PROVE  ForgottenIsOld(i)' /\ WindowWithinLimit(i)'
    <2>1. Weighed(i)' = Weighed(i) /\ LetIn(i)' = LetIn(i)
          /\ IPMap' = IPMap /\ stamp' = stamp
      BY <1>1, <1>5 DEF Finish, TypeOK, Weighed, LetIn
    <2> QED
      BY <1>2, <2>1, ClientUndisturbed
  <1>6. CASE Tick \/ UNCHANGED vars
    <2>1. Weighed(i)' = Weighed(i) /\ LetIn(i)' = LetIn(i)
          /\ IPMap' = IPMap /\ stamp' = stamp
      BY <1>6 DEF Tick, vars, Weighed, LetIn
    <2> QED
      BY <1>2, <2>1, ClientUndisturbed
  <1> QED
    BY <1>3, <1>4, <1>5, <1>6 DEF Next

LEMMA Invariance == Spec => []Inv
  BY Initially, InvPreserved, PTL DEF Spec
-----------------------------------------------------------------------------
\* Every variable has its type, and one request at most is in its handler, the
\* one that holds the mutex (LimitRequestsMiddleware).
THEOREM TrackerTyped == Spec => []TypeOK
  <1>1. Inv => TypeOK
    BY DEF Inv
  <1> QED
    BY <1>1, Invariance, PTL

\* The window that ends with the latest request of a client stays within the
\* limit, in whatever order requests get the mutex (LimitRequestsMiddleware).
THEOREM LatestWindowWithinLimit == Spec => []NewestWindowBounded
  <1>1. Inv => NewestWindowBounded
    <2> SUFFICES ASSUME Inv, NEW i \in Clients, NEW m \in Weighed(i),
                        \A r \in Weighed(i) : stamp[r] <= stamp[m]
                 PROVE  Cardinality({r \in LetIn(i) :
                                       stamp[m] - stamp[r] <= Window})
                            <= MaxRequest
      BY DEF NewestWindowBounded
    <2>1. stamp[m] \in Nat
      BY DEF Inv, TypeOK, Weighed
    <2>2. NotAfter(i, stamp[m])
      BY DEF NotAfter
    <2>3. Cardinality(InWindow(i, stamp[m])) <= MaxRequest
      BY <2>1, <2>2 DEF Inv, WindowWithinLimit
    <2> QED
      BY <2>3 DEF InWindow
  <1> QED
    BY <1>1, Invariance, PTL
=============================================================================
