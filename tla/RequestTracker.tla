---------------------------- MODULE RequestTracker ----------------------------
(***************************************************************************)
(* LimitRequestsMiddleware: a request reads the clock, waits for the one   *)
(* mutex of the tracker, is weighed against the earlier requests of its    *)
(* client, and, if it is let in, runs its handler with the mutex held.     *)
(*                                                                         *)
(* The map keeps times; here it keeps the requests, whose times are in     *)
(* stamp.  Cleanup is not modelled: nothing starts it.                     *)
(***************************************************************************)
EXTENDS Integers, FiniteSets

CONSTANTS
    Requests,
    Clients,        \* IP addresses
    ClientOf,       \* the client each request comes from
    Window,
    MaxRequest,     \* requests a client may make in a window
    MaxNow,         \* bound on the clock
    Nobody

ASSUME TrackerAssumption ==
    /\ ClientOf \in [Requests -> Clients]
    /\ IsFiniteSet(Requests)
    /\ Window \in Nat /\ MaxRequest \in Nat /\ MaxNow \in Nat
    /\ Nobody \notin Requests

VARIABLES
    now,            \* the clock
    stamp,          \* when a request read the clock
    state,          \* how far a request is
    IPMap,          \* the requests remembered of a client
    holder          \* the request that holds the mutex

vars == <<now, stamp, state, IPMap, holder>>

Init ==
    /\ now = 0
    /\ stamp = [r \in Requests |-> 0]
    /\ state = [r \in Requests |-> "none"]
    /\ IPMap = [i \in Clients |-> {}]
    /\ holder = Nobody
-----------------------------------------------------------------------------
\* The clock is read before the mutex is locked.
Arrive(r) ==
    /\ state[r] = "none"
    /\ stamp' = [stamp EXCEPT ![r] = now]
    /\ state' = [state EXCEPT ![r] = "waiting"]
    /\ UNCHANGED <<now, IPMap, holder>>

\* Variant: the window is measured from the other end.
ValidBackwards(r) ==
    {q \in IPMap[ClientOf[r]] : stamp[q] - stamp[r] >= Window} \cup {r}

\* The times that are kept: those at most a window older, and its own.
Valid(r) ==
    {q \in IPMap[ClientOf[r]] : stamp[r] - stamp[q] <= Window} \cup {r}

\* Variant: a request that is refused returns with the mutex locked.
LimitLocked(r) ==
    /\ state[r] = "waiting" /\ holder = Nobody
    /\ IPMap' = [IPMap EXCEPT ![ClientOf[r]] = Valid(r)]
    /\ state' = [state EXCEPT ![r] =
                   IF Cardinality(Valid(r)) > MaxRequest THEN "refused"
                   ELSE "handling"]
    /\ holder' = r
    /\ UNCHANGED <<now, stamp>>

\* A request is remembered whether it is let in or refused.
Limit(r) ==
    /\ state[r] = "waiting" /\ holder = Nobody
    /\ IPMap' = [IPMap EXCEPT ![ClientOf[r]] = Valid(r)]
    /\ \/ /\ Cardinality(Valid(r)) > MaxRequest
          /\ state' = [state EXCEPT ![r] = "refused"]
          /\ UNCHANGED holder
       \/ /\ Cardinality(Valid(r)) <= MaxRequest
          /\ state' = [state EXCEPT ![r] = "handling"]
          /\ holder' = r
    /\ UNCHANGED <<now, stamp>>

\* ctx.Next() returns, or panics: the mutex is unlocked by a defer.
Finish(r) ==
    /\ state[r] = "handling"
    /\ state' = [state EXCEPT ![r] = "done"]
    /\ holder' = Nobody
    /\ UNCHANGED <<now, stamp, IPMap>>

Tick ==
    /\ now < MaxNow
    /\ now' = now + 1
    /\ UNCHANGED <<stamp, state, IPMap, holder>>

Next ==
    \/ \E r \in Requests : Arrive(r) \/ Limit(r) \/ Finish(r)
    \/ Tick

Spec == Init /\ [][Next]_vars

\* sync.Mutex is not first come, first served, but hands itself over to a
\* request that waited for a millisecond; and a handler returns.
FairSpec == Spec /\ \A r \in Requests : SF_vars(Limit(r)) /\ WF_vars(Finish(r))
-----------------------------------------------------------------------------
\* Every variable has its type, and the holder is the one that is handled.
TypeOK ==
    /\ now \in Nat
    /\ stamp \in [Requests -> Nat]
    /\ state \in [Requests -> {"none", "waiting", "handling", "done", "refused"}]
    /\ IPMap \in [Clients -> SUBSET Requests]
    /\ holder \in Requests \cup {Nobody}
    /\ \A r \in Requests : state[r] = "handling" <=> holder = r

Weighed(i) ==
    {r \in Requests : ClientOf[r] = i
                      /\ state[r] \in {"handling", "done", "refused"}}

LetIn(i) == {r \in Weighed(i) : state[r] # "refused"}

\* The window that ends with the latest request of a client that was weighed
\* never holds more than the limit, although requests are weighed in an order
\* other than that of their times (LimitRequestsMiddleware).
NewestWindowBounded ==
    \A i \in Clients : \A m \in Weighed(i) :
        (\A r \in Weighed(i) : stamp[r] <= stamp[m]) =>
            Cardinality({r \in LetIn(i) : stamp[m] - stamp[r] <= Window})
                <= MaxRequest

\* Every request is let in or refused in the end, and every handler gets to
\* run to its end.
EveryRequestAnswered ==
    \A r \in Requests : state[r] = "waiting" ~> state[r] \in {"done", "refused"}
=============================================================================
