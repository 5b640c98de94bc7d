--------------------------- MODULE BearerAuthProofs ---------------------------
(***************************************************************************)
(* Proofs about the bearer middleware, for any tokens, replicas, lifetimes *)
(* and cache stores.  The cached path looks at the expiry of the claims    *)
(* but not at a signature: what it may rely on is that only tokens of this *)
(* service ever get an entry, a goroutine that stores one, or a goroutine  *)
(* that deletes one (Entries, Background).                                 *)
(***************************************************************************)
EXTENDS BearerAuth, TLAPS

Entries ==
    \A t \in Tokens : cached[t].layers # 0 =>
        t \in signed /\ cached[t].layers = layers

Background ==
    \A t \in Tokens :
        /\ storing[t] > 0 => t \in signed
        /\ deleting[t] > 0 => t \in signed /\ expiresAt[t] <= now

\* What a request relies on at each label.
Backed(p) ==
    LET t == job[p].token IN
    /\ pc[p] # "idle" => t \in Tokens /\ job[p].since <= now
    /\ pc[p] \in {"checkCached", "serving"} => t \in signed
    /\ pc[p] = "serving" => job[p].since < expiresAt[t]

BearerInv == TypeOK /\ Entries /\ Background /\ \A p \in Replicas : Backed(p)
-----------------------------------------------------------------------------
LEMMA BearerInit == Init => BearerInv
  BY BearerAssumption
     DEF Init, BearerInv, TypeOK, Entries, Background, Backed, NoEntry, Labels

\* Goto moves one replica, to a label at which it has what it relies on.
LEMMA GotoKeeps ==
    ASSUME TypeOK, NEW p \in Replicas, NEW l \in Labels, Goto(p, l),
           \A q \in Replicas : Backed(q),
           UNCHANGED <<now, signed, expiresAt>>,
           l # "idle" => pc[p] # "idle",
           l \in {"checkCached", "serving"} => job[p].token \in signed,
           l = "serving" => job[p].since < expiresAt[job[p].token]
    PROVE  /\ pc' \in [Replicas -> Labels] /\ job' = job /\ answer' = answer
           /\ \A q \in Replicas : Backed(q)'
  <1>1. /\ pc' \in [Replicas -> Labels] /\ job' = job /\ answer' = answer
        /\ pc'[p] = l /\ \A q \in Replicas \ {p} : pc'[q] = pc[q]
    BY DEF TypeOK, Goto
  <1> QED
    BY <1>1 DEF Backed

\* Reply leaves it with nothing to rely on.
LEMMA ReplyKeeps ==
    ASSUME TypeOK, NEW p \in Replicas,
           NEW a \in {"none", "served", "401", "500", "gone"}, Reply(p, a),
           \A q \in Replicas : Backed(q),
           UNCHANGED <<now, signed, expiresAt>>
    PROVE  /\ pc' \in [Replicas -> Labels]
           /\ job' \in [Replicas -> [token : Tokens \cup {NoToken}, since : Nat]]
           /\ answer' \in [Replicas -> {"none", "served", "401", "500", "gone"}]
           /\ \A q \in Replicas : Backed(q)'
  <1>1. /\ pc'[p] = "idle"
        /\ \A q \in Replicas \ {p} : pc'[q] = pc[q] /\ job'[q] = job[q]
    BY DEF TypeOK, Reply
  <1>2. \A q \in Replicas : Backed(q)'
    BY <1>1 DEF Backed
  <1> QED
    BY <1>2 DEF TypeOK, Reply, Labels

\* The tables that requests share keep their part of the invariant.
SharedKept ==
    /\ cached' \in [Tokens -> [layers : {0} \cup StoredLayers, until : Nat]]
    /\ storing' \in [Tokens -> Nat] /\ deleting' \in [Tokens -> Nat]
    /\ Entries' /\ Background'

LEMMA SharedUntouched ==
    ASSUME BearerInv,
           UNCHANGED <<now, signed, expiresAt, layers, cached, background>>
    PROVE  SharedKept
  BY DEF BearerInv, TypeOK, Entries, Background, SharedKept, background

LEMMA RequestKeeps ==
    ASSUME BearerInv, NEW p \in Replicas,
           Step(p) \/ Restart(p) \/ \E t \in Tokens : Arrive(p, t)
    PROVE  BearerInv'
  <1> DEFINE t == job[p].token
             Local == /\ pc' \in [Replicas -> Labels]
                      /\ job' \in [Replicas -> [token : Tokens \cup {NoToken},
                                                since : Nat]]
                      /\ answer' \in [Replicas -> {"none", "served", "401",
                                                   "500", "gone"}]
                      /\ \A q \in Replicas : Backed(q)'
             Same == UNCHANGED <<now, signed, expiresAt, layers>>
  <1>1. /\ TypeOK /\ Backed(p) /\ \A q \in Replicas : Backed(q)
        /\ Entries /\ Background
    BY DEF BearerInv
  <1>2. SharedKept /\ Local /\ Same => BearerInv'
    BY <1>1 DEF SharedKept, BearerInv, TypeOK
  <1> HIDE DEF Local
  <1>3. ASSUME NEW a \in {"none", "served", "401", "500", "gone"},
               Reply(p, a), Same
        PROVE  Local
    BY <1>1, <1>3, ReplyKeeps DEF Local
  <1>4. ASSUME NEW l \in Labels, Goto(p, l), Same, pc[p] # "idle",
               l \in {"checkCached", "serving"} => t \in signed,
               l = "serving" => job[p].since < expiresAt[t]
        PROVE  Local
    <2>1. /\ pc' \in [Replicas -> Labels] /\ job' = job /\ answer' = answer
          /\ \A q \in Replicas : Backed(q)'
      BY <1>1, <1>4, GotoKeeps
    <2> QED
      BY <1>1, <2>1 DEF Local, TypeOK
  <1>5. ASSUME NEW u \in Tokens, Arrive(p, u) PROVE BearerInv'
    <2>1. SharedKept /\ Same
      BY <1>5, SharedUntouched DEF Arrive
    <2>2. CASE Reply(p, "401")
      BY <1>2, <1>3, <2>1, <2>2
    <2>3. CASE /\ pc' = [pc EXCEPT ![p] = "lookup"]
               /\ job' = [job EXCEPT ![p] = [token |-> u, since |-> now]]
               /\ answer' = [answer EXCEPT ![p] = "none"]
      <3>1. Local
        BY <1>1, <2>1, <2>3 DEF Local, TypeOK, Labels, Backed
      <3> QED
        BY <1>2, <2>1, <3>1
    <2> QED
      BY <1>5, <2>2, <2>3 DEF Arrive
  <1>6. CASE Lookup(p)
    <2>1. SharedKept /\ Same /\ pc[p] = "lookup"
      BY <1>6, SharedUntouched DEF Lookup
    <2>2. CASE Reply(p, "500")
      BY <1>2, <1>3, <2>1, <2>2
    <2>3. CASE Goto(p, "validate")
      BY <1>2, <1>4, <2>1, <2>3 DEF Labels
    <2>4. CASE cached[t].layers = 2 /\ Goto(p, "checkCached")
      <3>1. t \in Tokens /\ t \in signed
        BY <1>1, <2>1, <2>4 DEF Backed, Entries
      <3> QED
        BY <1>2, <1>4, <2>1, <2>4, <3>1 DEF Labels
    <2> QED
      BY <1>6, <2>2, <2>3, <2>4 DEF Lookup
  <1>7. CASE CheckCached(p)
    <2>1. Same /\ pc[p] = "checkCached" /\ t \in Tokens /\ t \in signed
      BY <1>1, <1>7 DEF CheckCached, Backed
    <2>2. job[p].since \in Nat /\ now \in Nat /\ expiresAt[t] \in Nat
          /\ job[p].since <= now
      BY <1>1, <2>1 DEF TypeOK, Backed
    <2>3. CASE ~Expired(t) /\ Goto(p, "serving") /\ UNCHANGED deleting
      <3>1. SharedKept
        BY <1>7, <2>3, SharedUntouched DEF CheckCached, background
      <3>2. job[p].since < expiresAt[t]
        BY <2>2, <2>3 DEF Expired
      <3> QED
        BY <1>2, <1>4, <2>1, <2>3, <3>1, <3>2 DEF Labels
    <2>4. CASE /\ Expired(t)
               /\ deleting' = [deleting EXCEPT ![t] = @ + 1]
               /\ Goto(p, "validate")
      <3>1. SharedKept
        BY <1>1, <1>7, <2>1, <2>4
           DEF CheckCached, SharedKept, TypeOK, Entries, Background, Expired
      <3> QED
        BY <1>2, <1>4, <2>1, <2>4, <3>1 DEF Labels
    <2> QED
      BY <1>7, <2>3, <2>4 DEF CheckCached
  <1>8. CASE ValidateJWT(p)
    <2>1. Same /\ pc[p] = "validate" /\ t \in Tokens
      BY <1>1, <1>8 DEF ValidateJWT, Backed
    <2>2. job[p].since \in Nat /\ now \in Nat /\ expiresAt[t] \in Nat
          /\ job[p].since <= now
      BY <1>1, <2>1 DEF TypeOK, Backed
    <2>3. CASE (Reply(p, "401") \/ Reply(p, "gone")) /\ UNCHANGED storing
      <3>1. SharedKept
        BY <1>8, <2>3, SharedUntouched DEF ValidateJWT, background
      <3> QED
        BY <1>2, <1>3, <2>1, <2>3, <3>1
    <2>4. CASE /\ t \in signed /\ ~Expired(t)
               /\ storing' = [storing EXCEPT ![t] = @ + 1]
               /\ Goto(p, "serving")
      <3>1. SharedKept
        BY <1>1, <1>8, <2>1, <2>4
           DEF ValidateJWT, SharedKept, TypeOK, Entries, Background
      <3>2. job[p].since < expiresAt[t]
        BY <2>2, <2>4 DEF Expired
      <3> QED
        BY <1>2, <1>4, <2>1, <2>4, <3>1, <3>2 DEF Labels
    <2> QED
      BY <1>8, <2>3, <2>4 DEF ValidateJWT
  <1>9. CASE Serve(p) \/ Restart(p)
    <2>1. SharedKept /\ Same /\ (Reply(p, "served") \/ Reply(p, "none"))
      BY <1>9, SharedUntouched DEF Serve, Restart
    <2> QED
      BY <1>2, <1>3, <2>1
  <1> QED
    BY <1>5, <1>6, <1>7, <1>8, <1>9 DEF Step

LEMMA GoroutineKeeps ==
    ASSUME BearerInv, NEW t \in Tokens, CacheValidClaims(t) \/ DeleteClaims(t)
    PROVE  BearerInv'
  <1>1. UNCHANGED <<now, signed, expiresAt, layers, pc, job, answer>>
    BY DEF CacheValidClaims, DeleteClaims
  <1>2. \A p \in Replicas : Backed(p)'
    BY <1>1 DEF BearerInv, Backed
  <1>3. \E e \in [layers : {0} \cup StoredLayers, until : Nat] :
           /\ cached' \in {cached, [cached EXCEPT ![t] = e]}
           /\ e.layers # 0 => t \in signed /\ e.layers = layers
    <2>1. CASE CacheValidClaims(t)
      <3>1. [layers |-> layers, until |-> now + CacheTTL]
               \in [layers : {0} \cup StoredLayers, until : Nat]
        BY BearerAssumption DEF BearerInv, TypeOK
      <3>2. t \in signed
        BY <2>1 DEF CacheValidClaims, BearerInv, Background
      <3> QED
        BY <2>1, <3>1, <3>2 DEF CacheValidClaims
    <2>2. CASE DeleteClaims(t)
      <3>1. NoEntry \in [layers : {0} \cup StoredLayers, until : Nat]
            /\ NoEntry.layers = 0
        BY DEF NoEntry
      <3> QED
        BY <2>2, <3>1 DEF DeleteClaims
    <2> QED
      BY <2>1, <2>2
  <1>4. Entries' /\ cached' \in [Tokens -> [layers : {0} \cup StoredLayers,
                                            until : Nat]]
    BY <1>1, <1>3 DEF BearerInv, TypeOK, Entries
  <1>5. /\ storing' \in {storing, [storing EXCEPT ![t] = storing[t] - 1]}
        /\ deleting' \in {deleting, [deleting EXCEPT ![t] = deleting[t] - 1]}
        /\ storing' # storing => storing[t] > 0
        /\ deleting' # deleting => deleting[t] > 0
    BY DEF CacheValidClaims, DeleteClaims
  <1>6. storing' \in [Tokens -> Nat]
    <2>1. storing \in [Tokens -> Nat]
      BY DEF BearerInv, TypeOK
    <2>2. CASE storing' = storing
      BY <2>1, <2>2
    <2>3. CASE storing[t] > 0 /\ storing' = [storing EXCEPT ![t] = storing[t] - 1]
      <3>1. storing[t] - 1 \in Nat
        BY <2>1, <2>3
      <3> QED
        BY <2>1, <2>3, <3>1
    <2> QED
      BY <1>5, <2>2, <2>3
  <1>7. deleting' \in [Tokens -> Nat]
    <2>1. deleting \in [Tokens -> Nat]
      BY DEF BearerInv, TypeOK
    <2>2. CASE deleting' = deleting
      BY <2>1, <2>2
    <2>3. CASE /\ deleting[t] > 0
               /\ deleting' = [deleting EXCEPT ![t] = deleting[t] - 1]
      <3>1. deleting[t] - 1 \in Nat
        BY <2>1, <2>3
      <3> QED
        BY <2>1, <2>3, <3>1
    <2> QED
      BY <1>5, <2>2, <2>3
  <1>8. \A u \in Tokens : /\ storing'[u] > 0 => storing[u] > 0
                          /\ deleting'[u] > 0 => deleting[u] > 0
    BY <1>5 DEF BearerInv, TypeOK
  <1>9. Background'
    BY <1>1, <1>8 DEF BearerInv, Background
  <1> QED
    BY <1>1, <1>2, <1>4, <1>6, <1>7, <1>9 DEF BearerInv, TypeOK

LEMMA BearerPreserved == BearerInv /\ [Next]_vars => BearerInv'
  <1> SUFFICES ASSUME BearerInv, [Next]_vars PROVE BearerInv'
    OBVIOUS
  <1> USE DEF BearerInv, TypeOK, Entries, Background, Backed
  <1>1. ASSUME NEW t \in Tokens, GenerateJWT(t) PROVE BearerInv'
    BY <1>1, BearerAssumption DEF GenerateJWT, background
  <1>2. CASE Tick
    BY <1>2 DEF Tick, background
  <1>3. CASE UNCHANGED vars
    BY <1>3 DEF vars
  <1> QED
    BY <1>1, <1>2, <1>3, RequestKeeps, GoroutineKeeps DEF Next

LEMMA BearerInvariant == Spec => []BearerInv
  BY BearerInit, BearerPreserved, PTL DEF Spec

\* Every variable keeps its type.
THEOREM BearerTyped == Spec => []TypeOK
  BY BearerInvariant, PTL DEF BearerInv

\* No handler runs for a token that was never signed, or had expired when the
\* request came, by whichever path it was authenticated (handleCachedAuth,
\* handleTokenAuth).
THEOREM ServedTokensAreValid == Spec => []OnlyValidServed
  <1>1. BearerInv => OnlyValidServed
    BY DEF BearerInv, Backed, OnlyValidServed
  <1> QED
    BY <1>1, BearerInvariant, PTL

\* A deletion that runs late deletes nothing that is still of use.
THEOREM LateDeletesAreHarmless == Spec => []DeletesAreHarmless
  <1>1. BearerInv => DeletesAreHarmless
    BY DEF BearerInv, Background, DeletesAreHarmless, Expired
  <1> QED
    BY <1>1, BearerInvariant, PTL
-----------------------------------------------------------------------------
\* The property of one step that RefusedForAReason is about.
Reason(p) ==
    LET t == job[p].token IN
    pc[p] # "idle" /\ pc'[p] = "idle" =>
        /\ answer'[p] = "401" => t \notin signed \/ Expired(t)
        /\ answer'[p] = "500" => t \in signed /\ layers = 1

LEMMA StepHasReason ==
    ASSUME BearerInv, [Next]_vars, NEW p \in Replicas
    PROVE  Reason(p)
  <1> USE DEF BearerInv, TypeOK, Reason
  <1>1. ASSUME NEW q \in Replicas, NEW t \in Tokens, Arrive(q, t)
        PROVE  Reason(p)
    BY <1>1 DEF Arrive, Reply
  <1>2. ASSUME NEW q \in Replicas, Lookup(q) PROVE Reason(p)
    <2>1. Reply(q, "500") => /\ job[q].token \in Tokens
                             /\ cached[job[q].token].layers = 1
      BY <1>2 DEF Lookup, Backed, Goto, Reply
    <2> QED
      BY <1>2, <2>1 DEF Lookup, Goto, Reply, Entries
  <1>3. ASSUME NEW q \in Replicas, CheckCached(q) PROVE Reason(p)
    BY <1>3 DEF CheckCached, Goto
  <1>4. ASSUME NEW q \in Replicas, ValidateJWT(q) PROVE Reason(p)
    BY <1>4 DEF ValidateJWT, Goto, Reply
  <1>5. ASSUME NEW q \in Replicas, Serve(q) \/ Restart(q) PROVE Reason(p)
    BY <1>5 DEF Serve, Restart, Reply
  <1>6. ASSUME UNCHANGED pc PROVE Reason(p)
    BY <1>6
  <1>7. ASSUME NEW t \in Tokens,
               GenerateJWT(t) \/ CacheValidClaims(t) \/ DeleteClaims(t)
        PROVE  UNCHANGED pc
    BY <1>7 DEF GenerateJWT, CacheValidClaims, DeleteClaims
  <1> QED
    BY <1>1, <1>2, <1>3, <1>4, <1>5, <1>6, <1>7 DEF Next, Step, Tick, vars

\* A 401 is never the answer to a good token, and a token that was never
\* signed never makes the middleware panic.
THEOREM RefusalsHaveReasons == Spec => RefusedForAReason
  <1>1. BearerInv /\ [Next]_vars => \A p \in Replicas : Reason(p)
    BY StepHasReason
  <1> QED
    BY <1>1, BearerInvariant, PTL DEF Spec, RefusedForAReason, Reason
=============================================================================
