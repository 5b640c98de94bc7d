------------------------------ MODULE BearerAuth ------------------------------
(***************************************************************************)
(* UserAuthenticationMiddleware: the claims of a bearer token come from    *)
(* Redis if they are there, and otherwise from the token, which is parsed  *)
(* and then stored in Redis by a goroutine of its own.  An expired entry   *)
(* is deleted by a goroutine too.  Replicas share Redis.                   *)
(*                                                                         *)
(* An entry is a payload under layers of encryption.  cacheValidClaims     *)
(* leaves one layer, which Set puts on; the reader takes two off, one in   *)
(* Get and one in DecacheClaims, and taking off a layer that is not there  *)
(* panics on the empty nonce.  A cache store that keeps claims as          *)
(* CacheClaims makes them, which the middleware is written for, has two.   *)
(***************************************************************************)
EXTENDS Integers

CONSTANTS
    Tokens,         \* the strings clients present as bearer tokens
    Replicas,
    NoToken,
    StoredLayers,   \* layers of encryption a cache store may leave on claims
    TokenDuration,  \* lifetime of a token
    CacheTTL,       \* five minutes
    MaxBackground,  \* bound on the goroutines of a token under way
    MaxNow          \* bound on the clock

ASSUME BearerAssumption ==
    /\ NoToken \notin Tokens
    /\ StoredLayers \subseteq {1, 2}
    /\ {TokenDuration, CacheTTL, MaxBackground, MaxNow} \subseteq Nat

VARIABLES
    now,            \* the clock
    signed,         \* tokens this service signed, with a device
    expiresAt,      \* their expiry
    layers,         \* what the cache store of this deployment leaves on claims
    cached,         \* Redis: auth:token:<token>
    storing,        \* goroutines about to store the claims of a token
    deleting,       \* goroutines about to delete its entry
    pc, job, answer \* the request each replica authenticates

vars == <<now, signed, expiresAt, layers, cached, storing, deleting,
          pc, job, answer>>

background == <<storing, deleting>>

NoEntry == [layers |-> 0, until |-> 0]

Init ==
    /\ now = 0
    /\ signed = {}
    /\ expiresAt = [t \in Tokens |-> 0]
    /\ layers \in StoredLayers
    /\ cached = [t \in Tokens |-> NoEntry]
    /\ storing = [t \in Tokens |-> 0]
    /\ deleting = [t \in Tokens |-> 0]
    /\ pc = [p \in Replicas |-> "idle"]
    /\ job = [p \in Replicas |-> [token |-> NoToken, since |-> 0]]
    /\ answer = [p \in Replicas |-> "none"]
-----------------------------------------------------------------------------
Goto(p, label) ==
    /\ pc' = [pc EXCEPT ![p] = label]
    /\ UNCHANGED <<job, answer>>

Reply(p, a) ==
    /\ pc' = [pc EXCEPT ![p] = "idle"]
    /\ job' = [job EXCEPT ![p] = [token |-> NoToken, since |-> 0]]
    /\ answer' = [answer EXCEPT ![p] = a]

\* ExpiresAt.Unix() <= now: a token is over in the second it expires.
Expired(t) == expiresAt[t] <= now

Live(t) == now < cached[t].until

\* GenerateJWT, for a login or a second factor.
GenerateJWT(t) ==
    /\ t \notin signed
    /\ signed' = signed \cup {t}
    /\ expiresAt' = [expiresAt EXCEPT ![t] = now + TokenDuration]
    /\ UNCHANGED <<now, layers, cached, background, pc, job, answer>>

\* extractBearerToken: any string after "Bearer ", or a 401 without one.
Arrive(p, t) ==
    /\ pc[p] = "idle"
    /\ \/ Reply(p, "401")
       \/ /\ pc' = [pc EXCEPT ![p] = "lookup"]
          /\ job' = [job EXCEPT ![p] = [token |-> t, since |-> now]]
          /\ answer' = [answer EXCEPT ![p] = "none"]
    /\ UNCHANGED <<now, signed, expiresAt, layers, cached, background>>

\* handleCachedAuth, up to the claims.  Get fails for a miss and if Redis
\* does, and the token is parsed then; a layer too few is a panic, a 500.
Lookup(p) ==
    LET t == job[p].token IN
    /\ pc[p] = "lookup"
    /\ \/ Goto(p, "validate")
       \/ Live(t) /\ cached[t].layers = 1 /\ Reply(p, "500")
       \/ Live(t) /\ cached[t].layers = 2 /\ Goto(p, "checkCached")
    /\ UNCHANGED <<now, signed, expiresAt, layers, cached, background>>

\* Variant: what is in the cache is good.
CheckCachedNever(p) ==
    /\ pc[p] = "checkCached"
    /\ Goto(p, "serving")
    /\ UNCHANGED <<now, signed, expiresAt, layers, cached, background>>

\* Variant: the entry is deleted whatever it says.
CheckCachedDeleting(p) ==
    LET t == job[p].token IN
    /\ pc[p] = "checkCached"
    /\ deleting[t] < MaxBackground
    /\ deleting' = [deleting EXCEPT ![t] = @ + 1]
    /\ IF Expired(t) THEN Goto(p, "validate") ELSE Goto(p, "serving")
    /\ UNCHANGED <<now, signed, expiresAt, layers, cached, storing>>

\* The cached claims have the expiry of the token.
CheckCached(p) ==
    LET t == job[p].token IN
    /\ pc[p] = "checkCached"
    /\ \/ ~Expired(t) /\ Goto(p, "serving") /\ UNCHANGED deleting
       \/ /\ Expired(t) /\ deleting[t] < MaxBackground
          /\ deleting' = [deleting EXCEPT ![t] = @ + 1]
          /\ Goto(p, "validate")
    /\ UNCHANGED <<now, signed, expiresAt, layers, cached, storing>>

\* Variant: a token counts as over one second early.
ValidateJWTEarly(p) ==
    LET t == job[p].token IN
    /\ pc[p] = "validate"
    /\ \/ /\ t \in signed /\ now + 1 < expiresAt[t]
          /\ storing[t] < MaxBackground
          /\ storing' = [storing EXCEPT ![t] = @ + 1]
          /\ Goto(p, "serving")
       \/ /\ t \notin signed \/ now + 1 >= expiresAt[t]
          /\ Reply(p, "401")
          /\ UNCHANGED storing
    /\ UNCHANGED <<now, signed, expiresAt, layers, cached, deleting>>

\* ValidateJWT parses the token in a goroutine; a client that left first ends
\* the wait, with a 401 that reaches nobody.  Valid claims are stored in the
\* background.
ValidateJWT(p) ==
    LET t == job[p].token
        valid == t \in signed /\ ~Expired(t)
    IN  /\ pc[p] = "validate"
        /\ \/ /\ valid /\ storing[t] < MaxBackground
              /\ storing' = [storing EXCEPT ![t] = @ + 1]
              /\ Goto(p, "serving")
           \/ ~valid /\ Reply(p, "401") /\ UNCHANGED storing
           \/ Reply(p, "gone") /\ UNCHANGED storing
        /\ UNCHANGED <<now, signed, expiresAt, layers, cached, deleting>>

\* ctx.Next(): the handler behind the middleware runs.
Serve(p) ==
    /\ pc[p] = "serving"
    /\ Reply(p, "served")
    /\ UNCHANGED <<now, signed, expiresAt, layers, cached, background>>
-----------------------------------------------------------------------------
\* Variant: the layer of a longer key.
CacheValidClaimsThrice(t) ==
    /\ storing[t] > 0
    /\ storing' = [storing EXCEPT ![t] = @ - 1]
    /\ cached' = [cached EXCEPT ![t] =
                    [layers |-> layers + 2, until |-> now + CacheTTL]]
    /\ UNCHANGED <<now, signed, expiresAt, layers, deleting, pc, job, answer>>

\* cacheValidClaims: five minutes from now, whenever the token expires.  If
\* Redis refuses it, nothing is stored.
CacheValidClaims(t) ==
    /\ storing[t] > 0
    /\ storing' = [storing EXCEPT ![t] = @ - 1]
    /\ \/ cached' = [cached EXCEPT ![t] =
                       [layers |-> layers, until |-> now + CacheTTL]]
       \/ UNCHANGED cached
    /\ UNCHANGED <<now, signed, expiresAt, layers, deleting, pc, job, answer>>

DeleteClaims(t) ==
    /\ deleting[t] > 0
    /\ deleting' = [deleting EXCEPT ![t] = @ - 1]
    /\ cached' \in {cached, [cached EXCEPT ![t] = NoEntry]}
    /\ UNCHANGED <<now, signed, expiresAt, layers, storing, pc, job, answer>>

\* The process dies with its request; its goroutines may have run or not,
\* which the two actions above leave open.
Restart(p) ==
    /\ Reply(p, "none")
    /\ UNCHANGED <<now, signed, expiresAt, layers, cached, background>>

Tick ==
    /\ now < MaxNow
    /\ now' = now + 1
    /\ UNCHANGED <<signed, expiresAt, layers, cached, background,
                   pc, job, answer>>
-----------------------------------------------------------------------------
Step(p) == Lookup(p) \/ CheckCached(p) \/ ValidateJWT(p) \/ Serve(p)

Next ==
    \/ \E t \in Tokens :
          GenerateJWT(t) \/ CacheValidClaims(t) \/ DeleteClaims(t)
    \/ \E p \in Replicas : Step(p) \/ Restart(p)
    \/ \E p \in Replicas, t \in Tokens : Arrive(p, t)
    \/ Tick

Spec == Init /\ [][Next]_vars
-----------------------------------------------------------------------------
Labels == {"idle", "lookup", "checkCached", "validate", "serving"}

\* Every variable has its type.
TypeOK ==
    /\ now \in Nat
    /\ signed \subseteq Tokens
    /\ expiresAt \in [Tokens -> Nat]
    /\ layers \in StoredLayers
    /\ cached \in [Tokens -> [layers : {0} \cup StoredLayers, until : Nat]]
    /\ storing \in [Tokens -> Nat]
    /\ deleting \in [Tokens -> Nat]
    /\ pc \in [Replicas -> Labels]
    /\ job \in [Replicas -> [token : Tokens \cup {NoToken}, since : Nat]]
    /\ answer \in [Replicas -> {"none", "served", "401", "500", "gone"}]

\* A request that came when its token had expired, or with one that was never
\* signed, gets to no handler: neither through an entry that outlives the
\* token nor through a goroutine that stores it late (handleCachedAuth checks
\* the expiry but not the signature).
OnlyValidServed ==
    \A p \in Replicas : pc[p] = "serving" =>
        /\ job[p].token \in signed
        /\ job[p].since < expiresAt[job[p].token]

\* A goroutine that deletes an entry, however late it runs, deletes claims
\* that had expired: it cannot undo what a later validation stores.
DeletesAreHarmless == \A t \in Tokens : deleting[t] > 0 => Expired(t)

\* A 401 means that the token is not good, and a token that was never signed
\* never makes the middleware panic.
RefusedForAReason ==
    [][\A p \in Replicas : pc[p] # "idle" /\ pc'[p] = "idle" =>
        LET t == job[p].token IN
        /\ answer'[p] = "401" => t \notin signed \/ Expired(t)
        /\ answer'[p] = "500" => t \in signed /\ layers = 1
      ]_vars
=============================================================================
