----------------------------- MODULE AuthService -----------------------------
(***************************************************************************)
(* The account operations of the service together: every replica runs one  *)
(* of the handlers of Registration, SignIn and PasswordReset at a time,    *)
(* all of them on the same tables.                                         *)
(***************************************************************************)
EXTENDS Registration, SignIn, PasswordReset

\* The operations of AuthService and the two of UsersService on the account.
AllOperations ==
    {"Register", "ResendActivationCode", "ActivateAccount", "RemoveAccount",
     "UpdateSettings", "Login", "ResendSecondFactorCode",
     "VerifySecondFactor", "VerifyAccount", "ResendVerificationCode",
     "RequestPasswordReset", "ResendResetCode", "CancelPasswordReset",
     "ConfirmPasswordReset"}

\* Which operation the router calls for which documented endpoint.
Route ==
    [endpoint \in AllOperations \ {"ResendSecondFactorCode",
                                   "VerifySecondFactor"} |->
        IF endpoint \in {"CancelPasswordReset", "ConfirmPasswordReset",
                         "ResendResetCode"}
        THEN "RequestPasswordReset" ELSE endpoint]

RoutedOperations == {Route[endpoint] : endpoint \in DOMAIN Route}

ASSUME OperationsAssumption == Operations \subseteq AllOperations
-----------------------------------------------------------------------------
Init == TablesInit /\ ReplicasInit

\* A client calls an operation on a free replica.
Call(p) == RegistrationCall(p) \/ SignInCall(p) \/ PasswordResetCall(p)

\* A replica goes on with the handler it runs.
Step(p) == RegistrationStep(p) \/ SignInStep(p) \/ PasswordResetStep(p)

Next ==
    \/ \E p \in Replicas : Call(p) \/ Step(p)
    \/ \E p \in Replicas : TransactionFails(p) \/ Restart(p)
    \/ Tick

Spec == Init /\ [][Next]_vars

\* The runtime schedules the goroutine of a request it has accepted until the
\* handler returns; nobody is obliged to call, to fail or to restart.
FairSpec == Spec /\ \A p \in Replicas : WF_vars(Step(p))
-----------------------------------------------------------------------------
Steps == TransactionSteps \cup
    {"idle", "signLogin", "signSecondFactor", "removeSecondFactor",
     "removeResetCode"}

LoginSteps ==
    {"findDevice", "createDevice", "signLogin", "pickSecondFactor",
     "createSecondFactor", "signSecondFactor", "removeSecondFactor"}

\* Every variable has its type.
TypeOK ==
    /\ users \in [Users -> UserRow]
    /\ activationCode \in [Users -> MaybeCode]
    /\ resetCode \in [Users -> MaybeCode]
    /\ secondFactor \in [Users -> SecondFactorRow]
    /\ devices \in [Users -> [Tokens -> Nat]]
    /\ sessions \subseteq Session
    /\ now \in Nat
    /\ started \in [Replicas -> Nat]
    /\ pc \in [Replicas -> Steps]
    /\ job \in [Replicas -> Job]
    /\ answer \in [Replicas -> Answers]

\* An activation code is spent by the activation: no account is active and
\* still owns one, although two replicas may activate with it at once and the
\* code is deleted by its value (ActivateAccount).
ActivationCodeSpent ==
    \A u \in Users : users[u].active => activationCode[u] = NoCode

\* A pending second factor belongs to an account that was activated and names
\* a device of that account: VerifySecondFactor signs for that device without
\* looking at either (Login, CreateSecondFactorCode, VerifySecondFactor).
SecondFactorBacked ==
    \A u \in Users : secondFactor[u] # NoSecondFactor =>
        /\ users[u].active
        /\ secondFactor[u].token \in Tokens
        /\ devices[u][secondFactor[u].token] > 0

\* A JWT is only ever signed for a device row of an account that was
\* activated, on whatever path it was signed (GenerateJWT's callers).
SessionBacked ==
    \A s \in sessions : users[s.user].active /\ devices[s.user][s.token] > 0

\* A handler acts on what it loaded transactions ago, and what it relies on is
\* still there: the account it activates owns that code or none, a login works
\* on an account that was activated and for a device row of it, a password is
\* changed under a reset code, and only a signed-in account is removed.
HandlerBacked(p) ==
    LET u == job[p].user
        t == job[p].token
    IN  /\ pc[p] # "idle" => u \in Users
        /\ pc[p] \in {"pickActivation", "createUser"} \cup LoginSteps =>
              t \in Tokens
        /\ pc[p] = "activate" =>
              users[u].exists /\ activationCode[u] \in {job[p].code, NoCode}
        /\ pc[p] \in LoginSteps => users[u].active
        /\ pc[p] \in LoginSteps \ {"findDevice", "createDevice"} =>
              devices[u][t] > 0
        /\ pc[p] \in {"updatePassword", "removeResetCode"} =>
              users[u].exists /\ resetCode[u] # NoCode
        /\ pc[p] \in {"removeAccount", "saveSettings"} =>
              users[u].active /\ Authenticated(u)

HandlersBacked == \A p \in Replicas : HandlerBacked(p)

\* A password only changes while a reset code of the account exists: between
\* the lookup by the code and the update nothing takes the code away
\* (ConfirmPasswordReset, CancelPasswordReset).
PasswordChangeNeedsCode ==
    [][\A u \in Users :
        users[u].exists /\ users'[u].password # users[u].password
            => resetCode[u] # NoCode]_vars

\* The service moves every account through its life as AccountLifecycle says.
Lifecycle ==
    INSTANCE AccountLifecycle WITH
        status <- [u \in Users |->
            IF ~users[u].exists THEN "absent"
            ELSE IF users[u].removed THEN "removed"
            ELSE IF users[u].active THEN "active" ELSE "pending"],
        signedIn <- {s.user : s \in sessions}

LifecycleSpec == Lifecycle!Spec

\* Every accepted request is answered (or its process dies): no handler draws
\* codes for ever or waits for another one.
EveryRequestAnswered ==
    \A p \in Replicas : pc[p] # "idle" ~> pc[p] = "idle"
-----------------------------------------------------------------------------
(* What only a single replica guarantees: the tracker's mutex makes its    *)
(* handlers run one after the other.                                       *)

\* A device of a user is one row (FindOrCreateDevice).
DeviceUnique == \A u \in Users, t \in Tokens : devices[u][t] <= 1

\* An account that waits for its activation owns the code to activate it with
\* (CreateUser, ActivateAccount).
PendingAccountHasCode ==
    \A u \in Users :
        users[u].exists /\ ~users[u].active => activationCode[u] # NoCode

\* Nothing of a removed account changes any more, and no session is opened
\* for it (RemoveAccount).
RemovedIsFrozen ==
    [][\A u \in Users : users[u].removed =>
        /\ users'[u] = users[u]
        /\ UNCHANGED <<activationCode[u], resetCode[u], secondFactor[u],
                       devices[u]>>
        /\ {s \in sessions' : s.user = u} = {s \in sessions : s.user = u}
      ]_vars

\* A login without a second factor ends in a session only if, when the token
\* is signed, the account still has the password that was checked and still
\* does without a second factor (Login signs on what it loaded first).
PasswordLoginCurrent ==
    [][\A p \in Replicas :
        pc[p] = "signLogin" /\ answer'[p] = "ok" /\ pc'[p] = "idle" =>
            LET row == users[job[p].user]
            IN  row.password = job[p].password /\ ~row.twoFactor]_vars
=============================================================================
