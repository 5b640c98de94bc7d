----------------------------- MODULE UsersTables -----------------------------
(***************************************************************************)
(* The Postgres tables behind the users service and the replicas of the    *)
(* process that work on them.                                              *)
(*                                                                         *)
(* One replica runs one HTTP handler at a time: LimitRequestsMiddleware    *)
(* holds the tracker's mutex through ctx.Next().  So a replica is a        *)
(* process with one pc and one job, and interleaving comes from replicas.  *)
(* Every handler is a sequence of transactions; each step below is one     *)
(* transaction, or the read and the commit of one transaction that another *)
(* replica may come between (the isolation level is READ COMMITTED).       *)
(*                                                                         *)
(* A user is identified with its mail, which is unique in the users table. *)
(***************************************************************************)
EXTENDS Integers, FiniteSets

CONSTANTS
    Users,          \* mails; a row of the users table exists for some of them
    Tokens,         \* device fingerprints
    Codes,          \* values GenerateRandomCode can return
    Passwords,      \* password hashes
    Replicas,       \* running copies of the service
    NoUser, NoToken, NoCode, NoPassword,
    Operations,     \* the service operations clients call
    CodeLifetime,   \* lifetime of a second factor code
    MaxNow          \* bound on the clock

ASSUME NullsAssumption ==
    /\ NoUser \notin Users
    /\ NoToken \notin Tokens
    /\ NoCode \notin Codes
    /\ NoPassword \notin Passwords

ASSUME ClockAssumption == CodeLifetime \in Nat /\ MaxNow \in Nat

VARIABLES
    users,          \* row of the users table joined with its user_settings
    activationCode, \* activation_codes: the code an account owns
    resetCode,      \* reset_codes
    secondFactor,   \* second_factor_codes
    devices,        \* user_devices: number of rows per owner and token
    sessions,       \* signed JWTs handed out so far (history)
    now,            \* wall clock
    started,        \* when each replica's process started
    pc,             \* what each replica does next
    job,            \* locals of the handler a replica runs
    answer          \* how its last handler ended

tables == <<users, activationCode, resetCode, secondFactor, devices>>
clock == <<now, started>>
vars == <<users, activationCode, resetCode, secondFactor, devices, sessions,
          now, started, pc, job, answer>>
-----------------------------------------------------------------------------
MaybeCode == Codes \cup {NoCode}

UserRow == [exists : BOOLEAN, active : BOOLEAN, removed : BOOLEAN,
            twoFactor : BOOLEAN, password : Passwords \cup {NoPassword}]

AbsentRow == [exists |-> FALSE, active |-> FALSE, removed |-> FALSE,
              twoFactor |-> FALSE, password |-> NoPassword]

SecondFactorRow == [code : MaybeCode, token : Tokens \cup {NoToken},
                    expiresAt : Nat]

NoSecondFactor == [code |-> NoCode, token |-> NoToken, expiresAt |-> 0]

Session == [user : Users, token : Tokens, via : {"password", "second-factor"}]

\* The locals that survive from one transaction of a handler to the next: the
\* user loaded, the code (given or drawn), device, password and 2FA flag.
Job == [user : Users \cup {NoUser}, code : MaybeCode,
        token : Tokens \cup {NoToken}, password : Passwords \cup {NoPassword},
        twoFactor : BOOLEAN]

NoJob == [user |-> NoUser, code |-> NoCode, token |-> NoToken,
          password |-> NoPassword, twoFactor |-> FALSE]

\* "ok": the service call returned no error; "err": it returned one (422);
\* "panic": it dereferenced nil and gin's recovery answered 500.
Answers == {"none", "ok", "err", "panic"}
-----------------------------------------------------------------------------
\* Variant: the loaders forget the removed flag.
VisibleRemoved(u) == users[u].exists

\* What every loader filters on (blacklisted is never set by this code).
Visible(u) == users[u].exists /\ ~users[u].removed

\* Query().Where(CodeEQ(c)).Exist() over the committed rows of a code table.
InUse(table, c) == \E u \in Users : table[u] = c

SecondFactorInUse(c) == \E u \in Users : secondFactor[u].code = c

\* The loaders by code: the users they find, none if the code is nobody's.
GetUserByActivationCode(c) ==
    {u \in Users : Visible(u) /\ activationCode[u] = c}

GetUserBySecondFactor(c) == {u \in Users : Visible(u) /\ secondFactor[u].code = c}

GetUserByResetCode(c) == {u \in Users : Visible(u) /\ resetCode[u] = c}

\* Variant: the lifetime is subtracted.
DefaultExpiryBackwards(p) == started[p] - CodeLifetime

\* expires_at is Default(time.Now().UTC().Add(5 min)): a value computed once,
\* when the schema package is initialised, and not a function of the row.
DefaultExpiry(p) == started[p] + CodeLifetime

\* Leave for another step of the same handler, or end it with an answer.
Goto(p, label, j) ==
    /\ pc' = [pc EXCEPT ![p] = label]
    /\ job' = [job EXCEPT ![p] = j]
    /\ UNCHANGED answer

Reply(p, a) ==
    /\ pc' = [pc EXCEPT ![p] = "idle"]
    /\ job' = [job EXCEPT ![p] = NoJob]
    /\ answer' = [answer EXCEPT ![p] = a]

\* What producing an event answers.  Every loader loads the owner with the
\* settings, so createAndProduceEvent comes to Produce, and that may refuse.
Produced == {"ok", "err"}

\* The code is dereferenced without a check.
CreateRegistrationEvent(c) == IF c = NoCode THEN {"panic"} ELSE Produced

\* The account never has a verification code: the dereference is fatal.
CreateVerificationEvent == {"panic"}

CreateNotificationEvent == Produced

\* These two need the second factor target of the settings, and no loader
\* loads it.
CreateSecondFactorEvent == {"err"}

CreateResetPasswordEvent == {"err"}

\* A handler may start: the replica is free and clients call the operation.
Starts(p, op) == pc[p] = "idle" /\ op \in Operations

\* UserAuthenticationMiddleware lets in the bearer of a token signed for u.
Authenticated(u) == \E s \in sessions : s.user = u

\* BeginTx, a statement or Commit fails: WithTransaction rolls back, the
\* repository returns the error and the service call returns it too.  If the
\* UPDATE of RemoveAccount fails it logs the id of the user it shadowed, nil.
\* The clean-ups of the second factor and the reset code fail in every case.
TransactionSteps ==
    {"pickActivation", "createUser", "activate", "findDevice", "createDevice",
     "pickSecondFactor", "createSecondFactor", "pickReset", "createReset",
     "updatePassword", "removeAccount", "saveSettings"}

TransactionFails(p) ==
    /\ pc[p] \in TransactionSteps
    /\ \/ Reply(p, "err")
       \/ pc[p] = "removeAccount" /\ Reply(p, "panic")
    /\ UNCHANGED <<tables, clock, sessions>>

\* The process dies between two transactions and a new one takes its place.
Restart(p) ==
    /\ pc' = [pc EXCEPT ![p] = "idle"]
    /\ job' = [job EXCEPT ![p] = NoJob]
    /\ answer' = [answer EXCEPT ![p] = "none"]
    /\ started' = [started EXCEPT ![p] = now]
    /\ UNCHANGED <<tables, now, sessions>>

Tick ==
    /\ now < MaxNow
    /\ now' = now + 1
    /\ UNCHANGED <<tables, started, sessions, pc, job, answer>>
-----------------------------------------------------------------------------
TablesInit ==
    /\ users = [u \in Users |-> AbsentRow]
    /\ activationCode = [u \in Users |-> NoCode]
    /\ resetCode = [u \in Users |-> NoCode]
    /\ secondFactor = [u \in Users |-> NoSecondFactor]
    /\ devices = [u \in Users |-> [t \in Tokens |-> 0]]
    /\ sessions = {}

ReplicasInit ==
    /\ now = 0
    /\ started = [p \in Replicas |-> 0]
    /\ pc = [p \in Replicas |-> "idle"]
    /\ job = [p \in Replicas |-> NoJob]
    /\ answer = [p \in Replicas |-> "none"]
=============================================================================
