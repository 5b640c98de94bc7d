-------------------------- MODULE AuthServiceProofs --------------------------
(***************************************************************************)
(* The safety properties of AuthService for any number of users, devices,  *)
(* codes, passwords and replicas.                                          *)
(*                                                                         *)
(* None of them is inductive alone: a step writes what its handler loaded  *)
(* in an earlier transaction.  The invariant Inv adds what handlers in     *)
(* flight rely on (HandlersBacked).  That part survives the steps of other *)
(* replicas because the tables only ever move forward (TablesAdvance): no  *)
(* handler takes back what another one may have read.                      *)
(***************************************************************************)
EXTENDS AuthService, TLAPS

\* A row says active only of an account that exists, and removed only of one
\* that was active.
RowsOrdered ==
    \A u \in Users :
        /\ users[u].active => users[u].exists
        /\ users[u].removed => users[u].active

TablesBacked ==
    RowsOrdered /\ ActivationCodeSpent /\ SecondFactorBacked /\ SessionBacked

Inv == TypeOK /\ TablesBacked /\ HandlersBacked

\* What a step may do to the tables as a handler elsewhere sees them.
TablesAdvance ==
    /\ \A u \in Users :
        /\ users[u].exists => users'[u].exists
        /\ users[u].active => users'[u].active
        /\ users[u].exists => activationCode'[u] \in {activationCode[u], NoCode}
        /\ resetCode[u] # NoCode => resetCode'[u] # NoCode
        /\ \A t \in Tokens : devices'[u][t] >= devices[u][t]
    /\ sessions \subseteq sessions'

\* A step of p leaves the other replicas where they are.
OnlyMoves(p) ==
    \A q \in Replicas \ {p} : pc'[q] = pc[q] /\ job'[q] = job[q]

\* What is shown of every step.
Advances(p) ==
    TypeOK' /\ TablesBacked' /\ TablesAdvance /\ OnlyMoves(p) /\ HandlerBacked(p)'
-----------------------------------------------------------------------------
\* The tables and handlers start empty (TablesInit, ReplicasInit).
LEMMA InitInv == Init => Inv
  <1> SUFFICES ASSUME Init PROVE Inv
    OBVIOUS
  <1> USE NullsAssumption DEF Init, TablesInit, ReplicasInit
  <1>1. TypeOK
    BY DEF TypeOK, MaybeCode, UserRow, AbsentRow, SecondFactorRow,
           NoSecondFactor, Session, Job, NoJob, Answers, Steps
  <1>2. TablesBacked
    BY DEF TablesBacked, RowsOrdered, ActivationCodeSpent, SecondFactorBacked,
           SessionBacked, AbsentRow
  <1>3. HandlersBacked
    BY DEF HandlersBacked, HandlerBacked, LoginSteps
  <1> QED
    BY <1>1, <1>2, <1>3 DEF Inv

\* What a handler relies on survives every step of another replica.
LEMMA HandlerKept ==
    ASSUME NEW q \in Replicas, TypeOK, HandlerBacked(q), TablesAdvance,
           TypeOK', pc'[q] = pc[q], job'[q] = job[q]
    PROVE  HandlerBacked(q)'
  <1> DEFINE u == job[q].user
             t == job[q].token
  <1>1. pc[q] # "idle" => u \in Users
    BY DEF HandlerBacked
  <1>2. pc[q] \in {"pickActivation", "createUser"} \cup LoginSteps => t \in Tokens
    BY DEF HandlerBacked
  <1>3. pc[q] = "activate" =>
            users'[u].exists /\ activationCode'[u] \in {job[q].code, NoCode}
    BY <1>1 DEF HandlerBacked, TablesAdvance
  <1>4. pc[q] \in LoginSteps => users'[u].active
    BY <1>1 DEF HandlerBacked, TablesAdvance, LoginSteps
  <1>5. pc[q] \in LoginSteps \ {"findDevice", "createDevice"} => devices'[u][t] > 0
    <2> SUFFICES ASSUME pc[q] \in LoginSteps \ {"findDevice", "createDevice"}
                 PROVE  devices'[u][t] > 0
      OBVIOUS
    <2>1. u \in Users /\ t \in Tokens
      BY <1>1, <1>2 DEF LoginSteps
    <2>2. devices[u][t] > 0 /\ devices'[u][t] >= devices[u][t]
      BY <2>1 DEF HandlerBacked, TablesAdvance
    <2>3. devices[u][t] \in Nat /\ devices'[u][t] \in Nat
      BY <2>1 DEF TypeOK
    <2> QED
      BY <2>2, <2>3
  <1>6. pc[q] \in {"updatePassword", "removeResetCode"} =>
            users'[u].exists /\ resetCode'[u] # NoCode
    BY <1>1 DEF HandlerBacked, TablesAdvance
  <1>7. pc[q] \in {"removeAccount", "saveSettings"} =>
            users'[u].active /\ Authenticated(u)'
    BY <1>1 DEF HandlerBacked, TablesAdvance, Authenticated
  <1> QED
    BY <1>1, <1>2, <1>3, <1>4, <1>5, <1>6, <1>7 DEF HandlerBacked, Authenticated
-----------------------------------------------------------------------------
\* The type of the variables of the replicas.
HandlersTyped ==
    /\ pc \in [Replicas -> Steps]
    /\ job \in [Replicas -> Job]
    /\ answer \in [Replicas -> Answers]

\* A replica that answers relies on nothing any more.
LEMMA ReplyMoves ==
    ASSUME NEW p \in Replicas, NEW a \in Answers, TypeOK, Reply(p, a)
    PROVE  HandlersTyped' /\ OnlyMoves(p) /\ HandlerBacked(p)'
  <1>1. NoJob \in Job
    BY DEF NoJob, Job, MaybeCode
  <1>2. pc'[p] = "idle" /\ HandlersTyped' /\ OnlyMoves(p)
    BY <1>1 DEF TypeOK, Reply, HandlersTyped, OnlyMoves, Steps
  <1>3. HandlerBacked(p)'
    BY <1>2 DEF HandlerBacked, LoginSteps
  <1> QED
    BY <1>2, <1>3

LEMMA GotoMoves ==
    ASSUME NEW p \in Replicas, NEW label \in Steps, NEW j \in Job, TypeOK,
           Goto(p, label, j)
    PROVE  HandlersTyped' /\ OnlyMoves(p) /\ pc'[p] = label /\ job'[p] = j
  BY DEF TypeOK, Goto, HandlersTyped, OnlyMoves

\* A step that only reads keeps what is stored as it is.
LEMMA ReadOnly ==
    ASSUME Inv, UNCHANGED <<tables, clock, sessions>>, HandlersTyped'
    PROVE  TypeOK' /\ TablesBacked' /\ TablesAdvance
  <1>1. TypeOK'
    BY DEF Inv, TypeOK, HandlersTyped, tables, clock
  <1>2. TablesBacked'
    BY DEF Inv, TablesBacked, RowsOrdered, ActivationCodeSpent,
           SecondFactorBacked, SessionBacked, tables
  <1>3. TablesAdvance
    BY DEF Inv, TypeOK, TablesAdvance, tables
  <1> QED
    BY <1>1, <1>2, <1>3

LEMMA ReadAndReply ==
    ASSUME Inv, NEW p \in Replicas, NEW a \in Answers, Reply(p, a),
           UNCHANGED <<tables, clock, sessions>>
    PROVE  Advances(p)
  <1>1. HandlersTyped' /\ OnlyMoves(p) /\ HandlerBacked(p)'
    BY ReplyMoves DEF Inv
  <1> QED
    BY <1>1, ReadOnly DEF Advances

LEMMA ReadAndGoto ==
    ASSUME Inv, NEW p \in Replicas, NEW label \in Steps, NEW j \in Job,
           Goto(p, label, j), UNCHANGED <<tables, clock, sessions>>,
           pc'[p] = label /\ job'[p] = j => HandlerBacked(p)'
    PROVE  Advances(p)
  <1>1. HandlersTyped' /\ OnlyMoves(p) /\ HandlerBacked(p)'
    BY GotoMoves DEF Inv
  <1> QED
    BY <1>1, ReadOnly DEF Advances
-----------------------------------------------------------------------------
LEMMA CreateUserAdvances ==
    ASSUME Inv, NEW p \in Replicas, CreateUser(p)
    PROVE  Advances(p)
  <1> DEFINE j == job[p]
  <1>1. CASE users[j.user].exists \/ InUse(activationCode, j.code)
    BY <1>1, ReadAndReply DEF CreateUser, Answers
  <1>2. CASE ~users[j.user].exists /\ ~InUse(activationCode, j.code)
    <2>1. /\ j.user \in Users /\ j.token \in Tokens
          /\ j.code \in MaybeCode /\ j.password \in Passwords \cup {NoPassword}
      BY DEF CreateUser, Inv, HandlersBacked, HandlerBacked, TypeOK, Job
    <2> DEFINE row == [AbsentRow EXCEPT !.exists = TRUE, !.password = j.password]
    <2>2. /\ users' = [users EXCEPT ![j.user] = row]
          /\ activationCode' = [activationCode EXCEPT ![j.user] = j.code]
          /\ devices' = [devices EXCEPT ![j.user][j.token] = @ + 1]
          /\ UNCHANGED <<resetCode, secondFactor, clock, sessions>>
          /\ Reply(p, "ok")
      BY <1>2 DEF CreateUser
    <2>3. HandlersTyped' /\ OnlyMoves(p) /\ HandlerBacked(p)'
      BY <2>2, ReplyMoves DEF Inv, Answers
    <2>4. row \in UserRow /\ row.exists /\ ~row.active /\ ~row.removed
      BY <2>1 DEF AbsentRow, UserRow
    <2>5. TypeOK /\ TablesBacked
      BY DEF Inv
    <2>6. \A u \in Users, t \in Tokens :
              devices'[u][t] \in Nat /\ devices'[u][t] >= devices[u][t]
      BY <2>1, <2>2, <2>5 DEF TypeOK
    <2>7. TypeOK'
      <3>1. devices' \in [Users -> [Tokens -> Nat]]
        BY <2>1, <2>2, <2>5 DEF TypeOK
      <3>2. users' \in [Users -> UserRow] /\ activationCode' \in [Users -> MaybeCode]
        BY <2>1, <2>2, <2>4, <2>5 DEF TypeOK
      <3> QED
        BY <3>1, <3>2, <2>2, <2>3, <2>5 DEF TypeOK, HandlersTyped, clock
    <2>8. ~users[j.user].active
      BY <1>2, <2>1, <2>5 DEF TablesBacked, RowsOrdered
    <2>9. TablesAdvance
      BY <1>2, <2>1, <2>2, <2>4, <2>5, <2>6, <2>8 DEF TablesAdvance, TypeOK
    <2>10. TablesBacked'
      <3>1. RowsOrdered' /\ ActivationCodeSpent'
        BY <2>1, <2>2, <2>4, <2>5
           DEF TypeOK, TablesBacked, RowsOrdered, ActivationCodeSpent
      <3>2. SecondFactorBacked'
        BY <2>1, <2>2, <2>4, <2>5, <2>6, <2>8
           DEF TypeOK, TablesBacked, SecondFactorBacked
      <3>3. SessionBacked'
        BY <2>1, <2>2, <2>4, <2>5, <2>6, <2>8
           DEF TypeOK, TablesBacked, SessionBacked, Session
      <3> QED
        BY <3>1, <3>2, <3>3 DEF TablesBacked
    <2> QED
      BY <2>3, <2>7, <2>9, <2>10 DEF Advances
  <1> QED
    BY <1>1, <1>2

LEMMA ActivateCommitAdvances ==
    ASSUME Inv, NEW p \in Replicas, ActivateCommit(p)
    PROVE  Advances(p)
  <1> DEFINE j == job[p]
  <1>1. CASE ~Visible(j.user)
    BY <1>1, ReadAndReply DEF ActivateCommit, Answers
  <1>2. CASE Visible(j.user)
    <2>1. TypeOK /\ TablesBacked /\ j.user \in Users
      BY DEF ActivateCommit, Inv, HandlersBacked, HandlerBacked
    <2>2. /\ users' = [users EXCEPT ![j.user].active = TRUE]
          /\ activationCode' =
               [u \in Users |-> IF activationCode[u] = j.code
                                THEN NoCode ELSE activationCode[u]]
          /\ UNCHANGED <<resetCode, secondFactor, devices, clock, sessions>>
          /\ Reply(p, "ok")
      BY <1>2 DEF ActivateCommit
    <2>3. HandlersTyped' /\ OnlyMoves(p) /\ HandlerBacked(p)'
      BY <2>2, ReplyMoves DEF Inv, Answers
    <2>4. /\ users[j.user].exists
          /\ activationCode[j.user] \in {j.code, NoCode}
      BY DEF ActivateCommit, Inv, HandlersBacked, HandlerBacked
    <2>5. TypeOK'
      <3>1. users' \in [Users -> UserRow] /\ activationCode' \in [Users -> MaybeCode]
        BY <2>1, <2>2 DEF TypeOK, UserRow, MaybeCode
      <3> QED
        BY <3>1, <2>1, <2>2, <2>3 DEF TypeOK, HandlersTyped, clock
    <2>6. TablesAdvance
      BY <2>1, <2>2 DEF TablesAdvance, TypeOK, UserRow
    <2>7. RowsOrdered' /\ ActivationCodeSpent'
      BY <2>1, <2>2, <2>4
         DEF TypeOK, UserRow, TablesBacked, RowsOrdered, ActivationCodeSpent
    <2>8. SecondFactorBacked' /\ SessionBacked'
      BY <2>1, <2>2 DEF TypeOK, UserRow, TablesBacked, SecondFactorBacked,
                        SessionBacked, Session
    <2> QED
      BY <2>3, <2>5, <2>6, <2>7, <2>8 DEF Advances, TablesBacked
  <1> QED
    BY <1>1, <1>2

LEMMA MarkRemovedAdvances ==
    ASSUME Inv, NEW p \in Replicas, MarkRemoved(p)
    PROVE  Advances(p)
  <1> DEFINE j == job[p]
  <1>1. TypeOK /\ TablesBacked /\ j.user \in Users /\ users[j.user].active
    BY DEF MarkRemoved, Inv, HandlersBacked, HandlerBacked
  <1>2. /\ users' = [users EXCEPT ![j.user].removed = TRUE]
        /\ UNCHANGED <<activationCode, resetCode, secondFactor, devices, clock,
                       sessions>>
    BY DEF MarkRemoved
  <1>3. HandlersTyped' /\ OnlyMoves(p) /\ HandlerBacked(p)'
    <2>1. PICK a \in {"ok", "err"} : Reply(p, a)
      BY DEF MarkRemoved, CreateNotificationEvent, Produced
    <2> QED
      BY <1>1, <2>1, ReplyMoves DEF Answers
  <1>4. users' \in [Users -> UserRow]
    BY <1>1, <1>2 DEF TypeOK, UserRow
  <1>5. TypeOK'
    BY <1>1, <1>2, <1>3, <1>4 DEF TypeOK, HandlersTyped, clock
  <1>6. TablesAdvance
    BY <1>1, <1>2 DEF TablesAdvance, TypeOK, UserRow
  <1>7. TablesBacked'
    BY <1>1, <1>2 DEF TypeOK, UserRow, TablesBacked, RowsOrdered,
       ActivationCodeSpent, SecondFactorBacked, SessionBacked, Session
  <1> QED
    BY <1>3, <1>5, <1>6, <1>7 DEF Advances

LEMMA SaveSettingsAdvances ==
    ASSUME Inv, NEW p \in Replicas, SaveSettings(p)
    PROVE  Advances(p)
  <1> DEFINE j == job[p]
  <1>1. TypeOK /\ TablesBacked /\ j.user \in Users /\ j.twoFactor \in BOOLEAN
    BY DEF SaveSettings, Inv, HandlersBacked, HandlerBacked, TypeOK, Job
  <1>2. /\ users' = [users EXCEPT ![j.user].twoFactor = j.twoFactor]
        /\ UNCHANGED <<activationCode, resetCode, secondFactor, devices, clock,
                       sessions>>
    BY DEF SaveSettings
  <1>3. HandlersTyped' /\ OnlyMoves(p) /\ HandlerBacked(p)'
    <2>1. PICK a \in {"ok", "err", "panic"} : Reply(p, a)
      BY DEF SaveSettings, CreateNotificationEvent, Produced
    <2> QED
      BY <1>1, <2>1, ReplyMoves DEF Answers
  <1>4. users' \in [Users -> UserRow]
    BY <1>1, <1>2 DEF TypeOK, UserRow
  <1>5. TypeOK'
    BY <1>1, <1>2, <1>3, <1>4 DEF TypeOK, HandlersTyped, clock
  <1>6. TablesAdvance
    BY <1>1, <1>2 DEF TablesAdvance, TypeOK, UserRow
  <1>7. TablesBacked'
    BY <1>1, <1>2 DEF TypeOK, UserRow, TablesBacked, RowsOrdered,
       ActivationCodeSpent, SecondFactorBacked, SessionBacked, Session
  <1> QED
    BY <1>3, <1>5, <1>6, <1>7 DEF Advances

LEMMA UpdatePasswordAdvances ==
    ASSUME Inv, NEW p \in Replicas, UpdatePassword(p)
    PROVE  Advances(p)
  <1> DEFINE j == job[p]
  <1>1. /\ TypeOK /\ TablesBacked /\ j \in Job /\ j.user \in Users
        /\ users[j.user].exists /\ resetCode[j.user] # NoCode
    BY DEF UpdatePassword, Inv, HandlersBacked, HandlerBacked, TypeOK
  <1>2. /\ users' = [users EXCEPT ![j.user].password = j.password]
        /\ Goto(p, "removeResetCode", j)
        /\ UNCHANGED <<activationCode, resetCode, secondFactor, devices, clock,
                       sessions>>
    BY DEF UpdatePassword
  <1>3. /\ HandlersTyped' /\ OnlyMoves(p)
        /\ pc'[p] = "removeResetCode" /\ job'[p] = j
    BY <1>1, <1>2, GotoMoves DEF Steps
  <1>4. users' \in [Users -> UserRow]
    <2>1. j.password \in Passwords \cup {NoPassword}
      BY <1>1 DEF Job
    <2> QED
      BY <1>1, <1>2, <2>1 DEF TypeOK, UserRow
  <1>5. TypeOK'
    BY <1>1, <1>2, <1>3, <1>4 DEF TypeOK, HandlersTyped, clock
  <1>6. TablesAdvance
    BY <1>1, <1>2 DEF TablesAdvance, TypeOK, UserRow
  <1>7. TablesBacked'
    BY <1>1, <1>2 DEF TypeOK, UserRow, TablesBacked, RowsOrdered,
       ActivationCodeSpent, SecondFactorBacked, SessionBacked, Session
  <1>8. HandlerBacked(p)'
    BY <1>1, <1>2, <1>3, <1>6 DEF HandlerBacked, TablesAdvance, LoginSteps
  <1> QED
    BY <1>3, <1>5, <1>6, <1>7, <1>8 DEF Advances

LEMMA CreateResetAdvances ==
    ASSUME Inv, NEW p \in Replicas, CreateReset(p)
    PROVE  Advances(p)
  <1> DEFINE j == job[p]
  <1>1. /\ TypeOK /\ TablesBacked /\ j \in Job /\ j.user \in Users
    BY DEF CreateReset, Inv, HandlersBacked, HandlerBacked, TypeOK
  <1>2. HandlersTyped' /\ OnlyMoves(p) /\ HandlerBacked(p)'
    BY <1>1, ReplyMoves
       DEF CreateReset, CreateResetPasswordEvent, Answers
  <1>3. /\ UNCHANGED <<users, activationCode, secondFactor, devices, clock,
                       sessions>>
        /\ \/ UNCHANGED resetCode
           \/ /\ resetCode[j.user] = NoCode
              /\ resetCode' = [resetCode EXCEPT ![j.user] = j.code]
    BY DEF CreateReset
  <1>4. TypeOK'
    BY <1>1, <1>2, <1>3 DEF TypeOK, HandlersTyped, clock, Job
  <1>5. TablesAdvance
    BY <1>1, <1>3 DEF TablesAdvance, TypeOK
  <1>6. TablesBacked'
    BY <1>1, <1>3 DEF TypeOK, TablesBacked, RowsOrdered, ActivationCodeSpent,
       SecondFactorBacked, SessionBacked
  <1> QED
    BY <1>2, <1>4, <1>5, <1>6 DEF Advances

LEMMA CreateDeviceAdvances ==
    ASSUME Inv, NEW p \in Replicas, CreateDevice(p)
    PROVE  Advances(p)
  <1> DEFINE j == job[p]
  <1>1. CASE Reply(p, "panic") /\ UNCHANGED devices
    <2>1. UNCHANGED <<tables, clock, sessions>>
      BY <1>1 DEF CreateDevice, tables
    <2> QED
      BY <1>1, <2>1, ReadAndReply DEF Answers
  <1>2. CASE /\ devices' = [devices EXCEPT ![j.user][j.token] = @ + 1]
             /\ Goto(p, AfterDevice(j), j)
    <2>1. /\ TypeOK /\ TablesBacked /\ j \in Job /\ j.user \in Users
          /\ j.token \in Tokens /\ users[j.user].active
      BY DEF CreateDevice, Inv, HandlersBacked, HandlerBacked, TypeOK, LoginSteps
    <2>2. /\ devices' = [devices EXCEPT ![j.user][j.token] = @ + 1]
          /\ Goto(p, AfterDevice(j), j)
          /\ UNCHANGED <<users, activationCode, resetCode, secondFactor, clock,
                         sessions>>
      BY <1>2 DEF CreateDevice
    <2>3. AfterDevice(j) \in {"pickSecondFactor", "signLogin"}
      BY DEF AfterDevice
    <2>4. /\ HandlersTyped' /\ OnlyMoves(p)
          /\ pc'[p] = AfterDevice(j) /\ job'[p] = j
      BY <2>1, <2>2, <2>3, GotoMoves DEF Steps, TransactionSteps
    <2>5. \A u \in Users, t \in Tokens :
              devices'[u][t] \in Nat /\ devices'[u][t] >= devices[u][t]
      BY <2>1, <2>2 DEF TypeOK
    <2>6. devices' \in [Users -> [Tokens -> Nat]] /\ devices'[j.user][j.token] > 0
      BY <2>1, <2>2 DEF TypeOK
    <2>7. TypeOK'
      BY <2>1, <2>2, <2>4, <2>6 DEF TypeOK, HandlersTyped, clock
    <2>8. TablesAdvance
      BY <2>1, <2>2, <2>5 DEF TablesAdvance, TypeOK
    <2>9. TablesBacked'
      BY <2>1, <2>2, <2>5 DEF TypeOK, TablesBacked, RowsOrdered, Session,
         ActivationCodeSpent, SecondFactorBacked, SessionBacked
    <2>10. HandlerBacked(p)'
      BY <2>1, <2>2, <2>3, <2>4, <2>6 DEF HandlerBacked, LoginSteps
    <2> QED
      BY <2>4, <2>7, <2>8, <2>9, <2>10 DEF Advances
  <1> QED
    BY <1>1, <1>2 DEF CreateDevice

\* A new session of an active account on a device of it.
LEMMA SessionAdvances ==
    ASSUME Inv, NEW s \in Session, users[s.user].active,
           devices[s.user][s.token] > 0, sessions' = sessions \cup {s},
           UNCHANGED <<tables, clock>>, HandlersTyped'
    PROVE  TypeOK' /\ TablesBacked' /\ TablesAdvance
  <1>1. TypeOK'
    BY DEF Inv, TypeOK, HandlersTyped, tables, clock
  <1>2. TablesBacked'
    BY DEF Inv, TablesBacked, RowsOrdered, ActivationCodeSpent,
           SecondFactorBacked, SessionBacked, tables
  <1>3. TablesAdvance
    BY DEF Inv, TypeOK, TablesAdvance, tables
  <1> QED
    BY <1>1, <1>2, <1>3

LEMMA SignLoginAdvances ==
    ASSUME Inv, NEW p \in Replicas, SignLogin(p)
    PROVE  Advances(p)
  <1> DEFINE j == job[p]
             s == [user |-> j.user, token |-> j.token, via |-> "password"]
  <1>1. CASE Reply(p, "err") /\ UNCHANGED sessions
    BY <1>1, ReadAndReply DEF SignLogin, Answers
  <1>2. CASE Reply(p, "ok") /\ sessions' = sessions \cup {s}
    <2>1. /\ s \in Session
          /\ users[s.user].active /\ devices[s.user][s.token] > 0
      BY DEF SignLogin, Inv, HandlersBacked, HandlerBacked, LoginSteps, Session
    <2>2. HandlersTyped' /\ OnlyMoves(p) /\ HandlerBacked(p)'
      BY <1>2, ReplyMoves DEF Inv, Answers
    <2>3. UNCHANGED <<tables, clock>>
      BY DEF SignLogin
    <2> QED
      BY <1>2, <2>1, <2>2, <2>3, SessionAdvances DEF Advances
  <1> QED
    BY <1>1, <1>2 DEF SignLogin

LEMMA SignSecondFactorAdvances ==
    ASSUME Inv, NEW p \in Replicas, SignSecondFactor(p)
    PROVE  Advances(p)
  <1> DEFINE j == job[p]
             s == [user |-> j.user, token |-> j.token, via |-> "second-factor"]
  <1>1. CASE Reply(p, "err") /\ UNCHANGED sessions
    BY <1>1, ReadAndReply DEF SignSecondFactor, Answers
  <1>2. CASE Goto(p, "removeSecondFactor", j) /\ sessions' = sessions \cup {s}
    <2>1. /\ s \in Session /\ j \in Job /\ j.user \in Users /\ j.token \in Tokens
          /\ users[s.user].active /\ devices[s.user][s.token] > 0
      BY DEF SignSecondFactor, Inv, HandlersBacked, HandlerBacked, LoginSteps,
             Session, TypeOK
    <2>2. /\ HandlersTyped' /\ OnlyMoves(p)
          /\ pc'[p] = "removeSecondFactor" /\ job'[p] = j
      BY <1>2, <2>1, GotoMoves DEF Inv, Steps
    <2>3. UNCHANGED <<tables, clock>>
      BY DEF SignSecondFactor
    <2>4. HandlerBacked(p)'
      BY <2>1, <2>2, <2>3 DEF HandlerBacked, LoginSteps, tables
    <2> QED
      BY <1>2, <2>1, <2>2, <2>3, <2>4, SessionAdvances DEF Advances
  <1> QED
    BY <1>1, <1>2 DEF SignSecondFactor

LEMMA CreateSecondFactorAdvances ==
    ASSUME Inv, NEW p \in Replicas, CreateSecondFactor(p)
    PROVE  Advances(p)
  <1> DEFINE j == job[p]
             row == [code |-> j.code, token |-> j.token,
                     expiresAt |-> DefaultExpiry(p)]
  <1>1. /\ TypeOK /\ TablesBacked /\ j.user \in Users /\ j.token \in Tokens
        /\ j.code \in MaybeCode /\ users[j.user].active
        /\ devices[j.user][j.token] > 0
    BY DEF CreateSecondFactor, Inv, HandlersBacked, HandlerBacked, LoginSteps,
           TypeOK, Job
  <1>2. HandlersTyped' /\ OnlyMoves(p) /\ HandlerBacked(p)'
    BY <1>1, ReplyMoves
       DEF CreateSecondFactor, CreateSecondFactorEvent, Answers
  <1>3. /\ UNCHANGED <<users, activationCode, resetCode, devices, clock, sessions>>
        /\ \/ UNCHANGED secondFactor
           \/ secondFactor' = [secondFactor EXCEPT ![j.user] = row]
    BY DEF CreateSecondFactor
  <1>4. row \in SecondFactorRow /\ row.token = j.token
    BY <1>1, ClockAssumption DEF SecondFactorRow, DefaultExpiry, TypeOK
  <1>5. TypeOK'
    <2>1. secondFactor' \in [Users -> SecondFactorRow]
      BY <1>1, <1>3, <1>4 DEF TypeOK
    <2> QED
      BY <1>1, <1>2, <1>3, <2>1 DEF TypeOK, HandlersTyped, clock
  <1>6. TablesAdvance
    BY <1>1, <1>3 DEF TablesAdvance, TypeOK
  <1>7. SecondFactorBacked'
    BY <1>1, <1>3, <1>4 DEF TypeOK, TablesBacked, SecondFactorBacked
  <1>8. TablesBacked'
    BY <1>1, <1>3, <1>7 DEF TypeOK, TablesBacked, RowsOrdered,
       ActivationCodeSpent, SessionBacked
  <1> QED
    BY <1>2, <1>5, <1>6, <1>8 DEF Advances
-----------------------------------------------------------------------------
(* Steps that only read: they load what the next transaction relies on.    *)

LEMMA RegisterAdvances ==
    ASSUME Inv, NEW p \in Replicas, NEW u \in Users, NEW t \in Tokens,
           NEW w \in Passwords, Register(p, u, t, w)
    PROVE  Advances(p)
  <1> DEFINE j == [NoJob EXCEPT !.user = u, !.token = t, !.password = w]
  <1>1. CASE Reply(p, "err")
    BY <1>1, ReadAndReply DEF Register, Answers
  <1>2. CASE Goto(p, "pickActivation", j)
    <2>1. j \in Job /\ j.user = u /\ j.token = t
      BY DEF NoJob, Job, MaybeCode
    <2>2. pc'[p] = "pickActivation" /\ job'[p] = j => HandlerBacked(p)'
      BY <2>1 DEF HandlerBacked, LoginSteps
    <2> HIDE DEF j
    <2> QED
      BY <1>2, <2>1, <2>2, ReadAndGoto DEF Register, Steps, TransactionSteps
  <1> QED
    BY <1>1, <1>2 DEF Register

LEMMA PickActivationCodeAdvances ==
    ASSUME Inv, NEW p \in Replicas, NEW c \in Codes, PickActivationCode(p, c)
    PROVE  Advances(p)
  <1> DEFINE j == [job[p] EXCEPT !.code = c]
  <1>1. /\ j \in Job /\ j.user = job[p].user /\ j.token = job[p].token
        /\ j.user \in Users /\ j.token \in Tokens
    BY DEF PickActivationCode, Inv, HandlersBacked, HandlerBacked, TypeOK, Job,
           MaybeCode
  <1>2. pc'[p] = "createUser" /\ job'[p] = j => HandlerBacked(p)'
    BY <1>1 DEF HandlerBacked, LoginSteps
  <1>3. Goto(p, "createUser", j) /\ UNCHANGED <<tables, clock, sessions>>
    BY DEF PickActivationCode
  <1> HIDE DEF j
  <1> QED
    BY <1>1, <1>2, <1>3, ReadAndGoto DEF Steps, TransactionSteps

LEMMA ActivateAccountAdvances ==
    ASSUME Inv, NEW p \in Replicas, NEW c \in Codes, ActivateAccount(p, c)
    PROVE  Advances(p)
  <1>1. CASE Reply(p, "err")
    BY <1>1, ReadAndReply DEF ActivateAccount, Answers
  <1>2. ASSUME NEW u \in Users, Visible(u), activationCode[u] = c,
               Goto(p, "activate", [NoJob EXCEPT !.user = u, !.code = c])
        PROVE  Advances(p)
    <2> DEFINE j == [NoJob EXCEPT !.user = u, !.code = c]
    <2>1. j \in Job /\ j.user = u /\ j.code = c
      BY DEF NoJob, Job, MaybeCode
    <2>2. UNCHANGED <<tables, clock, sessions>>
      BY DEF ActivateAccount
    <2>3. pc'[p] = "activate" /\ job'[p] = j => HandlerBacked(p)'
      BY <1>2, <2>1, <2>2 DEF HandlerBacked, LoginSteps, Visible, tables
    <2> HIDE DEF j
    <2> QED
      BY <1>2, <2>1, <2>2, <2>3, ReadAndGoto DEF Steps, TransactionSteps, j
  <1> QED
    BY <1>1, <1>2 DEF ActivateAccount, GetUserByActivationCode

LEMMA RemoveAccountAdvances ==
    ASSUME Inv, NEW p \in Replicas, NEW u \in Users, RemoveAccount(p, u)
    PROVE  Advances(p)
  <1> DEFINE j == [NoJob EXCEPT !.user = u]
  <1>1. CASE Reply(p, "err")
    BY <1>1, ReadAndReply DEF RemoveAccount, Answers
  <1>2. CASE Goto(p, "removeAccount", j)
    <2>1. j \in Job /\ j.user = u
      BY DEF NoJob, Job, MaybeCode
    <2>2. UNCHANGED <<tables, clock, sessions>> /\ Authenticated(u)
      BY DEF RemoveAccount
    <2>3. users[u].active
      BY <2>2 DEF Authenticated, Inv, TablesBacked, SessionBacked
    <2>4. pc'[p] = "removeAccount" /\ job'[p] = j => HandlerBacked(p)'
      BY <2>1, <2>2, <2>3 DEF HandlerBacked, LoginSteps, Authenticated, tables
    <2> HIDE DEF j
    <2> QED
      BY <1>2, <2>1, <2>2, <2>4, ReadAndGoto DEF Steps, TransactionSteps
  <1> QED
    BY <1>1, <1>2 DEF RemoveAccount

LEMMA UpdateSettingsAdvances ==
    ASSUME Inv, NEW p \in Replicas, NEW u \in Users, NEW f \in BOOLEAN,
           UpdateSettings(p, u, f)
    PROVE  Advances(p)
  <1> DEFINE j == [NoJob EXCEPT !.user = u, !.twoFactor = f]
  <1>1. CASE Reply(p, "err")
    BY <1>1, ReadAndReply DEF UpdateSettings, Answers
  <1>2. CASE Goto(p, "saveSettings", j)
    <2>1. j \in Job /\ j.user = u
      BY DEF NoJob, Job, MaybeCode
    <2>2. UNCHANGED <<tables, clock, sessions>> /\ Authenticated(u)
      BY DEF UpdateSettings
    <2>3. users[u].active
      BY <2>2 DEF Authenticated, Inv, TablesBacked, SessionBacked
    <2>4. pc'[p] = "saveSettings" /\ job'[p] = j => HandlerBacked(p)'
      BY <2>1, <2>2, <2>3 DEF HandlerBacked, LoginSteps, Authenticated, tables
    <2> HIDE DEF j
    <2> QED
      BY <1>2, <2>1, <2>2, <2>4, ReadAndGoto DEF Steps, TransactionSteps
  <1> QED
    BY <1>1, <1>2 DEF UpdateSettings

LEMMA RegistrationAdvances ==
    ASSUME Inv, NEW p \in Replicas, RegistrationCall(p) \/ RegistrationStep(p)
    PROVE  Advances(p)
  <1>1. ASSUME NEW u \in Users, ResendActivationCode(p, u)
        PROVE  Advances(p)
    BY <1>1, ReadAndReply
       DEF ResendActivationCode, CreateRegistrationEvent, Produced, Answers
  <1>2. CASE RegistrationCall(p)
    BY <1>1, <1>2, RegisterAdvances, ActivateAccountAdvances,
       RemoveAccountAdvances, UpdateSettingsAdvances DEF RegistrationCall
  <1>3. CASE RegistrationStep(p)
    BY <1>3, PickActivationCodeAdvances, CreateUserAdvances,
       ActivateCommitAdvances, MarkRemovedAdvances, SaveSettingsAdvances
       DEF RegistrationStep
  <1> QED
    BY <1>2, <1>3

LEMMA LoginAdvances ==
    ASSUME Inv, NEW p \in Replicas, NEW u \in Users, NEW t \in Tokens,
           NEW w \in Passwords, Login(p, u, t, w)
    PROVE  Advances(p)
  <1> DEFINE j == [NoJob EXCEPT !.user = u, !.token = t, !.password = w,
                                !.twoFactor = users[u].twoFactor]
  <1>1. CASE Reply(p, "err")
    BY <1>1, ReadAndReply DEF Login, Answers
  <1>2. CASE users[u].active /\ Goto(p, "findDevice", j)
    <2>1. j \in Job /\ j.user = u /\ j.token = t
      <3>1. users[u].twoFactor \in BOOLEAN
        BY DEF Inv, TypeOK, UserRow
      <3> QED
        BY <3>1 DEF NoJob, Job, MaybeCode
    <2>2. UNCHANGED <<tables, clock, sessions>>
      BY DEF Login
    <2>3. pc'[p] = "findDevice" /\ job'[p] = j => HandlerBacked(p)'
      BY <1>2, <2>1, <2>2 DEF HandlerBacked, LoginSteps, tables
    <2> HIDE DEF j
    <2> QED
      BY <1>2, <2>1, <2>2, <2>3, ReadAndGoto DEF Steps, TransactionSteps
  <1> QED
    BY <1>1, <1>2 DEF Login

LEMMA FindDeviceAdvances ==
    ASSUME Inv, NEW p \in Replicas, FindDevice(p)
    PROVE  Advances(p)
  <1> DEFINE j == job[p]
             rows == devices[j.user][j.token]
  <1>1. /\ j \in Job /\ j.user \in Users /\ j.token \in Tokens
        /\ users[j.user].active /\ rows \in Nat
    BY DEF FindDevice, Inv, HandlersBacked, HandlerBacked, TypeOK, LoginSteps
  <1>2. UNCHANGED <<tables, clock, sessions>>
    BY DEF FindDevice
  <1>3. CASE Reply(p, "err")
    BY <1>2, <1>3, ReadAndReply DEF Answers
  <1>4. CASE Goto(p, "createDevice", j)
    <2>1. pc'[p] = "createDevice" /\ job'[p] = j => HandlerBacked(p)'
      BY <1>1, <1>2 DEF HandlerBacked, LoginSteps, tables
    <2> QED
      BY <1>1, <1>2, <1>4, <2>1, ReadAndGoto DEF Steps, TransactionSteps
  <1>5. CASE rows = 1 /\ Goto(p, AfterDevice(j), j)
    <2>1. AfterDevice(j) \in {"pickSecondFactor", "signLogin"}
      BY DEF AfterDevice
    <2>2. pc'[p] = AfterDevice(j) /\ job'[p] = j => HandlerBacked(p)'
      BY <1>1, <1>2, <1>5, <2>1 DEF HandlerBacked, LoginSteps, tables
    <2> QED
      BY <1>1, <1>2, <1>5, <2>1, <2>2, ReadAndGoto DEF Steps, TransactionSteps
  <1> QED
    BY <1>3, <1>4, <1>5 DEF FindDevice

LEMMA PickSecondFactorCodeAdvances ==
    ASSUME Inv, NEW p \in Replicas, NEW c \in Codes, PickSecondFactorCode(p, c)
    PROVE  Advances(p)
  <1> DEFINE j == [job[p] EXCEPT !.code = c]
  <1>0. /\ job[p].user \in Users /\ job[p].token \in Tokens
        /\ users[job[p].user].active /\ devices[job[p].user][job[p].token] > 0
    BY DEF PickSecondFactorCode, Inv, HandlersBacked, HandlerBacked, LoginSteps
  <1>1. j \in Job /\ j.user = job[p].user /\ j.token = job[p].token
    BY DEF Inv, TypeOK, Job, MaybeCode
  <1>2. Goto(p, "createSecondFactor", j) /\ UNCHANGED <<tables, clock, sessions>>
    BY DEF PickSecondFactorCode
  <1>3. pc'[p] = "createSecondFactor" /\ job'[p] = j => HandlerBacked(p)'
    BY <1>0, <1>1, <1>2 DEF HandlerBacked, LoginSteps, tables
  <1> HIDE DEF j
  <1> QED
    BY <1>1, <1>2, <1>3, ReadAndGoto DEF Steps, TransactionSteps

LEMMA VerifySecondFactorAdvances ==
    ASSUME Inv, NEW p \in Replicas, NEW c \in Codes, VerifySecondFactor(p, c)
    PROVE  Advances(p)
  <1>1. CASE Reply(p, "err")
    BY <1>1, ReadAndReply DEF VerifySecondFactor, Answers
  <1>2. ASSUME NEW u \in Users, secondFactor[u].code = c,
               Goto(p, "signSecondFactor",
                    [NoJob EXCEPT !.user = u, !.code = c,
                                  !.token = secondFactor[u].token])
        PROVE  Advances(p)
    <2> DEFINE j == [NoJob EXCEPT !.user = u, !.code = c,
                                  !.token = secondFactor[u].token]
    <2>1. /\ secondFactor[u].token \in Tokens /\ users[u].active
          /\ devices[u][secondFactor[u].token] > 0
      BY <1>2, NullsAssumption
         DEF Inv, TablesBacked, SecondFactorBacked, NoSecondFactor
    <2>2. j \in Job /\ j.user = u /\ j.token = secondFactor[u].token
      BY <2>1 DEF NoJob, Job, MaybeCode
    <2>3. UNCHANGED <<tables, clock, sessions>>
      BY DEF VerifySecondFactor
    <2>4. pc'[p] = "signSecondFactor" /\ job'[p] = j => HandlerBacked(p)'
      BY <2>1, <2>2, <2>3 DEF HandlerBacked, LoginSteps, tables
    <2>5. Goto(p, "signSecondFactor", j)
      BY <1>2
    <2> HIDE DEF j
    <2> QED
      BY <2>2, <2>3, <2>4, <2>5, ReadAndGoto DEF Steps
  <1> QED
    BY <1>1, <1>2 DEF VerifySecondFactor, GetUserBySecondFactor

LEMMA SignInAdvances ==
    ASSUME Inv, NEW p \in Replicas, SignInCall(p) \/ SignInStep(p)
    PROVE  Advances(p)
  <1>1. ASSUME NEW u \in Users,
               ResendSecondFactorCode(p, u) \/ ResendVerificationCode(p, u)
        PROVE  Advances(p)
    BY <1>1, ReadAndReply
       DEF ResendSecondFactorCode, ResendVerificationCode,
           CreateVerificationEvent, Answers
  <1>2. CASE VerifyAccount(p) \/ RemoveSecondFactor(p)
    BY <1>2, ReadAndReply DEF VerifyAccount, RemoveSecondFactor, Answers
  <1>3. CASE SignInCall(p)
    BY <1>1, <1>2, <1>3, LoginAdvances, VerifySecondFactorAdvances DEF SignInCall
  <1>4. CASE SignInStep(p)
    BY <1>2, <1>4, FindDeviceAdvances, CreateDeviceAdvances, SignLoginAdvances,
       PickSecondFactorCodeAdvances, CreateSecondFactorAdvances,
       SignSecondFactorAdvances DEF SignInStep
  <1> QED
    BY <1>3, <1>4

LEMMA RequestResetAdvances ==
    ASSUME Inv, NEW p \in Replicas, NEW op \in Operations, NEW u \in Users,
           RequestReset(p, op, u)
    PROVE  Advances(p)
  <1> DEFINE j == [NoJob EXCEPT !.user = u]
  <1>1. CASE Reply(p, "err")
    BY <1>1, ReadAndReply DEF RequestReset, Answers
  <1>2. CASE Goto(p, "pickReset", j)
    <2>1. j \in Job /\ j.user = u
      BY DEF NoJob, Job, MaybeCode
    <2>2. pc'[p] = "pickReset" /\ job'[p] = j => HandlerBacked(p)'
      BY <2>1 DEF HandlerBacked, LoginSteps
    <2> HIDE DEF j
    <2> QED
      BY <1>2, <2>1, <2>2, ReadAndGoto DEF RequestReset, Steps, TransactionSteps
  <1> QED
    BY <1>1, <1>2 DEF RequestReset

LEMMA PickResetCodeAdvances ==
    ASSUME Inv, NEW p \in Replicas, NEW c \in Codes, PickResetCode(p, c)
    PROVE  Advances(p)
  <1> DEFINE j == [job[p] EXCEPT !.code = c]
  <1>1. j \in Job /\ j.user \in Users
    BY DEF PickResetCode, Inv, HandlersBacked, HandlerBacked, TypeOK, Job, MaybeCode
  <1>2. pc'[p] = "createReset" /\ job'[p] = j => HandlerBacked(p)'
    BY <1>1 DEF HandlerBacked, LoginSteps
  <1>3. Goto(p, "createReset", j) /\ UNCHANGED <<tables, clock, sessions>>
    BY DEF PickResetCode
  <1> HIDE DEF j
  <1> QED
    BY <1>1, <1>2, <1>3, ReadAndGoto DEF Steps, TransactionSteps

LEMMA ConfirmPasswordResetAdvances ==
    ASSUME Inv, NEW p \in Replicas, NEW c \in Codes, NEW w \in Passwords,
           ConfirmPasswordReset(p, c, w)
    PROVE  Advances(p)
  <1>1. CASE Reply(p, "err")
    BY <1>1, ReadAndReply DEF ConfirmPasswordReset, Answers
  <1>2. ASSUME NEW u \in Users, Visible(u), resetCode[u] = c,
               Goto(p, "updatePassword",
                    [NoJob EXCEPT !.user = u, !.code = c, !.password = w])
        PROVE  Advances(p)
    <2> DEFINE j == [NoJob EXCEPT !.user = u, !.code = c, !.password = w]
    <2>1. j \in Job /\ j.user = u
      BY DEF NoJob, Job, MaybeCode
    <2>2. UNCHANGED <<tables, clock, sessions>>
      BY DEF ConfirmPasswordReset
    <2>3. pc'[p] = "updatePassword" /\ job'[p] = j => HandlerBacked(p)'
      BY <1>2, <2>1, <2>2, NullsAssumption
         DEF HandlerBacked, LoginSteps, Visible, tables
    <2>4. Goto(p, "updatePassword", j)
      BY <1>2
    <2> HIDE DEF j
    <2> QED
      BY <2>1, <2>2, <2>3, <2>4, ReadAndGoto DEF Steps, TransactionSteps
  <1> QED
    BY <1>1, <1>2 DEF ConfirmPasswordReset, GetUserByResetCode

LEMMA PasswordResetAdvances ==
    ASSUME Inv, NEW p \in Replicas, PasswordResetCall(p) \/ PasswordResetStep(p)
    PROVE  Advances(p)
  <1>1. ASSUME NEW u \in Users, CancelPasswordReset(p, u)
        PROVE  Advances(p)
    BY <1>1, ReadAndReply DEF CancelPasswordReset, Answers
  <1>2. CASE RemoveResetCode(p)
    BY <1>2, ReadAndReply DEF RemoveResetCode, Answers
  <1>3. CASE PasswordResetCall(p)
    BY <1>1, <1>3, RequestResetAdvances, ConfirmPasswordResetAdvances
       DEF PasswordResetCall
  <1>4. CASE PasswordResetStep(p)
    BY <1>2, <1>4, PickResetCodeAdvances, CreateResetAdvances,
       UpdatePasswordAdvances DEF PasswordResetStep
  <1> QED
    BY <1>3, <1>4
-----------------------------------------------------------------------------
\* A failed transaction, a restart and the clock.
LEMMA FailureAdvances ==
    ASSUME Inv, NEW p \in Replicas, TransactionFails(p) \/ Restart(p)
    PROVE  Advances(p)
  <1>1. CASE TransactionFails(p)
    BY <1>1, ReadAndReply DEF TransactionFails, Answers
  <1>2. CASE Restart(p)
    <2>1. NoJob \in Job
      BY DEF NoJob, Job, MaybeCode
    <2>2. pc'[p] = "idle" /\ HandlersTyped' /\ OnlyMoves(p)
      BY <1>2, <2>1 DEF Inv, TypeOK, Restart, HandlersTyped, OnlyMoves, Steps, Answers
    <2>3. HandlerBacked(p)'
      BY <2>2 DEF HandlerBacked, LoginSteps
    <2>4. TypeOK'
      BY <1>2, <2>2 DEF Inv, TypeOK, Restart, HandlersTyped, tables
    <2>5. TablesBacked' /\ TablesAdvance
      BY <1>2 DEF Inv, TypeOK, Restart, tables, TablesBacked, RowsOrdered,
         ActivationCodeSpent, SecondFactorBacked, SessionBacked, TablesAdvance
    <2> QED
      BY <2>2, <2>3, <2>4, <2>5 DEF Advances
  <1> QED
    BY <1>1, <1>2

LEMMA NextInv == Inv /\ [Next]_vars => Inv'
  <1> SUFFICES ASSUME Inv, [Next]_vars PROVE Inv'
    OBVIOUS
  <1>1. ASSUME NEW p \in Replicas, Advances(p) PROVE Inv'
    <2>1. ASSUME NEW q \in Replicas PROVE HandlerBacked(q)'
      BY <1>1, <2>1, HandlerKept DEF Advances, OnlyMoves, Inv, HandlersBacked
    <2> QED
      BY <1>1, <2>1 DEF Advances, Inv, HandlersBacked
  <1>2. CASE Tick
    <2>1. TypeOK'
      BY <1>2 DEF Tick, Inv, TypeOK, tables
    <2>2. TablesBacked' /\ HandlersBacked'
      BY <1>2 DEF Tick, Inv, tables, TablesBacked, RowsOrdered,
         ActivationCodeSpent, SecondFactorBacked, SessionBacked, HandlersBacked,
         HandlerBacked, Authenticated
    <2> QED
      BY <2>1, <2>2 DEF Inv
  <1>3. CASE UNCHANGED vars
    BY <1>3 DEF vars, Inv, TypeOK, TablesBacked, RowsOrdered,
       ActivationCodeSpent, SecondFactorBacked, SessionBacked, HandlersBacked,
       HandlerBacked, Authenticated
  <1> QED
    BY <1>1, <1>2, <1>3, RegistrationAdvances, SignInAdvances,
       PasswordResetAdvances, FailureAdvances DEF Next, Call, Step

THEOREM Invariance == Spec => []Inv
  BY InitInv, NextInv, PTL DEF Spec

\* Every variable keeps its type, on any number of replicas.
THEOREM TypeCorrect == Spec => []TypeOK
  <1>1. Inv => TypeOK
    BY DEF Inv
  <1> QED
    BY <1>1, Invariance, PTL

\* ActivateAccount spends the code it activates with, on any interleaving.
THEOREM ActivationSpendsCode == Spec => []ActivationCodeSpent
  <1>1. Inv => ActivationCodeSpent
    BY DEF Inv, TablesBacked
  <1> QED
    BY <1>1, Invariance, PTL

\* VerifySecondFactor can rely on the account and the device a code names.
THEOREM SecondFactorsAreBacked == Spec => []SecondFactorBacked
  <1>1. Inv => SecondFactorBacked
    BY DEF Inv, TablesBacked
  <1> QED
    BY <1>1, Invariance, PTL

\* GenerateJWT is called for a device of an activated account only.
THEOREM SessionsAreBacked == Spec => []SessionBacked
  <1>1. Inv => SessionBacked
    BY DEF Inv, TablesBacked
  <1> QED
    BY <1>1, Invariance, PTL

\* What a handler loaded in an earlier transaction still backs its next one.
THEOREM HandlersAreBacked == Spec => []HandlersBacked
  <1>1. Inv => HandlersBacked
    BY DEF Inv
  <1> QED
    BY <1>1, Invariance, PTL
-----------------------------------------------------------------------------
\* ConfirmPasswordReset and CreateUser are the only writers of a password.
THEOREM PasswordsNeedCodes == Spec => PasswordChangeNeedsCode
  <1> DEFINE Changed(u) ==
        users[u].exists /\ users'[u].password # users[u].password
  <1>1. ASSUME Inv, [Next]_vars, NEW u \in Users, Changed(u)
        PROVE  resetCode[u] # NoCode
    <2> SUFFICES ASSUME UNCHANGED users \/ \E p \in Replicas :
                          \/ CreateUser(p) \/ ActivateCommit(p)
                          \/ MarkRemoved(p) \/ SaveSettings(p)
                          \/ UpdatePassword(p)
                 PROVE  resetCode[u] # NoCode
      BY <1>1 DEF Next, Call, Step, RegistrationCall, RegistrationStep,
         SignInCall, SignInStep, PasswordResetCall, PasswordResetStep, Register,
         ResendActivationCode, ActivateAccount, RemoveAccount, UpdateSettings,
         PickActivationCode, Login, ResendSecondFactorCode, VerifySecondFactor,
         VerifyAccount, ResendVerificationCode, FindDevice, CreateDevice,
         SignLogin, PickSecondFactorCode, CreateSecondFactor, SignSecondFactor,
         RemoveSecondFactor, RequestReset, CancelPasswordReset,
         ConfirmPasswordReset, PickResetCode, CreateReset, RemoveResetCode,
         TransactionFails, Restart, Tick, vars, tables
    <2>1. CASE UNCHANGED users
      BY <1>1, <2>1
    <2>2. ASSUME NEW p \in Replicas, CreateUser(p)
          PROVE  resetCode[u] # NoCode
      <3>1. users'[u] = users[u] \/ ~users[u].exists
        BY <2>2, <1>1 DEF CreateUser, Inv, TypeOK, tables
      <3> QED
        BY <1>1, <3>1
    <2>3. ASSUME NEW p \in Replicas, ActivateCommit(p)
          PROVE  resetCode[u] # NoCode
      <3>1. users[u] \in UserRow
        BY <1>1 DEF Inv, TypeOK
      <3>2. users'[u].password = users[u].password
        <4>1. \/ UNCHANGED users
              \/ users' = [users EXCEPT ![job[p].user].active = TRUE]
          BY <2>3 DEF ActivateCommit, tables
        <4>2. CASE UNCHANGED users
          BY <4>2
        <4>3. CASE users' = [users EXCEPT ![job[p].user].active = TRUE]
          BY <1>1, <3>1, <4>3 DEF Inv, TypeOK, UserRow
        <4> QED
          BY <4>1, <4>2, <4>3
      <3> QED
        BY <1>1, <3>2
    <2>4. ASSUME NEW p \in Replicas, MarkRemoved(p)
          PROVE  resetCode[u] # NoCode
      <3>1. users[u] \in UserRow
        BY <1>1 DEF Inv, TypeOK
      <3>2. users'[u].password = users[u].password
        BY <2>4, <1>1, <3>1 DEF MarkRemoved, Inv, TypeOK, UserRow, tables
      <3> QED
        BY <1>1, <3>2
    <2>5. ASSUME NEW p \in Replicas, SaveSettings(p)
          PROVE  resetCode[u] # NoCode
      <3>1. users[u] \in UserRow
        BY <1>1 DEF Inv, TypeOK
      <3>2. users'[u].password = users[u].password
        BY <2>5, <1>1, <3>1 DEF SaveSettings, Inv, TypeOK, UserRow, tables
      <3> QED
        BY <1>1, <3>2
    <2>6. ASSUME NEW p \in Replicas, UpdatePassword(p)
          PROVE  resetCode[u] # NoCode
      <3>1. users'[u] # users[u] => u = job[p].user
        BY <2>6, <1>1 DEF UpdatePassword, Inv, TypeOK
      <3>2. resetCode[job[p].user] # NoCode
        BY <2>6, <1>1 DEF UpdatePassword, Inv, HandlersBacked, HandlerBacked
      <3> QED
        BY <1>1, <3>1, <3>2
    <2> QED
      BY <2>1, <2>2, <2>3, <2>4, <2>5, <2>6
  <1>2. Inv /\ [Next]_vars =>
          [\A u \in Users : Changed(u) => resetCode[u] # NoCode]_vars
    BY <1>1
  <1> QED
    BY <1>2, Invariance, PTL DEF Spec, PasswordChangeNeedsCode
-----------------------------------------------------------------------------
(* The steps of the service are those of AccountLifecycle.                 *)

Status ==
    [u \in Users |->
        IF ~users[u].exists THEN "absent"
        ELSE IF users[u].removed THEN "removed"
        ELSE IF users[u].active THEN "active" ELSE "pending"]

SignedIn == {s.user : s \in sessions}

\* A row that keeps its flags keeps its place in the account's life.
LEMMA FlagsKept ==
    ASSUME \A u \in Users :
               /\ users'[u].exists = users[u].exists
               /\ users'[u].active = users[u].active
               /\ users'[u].removed = users[u].removed
    PROVE  Status' = Status
  BY DEF Status

\* Opening a session for an activated account.
LEMMA SessionStep ==
    ASSUME Inv, NEW s \in Session, users[s.user].active, UNCHANGED users,
           sessions' = sessions \cup {s}
    PROVE  Lifecycle!OpenSession(s.user)
  <1>1. Status[s.user] \in {"active", "removed"} /\ Status' = Status
    BY DEF Status, Session, Inv, TablesBacked, RowsOrdered
  <1>2. SignedIn' = SignedIn \cup {s.user}
    BY DEF SignedIn
  <1> QED
    BY <1>1, <1>2 DEF Lifecycle!OpenSession, Status, SignedIn

\* What is left when the steps that matter to an account's life are set aside.
LEMMA QuietSteps ==
    ASSUME [Next]_vars
    PROVE  \/ UNCHANGED <<users, sessions>>
           \/ \E p \in Replicas :
                \/ CreateUser(p) \/ ActivateCommit(p) \/ MarkRemoved(p)
                \/ SaveSettings(p) \/ UpdatePassword(p)
                \/ SignLogin(p) \/ SignSecondFactor(p)
  BY DEF Next, Call, Step, RegistrationCall, RegistrationStep, SignInCall,
     SignInStep, PasswordResetCall, PasswordResetStep, Register,
     ResendActivationCode, ActivateAccount, RemoveAccount, UpdateSettings,
     PickActivationCode, Login, ResendSecondFactorCode, VerifySecondFactor,
     VerifyAccount, ResendVerificationCode, FindDevice, CreateDevice,
     PickSecondFactorCode, CreateSecondFactor, RemoveSecondFactor, RequestReset,
     CancelPasswordReset, ConfirmPasswordReset, PickResetCode, CreateReset,
     RemoveResetCode, TransactionFails, Restart, Tick, vars, tables

LEMMA LifecycleStep ==
    ASSUME Inv, [Next]_vars
    PROVE  Lifecycle!Next \/ (Status' = Status /\ SignedIn' = SignedIn)
  <1> USE DEF Inv
  <1>1. CASE UNCHANGED <<users, sessions>>
    BY <1>1 DEF Status, SignedIn
  <1>2. ASSUME NEW p \in Replicas, CreateUser(p)
        PROVE  Lifecycle!Next \/ (Status' = Status /\ SignedIn' = SignedIn)
    <2>0. PICK owner \in Users : owner = job[p].user
      BY <1>2 DEF CreateUser, HandlersBacked, HandlerBacked
    <2>1. owner \in Users /\ SignedIn' = SignedIn
      BY <1>2, <2>0 DEF CreateUser, HandlersBacked, HandlerBacked, SignedIn
    <2>2. CASE UNCHANGED users
      BY <2>1, <2>2 DEF Status
    <2>3. CASE /\ ~users[owner].exists
               /\ users' = [users EXCEPT ![owner] =
                     [AbsentRow EXCEPT !.exists = TRUE,
                                       !.password = job[p].password]]
      <3>1. /\ Status[owner] = "absent"
            /\ Status' = [Status EXCEPT ![owner] = "pending"]
        BY <2>1, <2>3 DEF Status, TypeOK, AbsentRow
      <3>2. Lifecycle!Register(owner)
        BY <2>1, <3>1 DEF Lifecycle!Register, Lifecycle!Move, Status, SignedIn
      <3> QED
        BY <2>1, <3>2 DEF Lifecycle!Next
    <2> QED
      BY <1>2, <2>0, <2>2, <2>3 DEF CreateUser, tables
  <1>3. ASSUME NEW p \in Replicas, ActivateCommit(p)
        PROVE  Lifecycle!Next \/ (Status' = Status /\ SignedIn' = SignedIn)
    <2>0. PICK owner \in Users : owner = job[p].user
      BY <1>3 DEF ActivateCommit, HandlersBacked, HandlerBacked
    <2>1. owner \in Users /\ SignedIn' = SignedIn
      BY <1>3, <2>0 DEF ActivateCommit, HandlersBacked, HandlerBacked, SignedIn
    <2>2. CASE UNCHANGED users
      BY <2>1, <2>2 DEF Status
    <2>3. CASE Visible(owner) /\ users' = [users EXCEPT ![owner].active = TRUE]
      <3>1. CASE users[owner].active
        BY <2>1, <2>3, <3>1, FlagsKept DEF TypeOK, UserRow
      <3>2. CASE ~users[owner].active
        <4>1. /\ Status[owner] = "pending"
              /\ Status' = [Status EXCEPT ![owner] = "active"]
          BY <2>1, <2>3, <3>2 DEF Status, TypeOK, UserRow, Visible
        <4>2. Lifecycle!Activate(owner)
          BY <2>1, <4>1 DEF Lifecycle!Activate, Lifecycle!Move, Status, SignedIn
        <4> QED
          BY <2>1, <4>2 DEF Lifecycle!Next
      <3> QED
        BY <2>1, <3>1, <3>2
    <2> QED
      BY <1>3, <2>0, <2>2, <2>3 DEF ActivateCommit, tables
  <1>4. ASSUME NEW p \in Replicas, MarkRemoved(p)
        PROVE  Lifecycle!Next \/ (Status' = Status /\ SignedIn' = SignedIn)
    <2>0. PICK owner \in Users : owner = job[p].user
      BY <1>4 DEF MarkRemoved, HandlersBacked, HandlerBacked
    <2>1. /\ owner \in Users /\ SignedIn' = SignedIn
          /\ users[owner].active /\ users[owner].exists /\ owner \in SignedIn
          /\ users' = [users EXCEPT ![owner].removed = TRUE]
      BY <1>4, <2>0 DEF MarkRemoved, HandlersBacked, HandlerBacked, SignedIn,
         Authenticated, TablesBacked, RowsOrdered
    <2>2. CASE users[owner].removed
      BY <2>1, <2>2, FlagsKept DEF TypeOK, UserRow
    <2>3. CASE ~users[owner].removed
      <3>1. /\ Status[owner] = "active"
            /\ Status' = [Status EXCEPT ![owner] = "removed"]
        BY <2>1, <2>3 DEF Status, TypeOK, UserRow
      <3>2. Lifecycle!Remove(owner)
        BY <2>1, <3>1 DEF Lifecycle!Remove, Lifecycle!Move, Status, SignedIn
      <3> QED
        BY <2>1, <3>2 DEF Lifecycle!Next
    <2> QED
      BY <2>2, <2>3
  <1>5. ASSUME NEW p \in Replicas, SaveSettings(p) \/ UpdatePassword(p)
        PROVE  Lifecycle!Next \/ (Status' = Status /\ SignedIn' = SignedIn)
    <2>1. CASE SaveSettings(p)
      BY <2>1, FlagsKept DEF SaveSettings, TypeOK, UserRow, SignedIn
    <2>2. CASE UpdatePassword(p)
      BY <2>2, FlagsKept DEF UpdatePassword, TypeOK, UserRow, SignedIn
    <2> QED
      BY <1>5, <2>1, <2>2
  <1>6. ASSUME NEW p \in Replicas, SignLogin(p) \/ SignSecondFactor(p)
        PROVE  Lifecycle!Next \/ (Status' = Status /\ SignedIn' = SignedIn)
    <2> DEFINE s(how) ==
          [user |-> job[p].user, token |-> job[p].token, via |-> how]
    <2>1. /\ job[p].user \in Users /\ job[p].token \in Tokens
          /\ users[job[p].user].active
      BY <1>6 DEF SignLogin, SignSecondFactor, HandlersBacked, HandlerBacked,
         LoginSteps
    <2>2. UNCHANGED users
      BY <1>6 DEF SignLogin, SignSecondFactor, tables
    <2>3. CASE UNCHANGED sessions
      BY <2>2, <2>3 DEF Status, SignedIn
    <2>4. ASSUME NEW how \in {"password", "second-factor"},
                 sessions' = sessions \cup {s(how)}
          PROVE  Lifecycle!Next
      <3>1. s(how) \in Session /\ s(how).user = job[p].user
        BY <2>1 DEF Session
      <3> HIDE DEF s
      <3> QED
        BY <2>1, <2>2, <2>4, <3>1, SessionStep DEF Lifecycle!Next
    <2> QED
      BY <1>6, <2>3, <2>4 DEF SignLogin, SignSecondFactor
  <1> QED
    BY <1>1, <1>2, <1>3, <1>4, <1>5, <1>6, QuietSteps

\* The service implements AccountLifecycle: no interleaving of handlers,
\* failure or restart takes an account through its life in another order.
THEOREM ImplementsLifecycle == Spec => LifecycleSpec
  <1>1. Init => Lifecycle!Init
    BY DEF Init, TablesInit, Lifecycle!Init, AbsentRow
  <1>2. Inv /\ [Next]_vars => [Lifecycle!Next]_(Lifecycle!lifecycleVars)
    BY LifecycleStep DEF Lifecycle!lifecycleVars, Status, SignedIn
  <1> QED
    BY <1>1, <1>2, Invariance, PTL DEF Spec, LifecycleSpec, Lifecycle!Spec
=============================================================================
