--------------------------- MODULE AuthSerialProofs ---------------------------
(***************************************************************************)
(* What AuthService guarantees when its handlers take turns, as they do in *)
(* a single replica, where the tracker's mutex is held while a handler     *)
(* runs.  A handler then still finds the row, the code and the device that *)
(* it loaded in an earlier transaction as they were (UpToDate), which is   *)
(* more than the HandlersBacked of any number of replicas.                 *)
(***************************************************************************)
EXTENDS AuthServiceProofs

\* No two replicas run a handler at a time.
HandlersTakeTurns ==
    \A p, q \in Replicas : pc[p] # "idle" /\ pc[q] # "idle" => p = q

\* The unique index on the codes, and the owner a device row refers to.
ActivationCodesUnique ==
    \A u, v \in Users :
        activationCode[u] = activationCode[v] /\ activationCode[u] # NoCode
            => u = v

StrangersOwnNothing ==
    \A u \in Users, t \in Tokens : ~users[u].exists => devices[u][t] = 0

\* A handler finds the tables as it loaded them.
UpToDate(p) ==
    LET u == job[p].user IN
    /\ pc[p] = "createUser" => job[p].code \in Codes
    /\ pc[p] \notin {"idle", "pickActivation", "createUser"} => Visible(u)
    /\ pc[p] = "activate" => activationCode[u] = job[p].code
    /\ pc[p] = "createDevice" => devices[u][job[p].token] = 0
    /\ pc[p] \in {"findDevice", "createDevice", "signLogin"} =>
          /\ users[u].password = job[p].password
          /\ users[u].twoFactor = job[p].twoFactor
    /\ pc[p] = "signLogin" => ~job[p].twoFactor

SerialTables ==
    /\ DeviceUnique
    /\ PendingAccountHasCode
    /\ ActivationCodesUnique
    /\ StrangersOwnNothing

SerialInv == SerialTables /\ \A p \in Replicas : UpToDate(p)

\* What is shown of every step of a replica: only a handler under way writes.
Settles(p) ==
    /\ SerialTables'
    /\ UpToDate(p)'
    /\ UNCHANGED tables \/ pc[p] # "idle"
-----------------------------------------------------------------------------
\* One replica takes turns with itself: what follows holds of it outright.
THEOREM SingleReplicaTakesTurns ==
    (\A p, q \in Replicas : p = q) => HandlersTakeTurns
  BY DEF HandlersTakeTurns

\* The tables and handlers start empty (TablesInit, ReplicasInit).
LEMMA InitSerial == Init => SerialInv
  BY DEF Init, TablesInit, ReplicasInit, SerialInv, SerialTables, UpToDate,
     DeviceUnique, PendingAccountHasCode, ActivationCodesUnique,
     StrangersOwnNothing, AbsentRow

\* Reading keeps what is said of the tables.
LEMMA TablesRead ==
    ASSUME SerialTables, UNCHANGED tables
    PROVE  SerialTables'
  BY DEF SerialTables, DeviceUnique, PendingAccountHasCode,
     ActivationCodesUnique, StrangersOwnNothing, tables

\* A replica that has answered relies on nothing.
LEMMA IdleUpToDate ==
    ASSUME NEW p \in Replicas, pc'[p] = "idle"
    PROVE  UpToDate(p)'
  BY DEF UpToDate

LEMMA ReplyUpToDate ==
    ASSUME TypeOK, NEW p \in Replicas, NEW a, Reply(p, a)
    PROVE  UpToDate(p)'
  <1>1. pc'[p] = "idle"
    BY DEF TypeOK, Reply
  <1> QED
    BY <1>1, IdleUpToDate

LEMMA ReadAndReplySettles ==
    ASSUME TypeOK, SerialTables, NEW p \in Replicas, NEW a, Reply(p, a),
           UNCHANGED tables
    PROVE  Settles(p)
  BY TablesRead, ReplyUpToDate DEF Settles

\* What a handler that has read needs is what its next transaction relies on.
LEMMA ReadAndGotoSettles ==
    ASSUME TypeOK, SerialTables, NEW p \in Replicas, NEW label, NEW j,
           Goto(p, label, j), UNCHANGED tables,
           pc'[p] = label /\ job'[p] = j => UpToDate(p)'
    PROVE  Settles(p)
  <1>1. pc'[p] = label /\ job'[p] = j
    BY DEF TypeOK, Goto
  <1> QED
    BY <1>1, TablesRead DEF Settles
-----------------------------------------------------------------------------
\* Registration: a new row comes with its only device and with a code nobody
\* else owns.
LEMMA CreateUserSettles ==
    ASSUME Inv, SerialInv, NEW p \in Replicas, CreateUser(p)
    PROVE  Settles(p)
  <1> DEFINE j == job[p]
  <1>0. TypeOK /\ SerialTables /\ pc[p] = "createUser"
    BY DEF Inv, SerialInv, CreateUser
  <1>1. CASE users[j.user].exists \/ InUse(activationCode, j.code)
    BY <1>0, <1>1, ReadAndReplySettles DEF CreateUser
  <1>2. CASE ~users[j.user].exists /\ ~InUse(activationCode, j.code)
    <2>1. /\ j.user \in Users /\ j.token \in Tokens /\ j.code \in Codes
      BY <1>0 DEF Inv, HandlersBacked, HandlerBacked, SerialInv, UpToDate
    <2> DEFINE row == [AbsentRow EXCEPT !.exists = TRUE, !.password = j.password]
    <2>2. /\ users' = [users EXCEPT ![j.user] = row]
          /\ activationCode' = [activationCode EXCEPT ![j.user] = j.code]
          /\ devices' = [devices EXCEPT ![j.user][j.token] = @ + 1]
          /\ Reply(p, "ok")
      BY <1>2 DEF CreateUser
    <2>3. row.exists
      BY DEF AbsentRow
    <2>4. \A t \in Tokens : devices[j.user][t] = 0
      BY <1>0, <1>2, <2>1 DEF SerialTables, StrangersOwnNothing
    <2>5. DeviceUnique'
      BY <1>0, <2>1, <2>2, <2>4 DEF TypeOK, SerialTables, DeviceUnique
    <2>6. StrangersOwnNothing'
      BY <1>0, <2>1, <2>2, <2>3 DEF TypeOK, SerialTables, StrangersOwnNothing
    <2>7. PendingAccountHasCode'
      BY <1>0, <2>1, <2>2, NullsAssumption
         DEF TypeOK, SerialTables, PendingAccountHasCode
    <2>8. ActivationCodesUnique'
      BY <1>0, <1>2, <2>1, <2>2
         DEF TypeOK, SerialTables, ActivationCodesUnique, InUse
    <2>9. UpToDate(p)'
      BY <1>0, <2>2, ReplyUpToDate
    <2> QED
      BY <1>0, <2>5, <2>6, <2>7, <2>8, <2>9 DEF Settles, SerialTables
  <1> QED
    BY <1>1, <1>2

\* Activation: the code that is deleted by its value is the account's own.
LEMMA ActivateCommitSettles ==
    ASSUME Inv, SerialInv, NEW p \in Replicas, ActivateCommit(p)
    PROVE  Settles(p)
  <1> DEFINE j == job[p]
  <1>0. /\ TypeOK /\ SerialTables /\ pc[p] = "activate"
        /\ j.user \in Users /\ Visible(j.user)
        /\ activationCode[j.user] = j.code
    BY DEF Inv, SerialInv, UpToDate, ActivateCommit, HandlersBacked,
       HandlerBacked
  <1>1. /\ users' = [users EXCEPT ![j.user].active = TRUE]
        /\ activationCode' =
             [u \in Users |-> IF activationCode[u] = j.code
                              THEN NoCode ELSE activationCode[u]]
        /\ UNCHANGED devices
        /\ Reply(p, "ok")
    BY <1>0 DEF ActivateCommit
  <1>2. /\ users'[j.user].active
        /\ \A u \in Users : /\ users'[u].exists = users[u].exists
                            /\ u # j.user => users'[u] = users[u]
    BY <1>0, <1>1 DEF TypeOK, UserRow
  <1>3. \A u \in Users \ {j.user} :
            activationCode[u] # NoCode => activationCode'[u] = activationCode[u]
    BY <1>0, <1>1 DEF SerialTables, ActivationCodesUnique
  <1>4. PendingAccountHasCode'
    <2> SUFFICES ASSUME NEW u \in Users, users'[u].exists, ~users'[u].active
                 PROVE  activationCode'[u] # NoCode
      BY DEF PendingAccountHasCode
    <2>1. u # j.user /\ users[u].exists /\ ~users[u].active
      BY <1>2
    <2> QED
      BY <1>0, <1>3, <2>1 DEF SerialTables, PendingAccountHasCode
  <1>5. ActivationCodesUnique'
    BY <1>0, <1>1 DEF SerialTables, ActivationCodesUnique
  <1>6. DeviceUnique' /\ StrangersOwnNothing'
    BY <1>0, <1>1, <1>2 DEF SerialTables, DeviceUnique, StrangersOwnNothing
  <1>7. UpToDate(p)'
    BY <1>0, <1>1, ReplyUpToDate
  <1> QED
    BY <1>0, <1>4, <1>5, <1>6, <1>7 DEF Settles, SerialTables

\* A change of the row that leaves existence and activation as they are.
LEMMA RowChangeKeeps ==
    ASSUME SerialTables, UNCHANGED <<activationCode, devices>>,
           \A u \in Users : /\ users'[u].exists = users[u].exists
                            /\ users'[u].active = users[u].active
    PROVE  SerialTables'
  BY DEF SerialTables, DeviceUnique, PendingAccountHasCode,
     ActivationCodesUnique, StrangersOwnNothing

LEMMA RowWritesSettle ==
    ASSUME Inv, SerialInv, NEW p \in Replicas,
           MarkRemoved(p) \/ SaveSettings(p) \/ UpdatePassword(p)
    PROVE  Settles(p)
  <1> DEFINE j == job[p]
  <1>0. /\ TypeOK /\ SerialTables /\ pc[p] # "idle"
        /\ j.user \in Users /\ Visible(j.user)
    BY DEF Inv, SerialInv, UpToDate, HandlersBacked, HandlerBacked,
       MarkRemoved, SaveSettings, UpdatePassword
  <1>1. /\ UNCHANGED <<activationCode, devices>>
        /\ \/ users' = [users EXCEPT ![j.user].removed = TRUE]
           \/ users' = [users EXCEPT ![j.user].twoFactor = j.twoFactor]
           \/ users' = [users EXCEPT ![j.user].password = j.password]
    BY DEF MarkRemoved, SaveSettings, UpdatePassword
  <1>2. \A u \in Users : /\ users'[u].exists = users[u].exists
                         /\ users'[u].active = users[u].active
    BY <1>0, <1>1 DEF TypeOK, UserRow
  <1>3. SerialTables'
    BY <1>0, <1>1, <1>2, RowChangeKeeps
  <1>4. CASE MarkRemoved(p) \/ SaveSettings(p)
    <2>1. \E a : Reply(p, a)
      BY <1>4 DEF MarkRemoved, SaveSettings
    <2> QED
      BY <1>0, <1>3, <2>1, ReplyUpToDate DEF Settles
  <1>5. CASE UpdatePassword(p)
    <2>1. pc'[p] = "removeResetCode" /\ job'[p] = j
      BY <1>0, <1>5 DEF UpdatePassword, Goto, TypeOK
    <2>2. users' = [users EXCEPT ![j.user].password = j.password]
      BY <1>5 DEF UpdatePassword
    <2>3. users'[j.user].exists /\ ~users'[j.user].removed
      BY <1>0, <2>2 DEF TypeOK, UserRow, Visible
    <2>4. UpToDate(p)'
      BY <2>1, <2>3 DEF UpToDate, Visible
    <2> QED
      BY <1>0, <1>3, <2>4 DEF Settles
  <1> QED
    BY <1>4, <1>5

\* Sign-in: only a device that was not found is inserted.
LEMMA CreateDeviceSettles ==
    ASSUME Inv, SerialInv, NEW p \in Replicas, CreateDevice(p)
    PROVE  Settles(p)
  <1> DEFINE j == job[p]
  <1>0. /\ TypeOK /\ SerialTables /\ UpToDate(p) /\ pc[p] = "createDevice"
        /\ j.user \in Users /\ j.token \in Tokens /\ Visible(j.user)
    BY DEF Inv, SerialInv, UpToDate, HandlersBacked, HandlerBacked,
       CreateDevice, LoginSteps
  <1>1. CASE Reply(p, "panic") /\ UNCHANGED devices
    <2>1. UNCHANGED tables
      BY <1>1 DEF CreateDevice, tables
    <2> QED
      BY <1>0, <1>1, <2>1, ReadAndReplySettles
  <1>2. CASE /\ devices' = [devices EXCEPT ![j.user][j.token] = @ + 1]
             /\ Goto(p, AfterDevice(j), j)
    <2>1. UNCHANGED <<users, activationCode>>
      BY DEF CreateDevice
    <2>2. devices[j.user][j.token] = 0
      BY <1>0 DEF UpToDate
    <2>3. DeviceUnique' /\ StrangersOwnNothing'
      BY <1>0, <1>2, <2>1, <2>2
         DEF TypeOK, SerialTables, DeviceUnique, StrangersOwnNothing, Visible
    <2>4. PendingAccountHasCode' /\ ActivationCodesUnique'
      BY <1>0, <2>1
         DEF SerialTables, PendingAccountHasCode, ActivationCodesUnique
    <2>5. /\ job'[p] = j /\ pc'[p] = AfterDevice(j)
          /\ pc'[p] \in {"pickSecondFactor", "signLogin"}
          /\ pc'[p] = "signLogin" => ~j.twoFactor
      BY <1>0, <1>2 DEF TypeOK, Goto, AfterDevice
    <2>6. UpToDate(p)'
      BY <1>0, <2>1, <2>5 DEF UpToDate, Visible
    <2> QED
      BY <1>0, <2>3, <2>4, <2>6 DEF Settles, SerialTables
  <1> QED
    BY <1>1, <1>2 DEF CreateDevice

\* Codes of the other two tables are nothing that these handlers rely on.
LEMMA CodeInsertsSettle ==
    ASSUME Inv, SerialInv, NEW p \in Replicas,
           CreateSecondFactor(p) \/ CreateReset(p)
    PROVE  Settles(p)
  <1>0. TypeOK /\ SerialTables /\ pc[p] # "idle"
    BY DEF Inv, SerialInv, CreateSecondFactor, CreateReset
  <1>1. /\ UNCHANGED <<users, activationCode, devices>>
        /\ \E a : Reply(p, a)
    BY DEF CreateSecondFactor, CreateReset
  <1>2. SerialTables'
    BY <1>0, <1>1 DEF SerialTables, DeviceUnique, PendingAccountHasCode,
       ActivationCodesUnique, StrangersOwnNothing
  <1> QED
    BY <1>0, <1>1, <1>2, ReplyUpToDate DEF Settles

\* The calls that go on to a second transaction: each of them starts from an
\* account it sees, and remembers what it saw of it.
LEMMA CallsSettle ==
    ASSUME Inv, SerialInv, NEW p \in Replicas, Call(p)
    PROVE  Settles(p)
  <1>0. TypeOK /\ SerialTables /\ UNCHANGED tables
    BY DEF Inv, SerialInv, Call, RegistrationCall, SignInCall,
       PasswordResetCall, Register, ResendActivationCode, ActivateAccount,
       RemoveAccount, UpdateSettings, Login, ResendSecondFactorCode,
       VerifySecondFactor, VerifyAccount, ResendVerificationCode,
       RequestReset, CancelPasswordReset, ConfirmPasswordReset
  <1>1. ASSUME NEW a, Reply(p, a)
        PROVE  Settles(p)
    BY <1>0, <1>1, ReadAndReplySettles
  <1>2. ASSUME NEW label, NEW j, Goto(p, label, j),
               pc'[p] = label /\ job'[p] = j => UpToDate(p)'
        PROVE  Settles(p)
    BY <1>0, <1>2, ReadAndGotoSettles
  <1>3. \A u \in Users : Visible(u)' <=> Visible(u)
    BY <1>0 DEF tables, Visible
  <1>4. ASSUME NEW u \in Users, NEW t \in Tokens, NEW w \in Passwords,
               Register(p, u, t, w)
        PROVE  Settles(p)
    <2> DEFINE j == [NoJob EXCEPT !.user = u, !.token = t, !.password = w]
    <2>1. pc'[p] = "pickActivation" => UpToDate(p)'
      BY DEF UpToDate
    <2>2. (\E a : Reply(p, a)) \/ Goto(p, "pickActivation", j)
      BY <1>4 DEF Register
    <2> HIDE DEF j
    <2> QED
      BY <1>1, <1>2, <2>1, <2>2
  <1>5. ASSUME NEW c \in Codes, ActivateAccount(p, c)
        PROVE  Settles(p)
    <2>1. ASSUME NEW u \in GetUserByActivationCode(c),
                 Goto(p, "activate", [NoJob EXCEPT !.user = u, !.code = c])
          PROVE  Settles(p)
      <3> DEFINE j == [NoJob EXCEPT !.user = u, !.code = c]
      <3>1. /\ u \in Users /\ Visible(u) /\ activationCode[u] = c
            /\ j.user = u /\ j.code = c
        BY DEF GetUserByActivationCode, NoJob
      <3> HIDE DEF j
      <3>2. pc'[p] = "activate" /\ job'[p] = j => UpToDate(p)'
        BY <1>0, <1>3, <3>1 DEF UpToDate, tables
      <3> QED
        BY <1>2, <2>1, <3>2 DEF j
    <2> QED
      BY <1>1, <1>5, <2>1 DEF ActivateAccount
  <1>6. ASSUME NEW u \in Users, NEW label, NEW j, Visible(u), j.user = u,
               label \in {"removeAccount", "saveSettings", "pickReset",
                          "signSecondFactor", "updatePassword"},
               Goto(p, label, j)
        PROVE  Settles(p)
    <2>1. pc'[p] = label /\ job'[p] = j => UpToDate(p)'
      BY <1>3, <1>6 DEF UpToDate
    <2> QED
      BY <1>2, <1>6, <2>1
  <1>7. ASSUME NEW u \in Users, RemoveAccount(p, u)
        PROVE  Settles(p)
    <2>1. [NoJob EXCEPT !.user = u].user = u
      BY DEF NoJob
    <2> QED
      BY <1>1, <1>6, <1>7, <2>1 DEF RemoveAccount
  <1>8. ASSUME NEW u \in Users, NEW f \in BOOLEAN, UpdateSettings(p, u, f)
        PROVE  Settles(p)
    <2>1. [NoJob EXCEPT !.user = u, !.twoFactor = f].user = u
      BY DEF NoJob
    <2> QED
      BY <1>1, <1>6, <1>8, <2>1 DEF UpdateSettings
  <1>9. ASSUME NEW u \in Users, NEW t \in Tokens, NEW w \in Passwords,
               Login(p, u, t, w)
        PROVE  Settles(p)
    <2> DEFINE j == [NoJob EXCEPT !.user = u, !.token = t, !.password = w,
                                  !.twoFactor = users[u].twoFactor]
    <2>1. /\ j.user = u /\ j.password = w
          /\ j.twoFactor = users[u].twoFactor
      BY DEF NoJob
    <2> HIDE DEF j
    <2>2. Visible(u) /\ users[u].password = w =>
             (pc'[p] = "findDevice" /\ job'[p] = j => UpToDate(p)')
      BY <1>0, <1>3, <2>1 DEF UpToDate, tables
    <2>3. \/ \E a : Reply(p, a)
          \/ /\ Visible(u) /\ users[u].password = w
             /\ Goto(p, "findDevice", j)
      BY <1>9 DEF Login, CompareHashes, j
    <2> QED
      BY <1>1, <1>2, <2>2, <2>3
  <1>10. ASSUME NEW c \in Codes, VerifySecondFactor(p, c)
         PROVE  Settles(p)
    <2>1. ASSUME NEW u \in GetUserBySecondFactor(c),
                 Goto(p, "signSecondFactor",
                      [NoJob EXCEPT !.user = u, !.code = c,
                                    !.token = secondFactor[u].token])
          PROVE  Settles(p)
      <3>1. /\ u \in Users /\ Visible(u)
            /\ [NoJob EXCEPT !.user = u, !.code = c,
                             !.token = secondFactor[u].token].user = u
        BY DEF GetUserBySecondFactor, NoJob
      <3> QED
        BY <1>6, <2>1, <3>1
    <2> QED
      BY <1>1, <1>10, <2>1 DEF VerifySecondFactor
  <1>11. ASSUME NEW op, NEW u \in Users, RequestReset(p, op, u)
         PROVE  Settles(p)
    <2>1. [NoJob EXCEPT !.user = u].user = u
      BY DEF NoJob
    <2> QED
      BY <1>1, <1>6, <1>11, <2>1 DEF RequestReset
  <1>12. ASSUME NEW c \in Codes, NEW w \in Passwords,
                ConfirmPasswordReset(p, c, w)
         PROVE  Settles(p)
    <2>1. ASSUME NEW u \in GetUserByResetCode(c),
                 Goto(p, "updatePassword",
                      [NoJob EXCEPT !.user = u, !.code = c, !.password = w])
          PROVE  Settles(p)
      <3>1. /\ u \in Users /\ Visible(u)
            /\ [NoJob EXCEPT !.user = u, !.code = c, !.password = w].user = u
        BY DEF GetUserByResetCode, NoJob
      <3> QED
        BY <1>6, <2>1, <3>1
    <2> QED
      BY <1>1, <1>12, <2>1 DEF ConfirmPasswordReset
  <1>13. CASE \/ \E u \in Users :
                    \/ ResendActivationCode(p, u)
                    \/ ResendSecondFactorCode(p, u)
                    \/ ResendVerificationCode(p, u)
                    \/ CancelPasswordReset(p, u)
              \/ VerifyAccount(p)
    <2>1. \E a : Reply(p, a)
      BY <1>13 DEF ResendActivationCode, ResendSecondFactorCode,
         ResendVerificationCode, CancelPasswordReset, VerifyAccount
    <2> QED
      BY <1>1, <2>1
  <1> QED
    BY <1>4, <1>5, <1>7, <1>8, <1>9, <1>10, <1>11, <1>12, <1>13
       DEF Call, RegistrationCall, SignInCall, PasswordResetCall

\* The steps in the middle of a handler that only read: they draw codes, look
\* for a device, sign, or find that a clean-up is refused.
LEMMA ReadingStepsSettle ==
    ASSUME Inv, SerialInv, NEW p \in Replicas,
           \/ \E c \in Codes : \/ PickActivationCode(p, c)
                               \/ PickSecondFactorCode(p, c)
                               \/ PickResetCode(p, c)
           \/ FindDevice(p) \/ SignLogin(p) \/ SignSecondFactor(p)
           \/ RemoveSecondFactor(p) \/ RemoveResetCode(p)
           \/ TransactionFails(p)
    PROVE  Settles(p)
  <1> DEFINE j == job[p]
  <1>0. /\ TypeOK /\ SerialTables /\ UNCHANGED tables /\ UpToDate(p)
        /\ j \in Job
    BY DEF Inv, TypeOK, SerialInv, PickActivationCode, PickSecondFactorCode,
       PickResetCode, FindDevice, SignLogin, SignSecondFactor,
       RemoveSecondFactor, RemoveResetCode, TransactionFails
  <1>1. ASSUME NEW a, Reply(p, a)
        PROVE  Settles(p)
    BY <1>0, <1>1, ReadAndReplySettles
  <1>2. ASSUME NEW label, NEW k, Goto(p, label, k),
               pc'[p] = label /\ job'[p] = k => UpToDate(p)'
        PROVE  Settles(p)
    BY <1>0, <1>2, ReadAndGotoSettles
  <1>3. UNCHANGED <<users, activationCode, devices>>
    BY <1>0 DEF tables
  <1>4. ASSUME NEW c \in Codes, NEW label, Goto(p, label, [j EXCEPT !.code = c]),
               \/ label = "createUser"
               \/ /\ label \in {"createSecondFactor", "createReset"}
                  /\ Visible(j.user)
        PROVE  Settles(p)
    <2> DEFINE k == [j EXCEPT !.code = c]
    <2>1. k.user = j.user /\ k.code = c
      BY <1>0 DEF Job
    <2> HIDE DEF k
    <2>2. pc'[p] = label /\ job'[p] = k => UpToDate(p)'
      BY <1>3, <1>4, <2>1 DEF UpToDate, Visible
    <2> QED
      BY <1>2, <1>4, <2>2 DEF k
  <1>5. ASSUME NEW c \in Codes,
               \/ PickActivationCode(p, c) \/ PickSecondFactorCode(p, c)
               \/ PickResetCode(p, c)
        PROVE  Settles(p)
    BY <1>0, <1>4, <1>5 DEF PickActivationCode, PickSecondFactorCode,
       PickResetCode, UpToDate
  <1>6. CASE FindDevice(p)
    <2>1. /\ pc[p] = "findDevice" /\ Visible(j.user)
          /\ users[j.user].password = j.password
          /\ users[j.user].twoFactor = j.twoFactor
      BY <1>0, <1>6 DEF FindDevice, UpToDate
    <2>2. CASE devices[j.user][j.token] = 0 /\ Goto(p, "createDevice", j)
      <3>1. pc'[p] = "createDevice" /\ job'[p] = j => UpToDate(p)'
        BY <1>3, <2>1, <2>2 DEF UpToDate, Visible
      <3> QED
        BY <1>2, <2>2, <3>1
    <2>3. CASE Goto(p, AfterDevice(j), j)
      <3>1. /\ AfterDevice(j) \in {"pickSecondFactor", "signLogin"}
            /\ AfterDevice(j) = "signLogin" => ~j.twoFactor
        BY DEF AfterDevice
      <3>2. pc'[p] = AfterDevice(j) /\ job'[p] = j => UpToDate(p)'
        BY <1>3, <2>1, <3>1 DEF UpToDate, Visible
      <3> QED
        BY <1>2, <2>3, <3>2
    <2> QED
      BY <1>1, <1>6, <2>2, <2>3 DEF FindDevice
  <1>7. CASE SignSecondFactor(p) /\ Goto(p, "removeSecondFactor", j)
    <2>1. Visible(j.user)
      BY <1>0, <1>7 DEF SignSecondFactor, UpToDate
    <2>2. pc'[p] = "removeSecondFactor" /\ job'[p] = j => UpToDate(p)'
      BY <1>3, <2>1 DEF UpToDate, Visible
    <2> QED
      BY <1>2, <1>7, <2>2
  <1>8. CASE \/ SignLogin(p) \/ RemoveSecondFactor(p) \/ RemoveResetCode(p)
             \/ TransactionFails(p)
    <2>1. \E a : Reply(p, a)
      BY <1>8 DEF SignLogin, RemoveSecondFactor, RemoveResetCode,
         TransactionFails
    <2> QED
      BY <1>1, <2>1
  <1> QED
    BY <1>1, <1>5, <1>6, <1>7, <1>8 DEF SignSecondFactor

LEMMA RestartSettles ==
    ASSUME Inv, SerialInv, NEW p \in Replicas, Restart(p)
    PROVE  Settles(p)
  <1>1. TypeOK /\ SerialTables /\ UNCHANGED tables /\ pc'[p] = "idle"
    BY DEF Inv, TypeOK, SerialInv, Restart
  <1> QED
    BY <1>1, TablesRead, IdleUpToDate DEF Settles

\* A step of one replica leaves the others with what they rely on: it only
\* reads, or they are idle while it writes.
LEMMA NextSerial ==
    ASSUME Inv, SerialInv, HandlersTakeTurns, [Next]_vars
    PROVE  SerialInv'
  <1>1. ASSUME NEW p \in Replicas, Settles(p), OnlyMoves(p)
        PROVE  SerialInv'
    <2>1. ASSUME NEW q \in Replicas \ {p}
          PROVE  UpToDate(q)'
      <3>1. pc'[q] = pc[q] /\ job'[q] = job[q]
        BY <1>1 DEF OnlyMoves
      <3>2. CASE UNCHANGED tables
        BY <3>1, <3>2 DEF SerialInv, UpToDate, Visible, tables
      <3>3. CASE pc[p] # "idle"
        <4>1. pc'[q] = "idle"
          BY <3>1, <3>3 DEF HandlersTakeTurns
        <4> QED
          BY <4>1, IdleUpToDate
      <3> QED
        BY <1>1, <3>2, <3>3 DEF Settles
    <2> QED
      BY <1>1, <2>1 DEF Settles, SerialInv
  <1>2. ASSUME NEW p \in Replicas,
               Call(p) \/ Step(p) \/ TransactionFails(p) \/ Restart(p)
        PROVE  Settles(p) /\ OnlyMoves(p)
    <2>1. OnlyMoves(p)
      BY <1>2, RegistrationAdvances, SignInAdvances, PasswordResetAdvances,
         FailureAdvances DEF Call, Step, Advances
    <2>2. Settles(p)
      BY <1>2, CallsSettle, ReadingStepsSettle, RestartSettles, CreateUserSettles,
         ActivateCommitSettles, RowWritesSettle, CreateDeviceSettles,
         CodeInsertsSettle
         DEF Step, RegistrationStep, SignInStep, PasswordResetStep
    <2> QED
      BY <2>1, <2>2
  <1>3. CASE UNCHANGED <<tables, pc, job>>
    <2>1. UNCHANGED tables
      BY <1>3
    <2>2. SerialTables'
      BY <2>1, TablesRead DEF SerialInv
    <2> QED
      BY <1>3, <2>2 DEF SerialInv, UpToDate, Visible, tables
  <1> QED
    BY <1>1, <1>2, <1>3 DEF Next, Tick, vars, tables

LEMMA SerialInvariance == Spec /\ []HandlersTakeTurns => [](Inv /\ SerialInv)
  <1>1. Init => SerialInv
    BY InitSerial
  <1>2. Inv /\ SerialInv /\ HandlersTakeTurns /\ [Next]_vars => SerialInv'
    BY NextSerial
  <1> QED
    BY <1>1, <1>2, Invariance, PTL DEF Spec

\* While handlers take turns FindOrCreateDevice never inserts a device twice;
\* the two-replica run device_duplicated shows that it needs the turns.
THEOREM DevicesStayUnique == Spec /\ []HandlersTakeTurns => []DeviceUnique
  <1>1. SerialInv => DeviceUnique
    BY DEF SerialInv, SerialTables
  <1> QED
    BY <1>1, SerialInvariance, PTL

\* No activation deletes the code another account waits with: CreateUser gives
\* every account a code of its own, and ActivateAccount deletes by value.
THEOREM PendingAccountsKeepCodes ==
    Spec /\ []HandlersTakeTurns => []PendingAccountHasCode
  <1>1. SerialInv => PendingAccountHasCode
    BY DEF SerialInv, SerialTables
  <1> QED
    BY <1>1, SerialInvariance, PTL

\* A login that skips the second factor still has the password it checked, on
\* an account that still does without, when GenerateJWT signs.
THEOREM LoginsStayCurrent == Spec /\ []HandlersTakeTurns => PasswordLoginCurrent
  <1>1. ASSUME SerialInv, NEW p \in Replicas, pc[p] = "signLogin"
        PROVE  users[job[p].user].password = job[p].password
               /\ ~users[job[p].user].twoFactor
    BY <1>1 DEF SerialInv, UpToDate
  <1>2. SerialInv /\ [Next]_vars =>
          [\A p \in Replicas :
            pc[p] = "signLogin" /\ answer'[p] = "ok" /\ pc'[p] = "idle" =>
                LET row == users[job[p].user]
                IN  row.password = job[p].password /\ ~row.twoFactor]_vars
    BY <1>1
  <1> QED
    BY <1>2, SerialInvariance, PTL DEF Spec, PasswordLoginCurrent
-----------------------------------------------------------------------------
\* What stays of an account when a step does not touch it.
Untouched(u) ==
    /\ users'[u] = users[u]
    /\ UNCHANGED <<activationCode[u], resetCode[u], secondFactor[u], devices[u]>>
    /\ {s \in sessions' : s.user = u} = {s \in sessions : s.user = u}

\* The steps that write.
WritesRow(p) ==
    \/ CreateUser(p) \/ ActivateCommit(p) \/ MarkRemoved(p) \/ SaveSettings(p)
    \/ UpdatePassword(p) \/ CreateDevice(p) \/ CreateSecondFactor(p)
    \/ CreateReset(p) \/ SignLogin(p) \/ SignSecondFactor(p)

LEMMA OtherStepsRead ==
    ASSUME [Next]_vars
    PROVE  \/ UNCHANGED <<tables, sessions>>
           \/ \E p \in Replicas : WritesRow(p)
  <1>1. ASSUME NEW p \in Replicas, Call(p)
        PROVE  UNCHANGED <<tables, sessions>>
    BY <1>1 DEF Call, RegistrationCall, SignInCall, PasswordResetCall,
       Register, ResendActivationCode, ActivateAccount, RemoveAccount,
       UpdateSettings, Login, ResendSecondFactorCode, VerifySecondFactor,
       VerifyAccount, ResendVerificationCode, RequestReset,
       CancelPasswordReset, ConfirmPasswordReset
  <1>2. ASSUME NEW p \in Replicas, Step(p)
        PROVE  UNCHANGED <<tables, sessions>> \/ WritesRow(p)
    BY <1>2 DEF Step, RegistrationStep, SignInStep, PasswordResetStep,
       PickActivationCode, FindDevice, PickSecondFactorCode,
       RemoveSecondFactor, PickResetCode, RemoveResetCode, WritesRow
  <1>3. ASSUME NEW p \in Replicas, TransactionFails(p) \/ Restart(p)
        PROVE  UNCHANGED <<tables, sessions>>
    BY <1>3 DEF TransactionFails, Restart
  <1>4. Tick \/ UNCHANGED vars => UNCHANGED <<tables, sessions>>
    BY DEF Tick, vars, tables
  <1> QED
    BY <1>1, <1>2, <1>3, <1>4 DEF Next

\* A handler writes about the account it loaded and no other.
LEMMA WritesOwnRow ==
    ASSUME Inv, SerialInv, NEW p \in Replicas, WritesRow(p),
           NEW u \in Users, u # job[p].user
    PROVE  Untouched(u)
  <1> DEFINE j == job[p]
  <1>0. TypeOK
    BY DEF Inv
  <1>1. CASE SignLogin(p) \/ SignSecondFactor(p)
    <2>1. UNCHANGED tables
      BY <1>1 DEF SignLogin, SignSecondFactor
    <2>2. \/ UNCHANGED sessions
          \/ \E how : sessions' = sessions \cup
                        {[user |-> j.user, token |-> j.token, via |-> how]}
      BY <1>1 DEF SignLogin, SignSecondFactor
    <2> QED
      BY <2>1, <2>2 DEF Untouched, tables
  <1>2. CASE CreateUser(p)
    BY <1>0, <1>2 DEF CreateUser, TypeOK, Untouched, tables
  <1>3. CASE ActivateCommit(p)
    <2>1. /\ j.user \in Users /\ activationCode[j.user] = j.code
          /\ Visible(j.user)
      BY <1>3 DEF ActivateCommit, Inv, HandlersBacked, HandlerBacked, SerialInv,
         UpToDate
    <2>2. /\ users' = [users EXCEPT ![j.user].active = TRUE]
          /\ activationCode' =
               [v \in Users |-> IF activationCode[v] = j.code
                                THEN NoCode ELSE activationCode[v]]
          /\ UNCHANGED <<resetCode, secondFactor, devices, sessions>>
      BY <1>3, <2>1 DEF ActivateCommit
    <2>3. users'[u] = users[u]
      BY <1>0, <2>2 DEF TypeOK
    <2>4. activationCode'[u] = activationCode[u]
      BY <2>1, <2>2 DEF SerialInv, SerialTables, ActivationCodesUnique
    <2> QED
      BY <2>2, <2>3, <2>4 DEF Untouched
  <1>4. CASE MarkRemoved(p) \/ SaveSettings(p) \/ UpdatePassword(p)
    BY <1>0, <1>4
       DEF MarkRemoved, SaveSettings, UpdatePassword, TypeOK, Untouched
  <1>5. CASE CreateDevice(p)
    BY <1>0, <1>5 DEF CreateDevice, TypeOK, Untouched
  <1>6. CASE CreateSecondFactor(p)
    BY <1>0, <1>6 DEF CreateSecondFactor, TypeOK, Untouched
  <1>7. CASE CreateReset(p)
    BY <1>0, <1>7 DEF CreateReset, TypeOK, Untouched
  <1> QED
    BY <1>1, <1>2, <1>3, <1>4, <1>5, <1>6, <1>7 DEF WritesRow

\* While handlers take turns nothing about a removed account changes: the
\* handler that writes loaded an account it saw, and sees it still.
THEOREM RemovedStaysFrozen == Spec /\ []HandlersTakeTurns => RemovedIsFrozen
  <1>1. ASSUME Inv, SerialInv, [Next]_vars, NEW u \in Users, users[u].removed
        PROVE  Untouched(u)
    <2>1. CASE UNCHANGED <<tables, sessions>>
      BY <2>1 DEF Untouched, tables
    <2>2. ASSUME NEW p \in Replicas, WritesRow(p)
          PROVE  Untouched(u)
      <3>1. CASE u # job[p].user
        BY <1>1, <2>2, <3>1, WritesOwnRow
      <3>2. CASE u = job[p].user /\ CreateUser(p)
        <4>1. users[u].exists
          BY <1>1 DEF Inv, TablesBacked, RowsOrdered
        <4>2. UNCHANGED <<tables, sessions>>
          BY <3>2, <4>1 DEF CreateUser
        <4> QED
          BY <4>2 DEF Untouched, tables
      <3>3. CASE u = job[p].user /\ ~CreateUser(p)
        <4>1. pc[p] \notin {"idle", "pickActivation", "createUser"}
          BY <2>2, <3>3 DEF WritesRow, ActivateCommit, MarkRemoved,
             SaveSettings, UpdatePassword, CreateDevice, CreateSecondFactor,
             CreateReset, SignLogin, SignSecondFactor
        <4>2. Visible(u)
          BY <1>1, <3>3, <4>1 DEF SerialInv, UpToDate
        <4> QED
          BY <1>1, <4>2 DEF Visible
      <3> QED
        BY <3>1, <3>2, <3>3
    <2> QED
      BY <1>1, <2>1, <2>2, OtherStepsRead
  <1>2. Inv /\ SerialInv /\ [Next]_vars =>
          [\A u \in Users : users[u].removed =>
            /\ users'[u] = users[u]
            /\ UNCHANGED <<activationCode[u], resetCode[u], secondFactor[u],
                           devices[u]>>
            /\ {s \in sessions' : s.user = u} = {s \in sessions : s.user = u}
          ]_vars
    BY <1>1 DEF Untouched
  <1> QED
    BY <1>2, SerialInvariance, PTL DEF Spec, RemovedIsFrozen
-----------------------------------------------------------------------------
\* A service of one replica needs no more: the tracker's mutex, which is held
\* while a handler runs, makes check-then-act safe everywhere.
THEOREM SingleReplica ==
    ASSUME \A p, q \in Replicas : p = q
    PROVE  Spec => /\ []DeviceUnique /\ []PendingAccountHasCode
                   /\ PasswordLoginCurrent /\ RemovedIsFrozen
  <1>1. HandlersTakeTurns
    BY SingleReplicaTakesTurns
  <1> QED
    BY <1>1, DevicesStayUnique, PendingAccountsKeepCodes, LoginsStayCurrent,
       RemovedStaysFrozen, PTL
=============================================================================
