---------------------------- MODULE Registration ----------------------------
(***************************************************************************)
(* Register, ResendActivationCode, ActivateAccount, and the authenticated  *)
(* RemoveAccount and UpdateSettings: the handlers that move an account     *)
(* through its life.                                                       *)
(***************************************************************************)
EXTENDS UsersTables

\* GetUserByMail finds the mail taken, or finds nothing.  Its error is
\* discarded, so a query that failed for another reason counts as nothing.
Register(p, u, t, w) ==
    /\ Starts(p, "Register")
    /\ \/ Visible(u) /\ Reply(p, "err")
       \/ Goto(p, "pickActivation",
               [NoJob EXCEPT !.user = u, !.token = t, !.password = w])
    /\ UNCHANGED <<tables, clock, sessions>>

\* CreateUser, first part: draw codes until one is not in the table.
PickActivationCode(p, c) ==
    /\ pc[p] = "pickActivation"
    /\ ~InUse(activationCode, c)
    /\ Goto(p, "createUser", [job[p] EXCEPT !.code = c])
    /\ UNCHANGED <<tables, clock, sessions>>

\* CreateUser, second part: the unique indexes on mail and code decide at the
\* insert.  The user, its settings, its device and its code commit together.
\* The registration event is produced after the commit; its error is logged.
CreateUser(p) ==
    LET j == job[p] IN
    /\ pc[p] = "createUser"
    /\ \/ /\ users[j.user].exists \/ InUse(activationCode, j.code)
          /\ Reply(p, "err")
          /\ UNCHANGED tables
       \/ /\ ~users[j.user].exists /\ ~InUse(activationCode, j.code)
          /\ users' = [users EXCEPT ![j.user] =
                         [AbsentRow EXCEPT !.exists = TRUE,
                                           !.password = j.password]]
          /\ activationCode' = [activationCode EXCEPT ![j.user] = j.code]
          /\ devices' = [devices EXCEPT ![j.user][j.token] = @ + 1]
          /\ Reply(p, "ok")
          /\ UNCHANGED <<resetCode, secondFactor>>
    /\ UNCHANGED <<clock, sessions>>

\* The handler reads the row and publishes it.  It dereferences the loaded
\* code without a check, and an account that was activated has none.
ResendActivationCode(p, u) ==
    /\ Starts(p, "ResendActivationCode")
    /\ \/ Reply(p, "err")          \* not visible, or the query failed
       \/ /\ Visible(u)
          /\ \E a \in CreateRegistrationEvent(activationCode[u]) : Reply(p, a)
    /\ UNCHANGED <<tables, clock, sessions>>

\* ActivateAccount, first statement: the visible user that owns the code.
ActivateAccount(p, c) ==
    /\ Starts(p, "ActivateAccount")
    /\ \/ Reply(p, "err")          \* nobody owns it, or the query failed
       \/ \E u \in GetUserByActivationCode(c) :
            Goto(p, "activate", [NoJob EXCEPT !.user = u, !.code = c])
    /\ UNCHANGED <<tables, clock, sessions>>

\* Variant: the code survives the activation.
ActivateCommitKeepingCode(p) ==
    /\ pc[p] = "activate"
    /\ Visible(job[p].user)
    /\ users' = [users EXCEPT ![job[p].user].active = TRUE]
    /\ Reply(p, "ok")
    /\ UNCHANGED <<activationCode, resetCode, secondFactor, devices, clock,
                   sessions>>

\* Variant: the delete lost its Where.
ActivateCommitDeletingAll(p) ==
    /\ pc[p] = "activate"
    /\ Visible(job[p].user)
    /\ users' = [users EXCEPT ![job[p].user].active = TRUE]
    /\ activationCode' = [u \in Users |-> NoCode]
    /\ Reply(p, "ok")
    /\ UNCHANGED <<resetCode, secondFactor, devices, clock, sessions>>

\* The rest of the transaction: the UPDATE locks the user's row until the
\* commit; the codes are deleted by value, whoever owns them by now; the
\* re-read finds nothing, and all is rolled back, if the user was removed.
ActivateCommit(p) ==
    LET j == job[p] IN
    /\ pc[p] = "activate"
    /\ \/ ~Visible(j.user) /\ Reply(p, "err") /\ UNCHANGED tables
       \/ /\ Visible(j.user)
          /\ users' = [users EXCEPT ![j.user].active = TRUE]
          /\ activationCode' =
               [u \in Users |-> IF activationCode[u] = j.code
                                THEN NoCode ELSE activationCode[u]]
          /\ Reply(p, "ok")
          /\ UNCHANGED <<resetCode, secondFactor, devices>>
    /\ UNCHANGED <<clock, sessions>>
-----------------------------------------------------------------------------
\* HandleUserAction: the user is loaded in one transaction ...
RemoveAccount(p, u) ==
    /\ Starts(p, "RemoveAccount")
    /\ Authenticated(u)
    /\ \/ Reply(p, "err")
       \/ Visible(u) /\ Goto(p, "removeAccount", [NoJob EXCEPT !.user = u])
    /\ UNCHANGED <<tables, clock, sessions>>

\* Variant: the row is deleted instead of marked.
MarkRemovedHard(p) ==
    /\ pc[p] = "removeAccount"
    /\ users' = [users EXCEPT ![job[p].user] = AbsentRow]
    /\ Reply(p, "ok")
    /\ UNCHANGED <<activationCode, resetCode, secondFactor, devices, clock,
                   sessions>>

\* ... and marked removed in another, by id and without a condition.  The
\* notification is produced after the commit and its error is returned.
MarkRemoved(p) ==
    /\ pc[p] = "removeAccount"
    /\ users' = [users EXCEPT ![job[p].user].removed = TRUE]
    /\ \E a \in CreateNotificationEvent : Reply(p, a)
    /\ UNCHANGED <<activationCode, resetCode, secondFactor, devices, clock,
                   sessions>>

\* HandleUserServiceCall with UpdateUsersSettings, likewise in two.
UpdateSettings(p, u, f) ==
    /\ Starts(p, "UpdateSettings")
    /\ Authenticated(u)
    /\ \/ Reply(p, "err")
       \/ /\ Visible(u)
          /\ Goto(p, "saveSettings",
                  [NoJob EXCEPT !.user = u, !.twoFactor = f])
    /\ UNCHANGED <<tables, clock, sessions>>

\* The settings row is updated by id.  The user is re-read with its error
\* discarded: if it was removed meanwhile the caller dereferences nil, after
\* the commit.
SaveSettings(p) ==
    LET j == job[p] IN
    /\ pc[p] = "saveSettings"
    /\ users' = [users EXCEPT ![j.user].twoFactor = j.twoFactor]
    /\ \/ Visible(j.user) /\ \E a \in CreateNotificationEvent : Reply(p, a)
       \/ ~Visible(j.user) /\ Reply(p, "panic")
    /\ UNCHANGED <<activationCode, resetCode, secondFactor, devices, clock,
                   sessions>>
-----------------------------------------------------------------------------
RegistrationCall(p) ==
    \/ \E u \in Users, t \in Tokens, w \in Passwords : Register(p, u, t, w)
    \/ \E u \in Users : ResendActivationCode(p, u)
    \/ \E c \in Codes : ActivateAccount(p, c)
    \/ \E u \in Users : RemoveAccount(p, u)
    \/ \E u \in Users, f \in BOOLEAN : UpdateSettings(p, u, f)

RegistrationStep(p) ==
    \/ \E c \in Codes : PickActivationCode(p, c)
    \/ CreateUser(p)
    \/ ActivateCommit(p)
    \/ MarkRemoved(p)
    \/ SaveSettings(p)
=============================================================================
