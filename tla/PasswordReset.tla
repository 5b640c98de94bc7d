---------------------------- MODULE PasswordReset ----------------------------
(***************************************************************************)
(* RequestPasswordReset, ResendResetCode, CancelPasswordReset and          *)
(* ConfirmPasswordReset.                                                   *)
(***************************************************************************)
EXTENDS UsersTables

\* RequestPasswordReset and ResendResetCode differ only in what they load
\* with the user, and neither uses it: load, then CreateResetCode.
RequestReset(p, op, u) ==
    /\ op \in {"RequestPasswordReset", "ResendResetCode"}
    /\ Starts(p, op)
    /\ \/ Reply(p, "err")
       \/ Visible(u) /\ Goto(p, "pickReset", [NoJob EXCEPT !.user = u])
    /\ UNCHANGED <<tables, clock, sessions>>

\* CreateResetCode, first part.
PickResetCode(p, c) ==
    /\ pc[p] = "pickReset"
    /\ ~InUse(resetCode, c)
    /\ Goto(p, "createReset", [job[p] EXCEPT !.code = c])
    /\ UNCHANGED <<tables, clock, sessions>>

\* Variant: tries again until the account has no code any more.
CreateResetWaiting(p) ==
    LET j == job[p] IN
    /\ pc[p] = "createReset"
    /\ resetCode[j.user] = NoCode /\ ~InUse(resetCode, j.code)
    /\ resetCode' = [resetCode EXCEPT ![j.user] = j.code]
    /\ Reply(p, "err")
    /\ UNCHANGED <<users, activationCode, secondFactor, devices, clock,
                   sessions>>

\* CreateResetCode, second part: code and owner are both unique.  After the
\* commit CreateResetPasswordEvent refuses, because no loader loads the second
\* factor target: the request ends in an error either way.
CreateReset(p) ==
    LET j == job[p] IN
    /\ pc[p] = "createReset"
    /\ \/ /\ resetCode[j.user] # NoCode \/ InUse(resetCode, j.code)
          /\ Reply(p, "err")
          /\ UNCHANGED resetCode
       \/ /\ resetCode[j.user] = NoCode /\ ~InUse(resetCode, j.code)
          /\ resetCode' = [resetCode EXCEPT ![j.user] = j.code]
          /\ \E a \in CreateResetPasswordEvent : Reply(p, a)
    /\ UNCHANGED <<users, activationCode, secondFactor, devices, clock,
                   sessions>>

\* GetUserByMail does not load the reset code, and RemoveResetCode refuses a
\* user whose code is not loaded.
CancelPasswordReset(p, u) ==
    /\ Starts(p, "CancelPasswordReset")
    /\ Reply(p, "err")
    /\ UNCHANGED <<tables, clock, sessions>>

\* Variant: the owner is looked up without its code.
ConfirmPasswordResetAnyCode(p, c, w) ==
    /\ Starts(p, "ConfirmPasswordReset")
    /\ \E u \in Users :
         /\ Visible(u)
         /\ Goto(p, "updatePassword",
                 [NoJob EXCEPT !.user = u, !.code = c, !.password = w])
    /\ UNCHANGED <<tables, clock, sessions>>

\* GetUserByResetCode, which caches the user it found: a failing Set is an
\* error as well.  Nothing looks at expires_at.
ConfirmPasswordReset(p, c, w) ==
    /\ Starts(p, "ConfirmPasswordReset")
    /\ \/ Reply(p, "err")
       \/ \E u \in GetUserByResetCode(c) :
            Goto(p, "updatePassword",
                 [NoJob EXCEPT !.user = u, !.code = c, !.password = w])
    /\ UNCHANGED <<tables, clock, sessions>>

\* UpdateUsersPassword: by id, without a condition.
UpdatePassword(p) ==
    LET j == job[p] IN
    /\ pc[p] = "updatePassword"
    /\ users' = [users EXCEPT ![j.user].password = j.password]
    /\ Goto(p, "removeResetCode", j)
    /\ UNCHANGED <<activationCode, resetCode, secondFactor, devices, clock,
                   sessions>>

\* RemoveResetCode refuses again: GetUserByResetCode loads only the settings.
RemoveResetCode(p) ==
    /\ pc[p] = "removeResetCode"
    /\ Reply(p, "err")
    /\ UNCHANGED <<tables, clock, sessions>>
-----------------------------------------------------------------------------
PasswordResetCall(p) ==
    \/ \E op \in Operations, u \in Users : RequestReset(p, op, u)
    \/ \E u \in Users : CancelPasswordReset(p, u)
    \/ \E c \in Codes, w \in Passwords : ConfirmPasswordReset(p, c, w)

PasswordResetStep(p) ==
    \/ \E c \in Codes : PickResetCode(p, c)
    \/ CreateReset(p)
    \/ UpdatePassword(p)
    \/ RemoveResetCode(p)
=============================================================================
