------------------------------- MODULE SignIn -------------------------------
(***************************************************************************)
(* Login with FindOrCreateDevice, and the second factor: the handlers that *)
(* sign a JWT.  VerifyAccount and ResendVerificationCode are here too: no  *)
(* code of the service ever inserts a verification code.                   *)
(***************************************************************************)
EXTENDS UsersTables

\* Where a login goes once it has its device.
AfterDevice(j) == IF j.twoFactor THEN "pickSecondFactor" ELSE "signLogin"

\* Variants: a pending account may log in; any password will do.
LoginUnchecked(p, u, t, w) ==
    /\ Starts(p, "Login")
    /\ Visible(u) /\ users[u].password = w
    /\ Goto(p, "findDevice",
            [NoJob EXCEPT !.user = u, !.token = t, !.password = w,
                          !.twoFactor = users[u].twoFactor])
    /\ UNCHANGED <<tables, clock, sessions>>

LoginAnyPassword(p, u, t, w) ==
    /\ Starts(p, "Login")
    /\ Visible(u) /\ users[u].active
    /\ Goto(p, "findDevice",
            [NoJob EXCEPT !.user = u, !.token = t, !.password = w,
                          !.twoFactor = users[u].twoFactor])
    /\ UNCHANGED <<tables, clock, sessions>>

\* A stored hash is identified with the password it was made from, so that
\* recomputing it with the stored salt and parameters compares the two.
CompareHashes(storedHash, w) == storedHash = w

\* GetUserByMail, the checks on the loaded user and CompareHashes, in order;
\* all of them end in an error.  The settings loaded here decide later on.
Login(p, u, t, w) ==
    LET row == users[u] IN
    /\ Starts(p, "Login")
    /\ \/ Reply(p, "err")
       \/ /\ Visible(u) /\ row.active
          /\ CompareHashes(row.password, w)
          /\ Goto(p, "findDevice",
                  [NoJob EXCEPT !.user = u, !.token = t, !.password = w,
                                !.twoFactor = row.twoFactor])
    /\ UNCHANGED <<tables, clock, sessions>>

\* Variants: a missing device is no reason to stop; the one found is ignored.
FindDeviceOptional(p) ==
    /\ pc[p] = "findDevice"
    /\ Goto(p, AfterDevice(job[p]), job[p])
    /\ UNCHANGED <<tables, clock, sessions>>

FindDeviceNever(p) ==
    /\ pc[p] = "findDevice"
    /\ Goto(p, "createDevice", job[p])
    /\ UNCHANGED <<tables, clock, sessions>>

\* FindOrCreateDevice, the query.  Only() wants exactly one row.
FindDevice(p) ==
    LET j == job[p]
        rows == devices[j.user][j.token]
    IN  /\ pc[p] = "findDevice"
        /\ \/ rows = 0 /\ Goto(p, "createDevice", j)
           \/ rows = 1 /\ Goto(p, AfterDevice(j), j)
           \/ rows > 1 /\ Reply(p, "err")        \* NotSingularError
        /\ UNCHANGED <<tables, clock, sessions>>

\* Variant: the built device is never saved.
CreateDeviceUnsaved(p) ==
    /\ pc[p] = "createDevice"
    /\ Goto(p, AfterDevice(job[p]), job[p])
    /\ UNCHANGED <<tables, clock, sessions>>

\* FindOrCreateDevice, the insert: no index makes (owner, token) unique.  The
\* public user is then loaded with its error discarded, and InvalidateCache
\* dereferences nil if it was removed or the query failed: the transaction
\* rolls back and panics.
CreateDevice(p) ==
    LET j == job[p] IN
    /\ pc[p] = "createDevice"
    /\ \/ /\ Visible(j.user)
          /\ devices' = [devices EXCEPT ![j.user][j.token] = @ + 1]
          /\ Goto(p, AfterDevice(j), j)
       \/ Reply(p, "panic") /\ UNCHANGED devices
    /\ UNCHANGED <<users, activationCode, resetCode, secondFactor, clock,
                   sessions>>

\* GenerateJWT signs, fails to sign, or outlives the request's context.
SignLogin(p) ==
    LET j == job[p] IN
    /\ pc[p] = "signLogin"
    /\ \/ Reply(p, "err") /\ UNCHANGED sessions
       \/ /\ sessions' = sessions \cup
                {[user |-> j.user, token |-> j.token, via |-> "password"]}
          /\ Reply(p, "ok")
    /\ UNCHANGED <<tables, clock>>

\* CreateSecondFactorCode, first part.
PickSecondFactorCode(p, c) ==
    /\ pc[p] = "pickSecondFactor"
    /\ ~SecondFactorInUse(c)
    /\ Goto(p, "createSecondFactor", [job[p] EXCEPT !.code = c])
    /\ UNCHANGED <<tables, clock, sessions>>

\* CreateSecondFactorCode, second part: code and owner are both unique.  Then
\* CreateSecondFactorEvent refuses: no loader loads the second factor target
\* of the settings, so the login ends in an error with the code committed.
CreateSecondFactor(p) ==
    LET j == job[p] IN
    /\ pc[p] = "createSecondFactor"
    /\ \/ /\ \/ secondFactor[j.user] # NoSecondFactor
             \/ SecondFactorInUse(j.code)
          /\ Reply(p, "err")
          /\ UNCHANGED secondFactor
       \/ /\ secondFactor[j.user] = NoSecondFactor
          /\ ~SecondFactorInUse(j.code)
          /\ secondFactor' = [secondFactor EXCEPT ![j.user] =
               [code |-> j.code, token |-> j.token,
                expiresAt |-> DefaultExpiry(p)]]
          /\ \E a \in CreateSecondFactorEvent : Reply(p, a)
    /\ UNCHANGED <<users, activationCode, resetCode, devices, clock, sessions>>

\* Reads the user and fails at CreateSecondFactorEvent at the latest.
ResendSecondFactorCode(p, u) ==
    /\ Starts(p, "ResendSecondFactorCode")
    /\ Reply(p, "err")
    /\ UNCHANGED <<tables, clock, sessions>>

\* The user that owns the code; an expired code is an error, and the clean-up
\* it sends to the background fails the way RemoveSecondFactor does.
VerifySecondFactor(p, c) ==
    /\ Starts(p, "VerifySecondFactor")
    /\ \/ Reply(p, "err")
       \/ \E u \in GetUserBySecondFactor(c) :
            /\ now <= secondFactor[u].expiresAt
            /\ Goto(p, "signSecondFactor",
                    [NoJob EXCEPT !.user = u, !.code = c,
                                  !.token = secondFactor[u].token])
    /\ UNCHANGED <<tables, clock, sessions>>

\* GenerateJWT for the device the code was created for.
SignSecondFactor(p) ==
    LET j == job[p] IN
    /\ pc[p] = "signSecondFactor"
    /\ \/ Reply(p, "err") /\ UNCHANGED sessions
       \/ /\ sessions' = sessions \cup
               {[user |-> j.user, token |-> j.token, via |-> "second-factor"]}
          /\ Goto(p, "removeSecondFactor", j)
    /\ UNCHANGED <<tables, clock>>

\* ClearSecondFactorCode sets the owner of the code row to NULL, and that
\* column is NOT NULL: the transaction rolls back.  The error is only logged.
RemoveSecondFactor(p) ==
    /\ pc[p] = "removeSecondFactor"
    /\ Reply(p, "ok")
    /\ UNCHANGED <<tables, clock, sessions>>

\* No row of verification_codes is ever inserted: the code is never found.
VerifyAccount(p) ==
    /\ Starts(p, "VerifyAccount")
    /\ Reply(p, "err")
    /\ UNCHANGED <<tables, clock, sessions>>

\* For a visible user CreateVerificationEvent dereferences the code it lacks.
ResendVerificationCode(p, u) ==
    /\ Starts(p, "ResendVerificationCode")
    /\ \/ Reply(p, "err")
       \/ Visible(u) /\ \E a \in CreateVerificationEvent : Reply(p, a)
    /\ UNCHANGED <<tables, clock, sessions>>
-----------------------------------------------------------------------------
SignInCall(p) ==
    \/ \E u \in Users, t \in Tokens, w \in Passwords : Login(p, u, t, w)
    \/ \E u \in Users : ResendSecondFactorCode(p, u)
    \/ \E c \in Codes : VerifySecondFactor(p, c)
    \/ VerifyAccount(p)
    \/ \E u \in Users : ResendVerificationCode(p, u)

SignInStep(p) ==
    \/ FindDevice(p)
    \/ CreateDevice(p)
    \/ SignLogin(p)
    \/ \E c \in Codes : PickSecondFactorCode(p, c)
    \/ CreateSecondFactor(p)
    \/ SignSecondFactor(p)
    \/ RemoveSecondFactor(p)
=============================================================================
