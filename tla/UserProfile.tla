----------------------------- MODULE UserProfile -----------------------------
(***************************************************************************)
(* UsersService beside the account operations: mail and phone, details,    *)
(* roles, the listing of users, and the user cache those handlers write.   *)
(*                                                                         *)
(* Several replicas share the users table and Redis; each runs one handler *)
(* at a time, a step is one transaction or one command to Redis, as in     *)
(* UsersTables.  Callers hold a token, so the accounts are activated ones; *)
(* a row is what these handlers read and write of it.  Of the three cache  *)
(* keys of a user only user-public:<id> is ever set: UpdateCache takes the *)
(* other two for a user loaded with details, and no caller loads them.     *)
(***************************************************************************)
EXTENDS Integers

CONSTANTS
    Users,          \* ids of accounts
    Mails, Phones, NoPhone,
    Roles,
    Replicas,
    NoRow           \* no row found, nothing cached

Row == [mail : Mails, phone : Phones \cup {NoPhone}, removed : BOOLEAN]

ASSUME ProfileAssumption == NoPhone \notin Phones /\ NoRow \notin Row

VARIABLES
    users,          \* the users table
    roles,          \* user_user_roles: the roles of each user
    cached,         \* Redis: the row stored under user-public:<id>
    missed,         \* users whose entry is stale for a known cause (history)
    pc, job, answer \* the handler each replica runs, and how its last ended

vars == <<users, roles, cached, missed, pc, job, answer>>

MaybeRow == Row \cup {NoRow}

\* Locals of a handler: the operation and its user, what was asked for, the
\* row it loaded and the one it read again, the users it listed and has still
\* to cache, and whether it has written (history).
Job == [op : {"none", "UpdateUser", "RemoveAccount", "AddRole", "RevokeRole",
              "Index", "GetUserByResetCode"},
        user : Users \cup {NoRow}, mail : Mails \cup {NoRow},
        phone : Phones \cup {NoPhone}, loaded : MaybeRow, reread : MaybeRow,
        listing : [Users -> MaybeRow], wrote : BOOLEAN]

NothingListed == [u \in Users |-> NoRow]

NoJob == [op |-> "none", user |-> NoRow, mail |-> NoRow, phone |-> NoPhone,
          loaded |-> NoRow, reread |-> NoRow, listing |-> NothingListed,
          wrote |-> FALSE]

Init ==
    /\ users \in {t \in [Users -> Row] :
                    \A u, v \in Users :
                        /\ ~t[u].removed /\ t[u].phone = NoPhone
                        /\ u # v => t[u].mail # t[v].mail}
    /\ roles = [u \in Users |-> {}]
    /\ cached = [u \in Users |-> NoRow]
    /\ missed = {}
    /\ pc = [p \in Replicas |-> "idle"]
    /\ job = [p \in Replicas |-> NoJob]
    /\ answer = [p \in Replicas |-> "none"]
-----------------------------------------------------------------------------
Visible(u) == ~users[u].removed

Goto(p, label, j) ==
    /\ pc' = [pc EXCEPT ![p] = label]
    /\ job' = [job EXCEPT ![p] = j]
    /\ answer' = [answer EXCEPT ![p] = "none"]

Reply(p, a) ==
    /\ pc' = [pc EXCEPT ![p] = "idle"]
    /\ job' = [job EXCEPT ![p] = NoJob]
    /\ answer' = [answer EXCEPT ![p] = a]

\* Query().Where(...).Exist(): anybody's row counts, a removed one as well.
PhoneExists(ph) == \E u \in Users : users[u].phone = ph
MailExists(m) == \E u \in Users : users[u].mail = m

NewPhone(j) == j.phone # j.loaded.phone
NewMail(j) == j.mail # j.loaded.mail

\* Variant: each value is set into the other's column.
UpdatedSwapped(j) ==
    [users[j.user] EXCEPT
        !.phone = IF NewPhone(j) THEN j.mail ELSE @,
        !.mail = IF NewMail(j) THEN j.phone ELSE @]

\* The builder sets what the request changes of the row that was loaded, and
\* leaves the other column as it is in the table by now.
Updated(j) ==
    [users[j.user] EXCEPT
        !.phone = IF NewPhone(j) THEN j.phone ELSE @,
        !.mail = IF NewMail(j) THEN j.mail ELSE @]

\* The unique indexes on mail and phone.
IndexesAllow(u, row) ==
    \A v \in Users \ {u} :
        /\ users[v].mail # row.mail
        /\ row.phone # NoPhone => users[v].phone # row.phone

\* A handler on its way to Redis holds this user's row as it is now.
Listed(u) == \E q \in Replicas : job[q].listing[u] # NoRow

\* A row is written: the listings under way are behind it from now on.
WriteRow(u, row) ==
    /\ users' = [users EXCEPT ![u] = row]
    /\ missed' = IF row # users[u] /\ Listed(u) THEN missed \cup {u} ELSE missed

\* An entry is deleted, and what made it stale is over with it, unless a
\* listing will store the user as it was once more.
DeleteEntry(u) ==
    /\ cached' = [cached EXCEPT ![u] = NoRow]
    /\ missed' = IF \E q \in Replicas : job[q].listing[u] \notin {NoRow, users[u]}
                 THEN missed ELSE missed \ {u}
-----------------------------------------------------------------------------
\* UsersService.UpdateUser loads the user in a transaction of its own ...
UpdateUser(p, u, m, ph) ==
    /\ pc[p] = "idle"
    /\ \/ Reply(p, "err")
       \/ /\ Visible(u)
          /\ Goto(p, "checkContacts",
                  [NoJob EXCEPT !.op = "UpdateUser", !.user = u, !.mail = m,
                                !.phone = ph, !.loaded = users[u]])
    /\ UNCHANGED <<users, roles, cached, missed>>

\* ... and the repository looks for both values before it writes either.
CheckContacts(p) ==
    LET j == job[p]
        taken == \/ NewPhone(j) /\ PhoneExists(j.phone)
                 \/ NewMail(j) /\ MailExists(j.mail)
    IN  /\ pc[p] = "checkContacts"
        /\ \/ taken /\ Reply(p, "err")
           \/ ~taken /\ Goto(p, "saveContacts", j)
        /\ UNCHANGED <<users, roles, cached, missed>>

\* Variant: the values that were free a moment ago are written regardless.
SaveContactsUnindexed(p) ==
    LET j == job[p]
        row == Updated(j)
    IN  /\ pc[p] = "saveContacts"
        /\ WriteRow(j.user, row)
        /\ Goto(p, "invalidate",
                [j EXCEPT !.reread = IF row.removed THEN NoRow ELSE row,
                          !.wrote = row # users[j.user]])
        /\ UNCHANGED <<roles, cached>>

\* Variant: what is compared with the loaded user is the request, not the
\* row that was read again.
SaveContactsTrusting(p) ==
    LET j == job[p]
        row == Updated(j)
    IN  /\ pc[p] = "saveContacts"
        /\ IndexesAllow(j.user, row)
        /\ WriteRow(j.user, row)
        /\ Goto(p, "invalidate",
                [j EXCEPT !.reread = IF row.removed THEN NoRow ELSE j.loaded,
                          !.wrote = row # users[j.user]])
        /\ UNCHANGED <<roles, cached>>

\* The UPDATE, if anything is set, and the user is read again with its error
\* discarded.  No UPDATE, no lock, but then this is one statement.
SaveContacts(p) ==
    LET j == job[p]
        row == Updated(j)
        saved == NewPhone(j) \/ NewMail(j)
    IN  /\ pc[p] = "saveContacts"
        /\ \/ /\ saved /\ ~IndexesAllow(j.user, row)
              /\ Reply(p, "err")
              /\ UNCHANGED <<users, missed>>
           \/ /\ saved => IndexesAllow(j.user, row)
              /\ WriteRow(j.user, row)
              /\ Goto(p, "invalidate",
                      [j EXCEPT !.reread = IF row.removed THEN NoRow ELSE row,
                                !.wrote = row # users[j.user]])
        /\ UNCHANGED <<roles, cached>>

\* What UpdateUser answers.  A row that was not found again is dereferenced.
\* A phone or mail that differs from the loaded one is announced with a code
\* of the loaded user, and an activated account has neither: nil again.  Else
\* only the notification is produced, which may be refused.
UpdateUserAnswers(j) ==
    IF \/ j.reread = NoRow
       \/ j.reread.phone # j.loaded.phone
       \/ j.reread.mail # j.loaded.mail
    THEN {"panic"} ELSE {"ok", "err"}

Answers(j) ==
    CASE j.op = "UpdateUser" -> UpdateUserAnswers(j)
      [] j.op = "RemoveAccount" -> {"ok", "err"}
      [] OTHER -> {"ok"}
-----------------------------------------------------------------------------
\* HandleUserAction with RemoveAccount: load, then mark by id.
RemoveAccount(p, u) ==
    /\ pc[p] = "idle"
    /\ \/ Reply(p, "err")
       \/ /\ Visible(u)
          /\ Goto(p, "markRemoved",
                  [NoJob EXCEPT !.op = "RemoveAccount", !.user = u])
    /\ UNCHANGED <<users, roles, cached, missed>>

MarkRemoved(p) ==
    LET u == job[p].user IN
    /\ pc[p] = "markRemoved"
    /\ WriteRow(u, [users[u] EXCEPT !.removed = TRUE])
    /\ Goto(p, "invalidate", [job[p] EXCEPT !.wrote = TRUE])
    /\ UNCHANGED <<roles, cached>>

\* HandleUserServiceCall loads the user without its details, and the update
\* of the details, of those of an entrepreneur, or of the location starts by
\* dereferencing them.
UpdateDetails(p, u) ==
    /\ pc[p] = "idle"
    /\ \/ Reply(p, "err")
       \/ Visible(u) /\ Reply(p, "panic")
    /\ UNCHANGED <<users, roles, cached, missed>>

\* AddRole: the key of the join table refuses a role that is held.  The user
\* is read again, and InvalidateCache dereferences a removed one: the role is
\* added all the same.
AddRole(p, u, r) ==
    /\ pc[p] = "idle"
    /\ \/ Reply(p, "err") /\ UNCHANGED roles
       \/ /\ r \notin roles[u]
          /\ roles' = [roles EXCEPT ![u] = @ \cup {r}]
          /\ \/ ~Visible(u) /\ Reply(p, "panic")
             \/ /\ Visible(u)
                /\ Goto(p, "invalidate",
                        [NoJob EXCEPT !.op = "AddRole", !.user = u,
                                      !.wrote = TRUE])
    /\ UNCHANGED <<users, cached, missed>>

RevokeRole(p, u, r) ==
    /\ pc[p] = "idle"
    /\ \/ Reply(p, "err") /\ UNCHANGED roles
       \/ /\ roles' = [roles EXCEPT ![u] = @ \ {r}]
          /\ \/ ~Visible(u) /\ Reply(p, "panic")
             \/ /\ Visible(u)
                /\ Goto(p, "invalidate",
                        [NoJob EXCEPT !.op = "RevokeRole", !.user = u,
                                      !.wrote = r \in roles[u]])
    /\ UNCHANGED <<users, cached, missed>>

\* Variant: nothing is deleted from Redis.
InvalidateNothing(p) ==
    /\ pc[p] = "invalidate"
    /\ \E a \in Answers(job[p]) : Reply(p, a)
    /\ UNCHANGED <<users, roles, cached, missed>>

\* InvalidateCache after the commit: its error is discarded.  The event, if
\* any, and the answer follow.
Invalidate(p) ==
    LET u == job[p].user IN
    /\ pc[p] = "invalidate"
    /\ \/ DeleteEntry(u)
       \/ missed' = missed \cup {u} /\ UNCHANGED cached
    /\ \E a \in Answers(job[p]) : Reply(p, a)
    /\ UNCHANGED <<users, roles>>
-----------------------------------------------------------------------------
\* Index lists the users, removed ones included, with one query ...
Index(p) ==
    /\ pc[p] = "idle"
    /\ \/ Reply(p, "err")
       \/ Goto(p, "cacheUsers", [NoJob EXCEPT !.op = "Index", !.listing = users])
    /\ UNCHANGED <<users, roles, cached, missed>>

\* ... and a loader by reset code finds one visible user.
GetUserByResetCode(p, u) ==
    /\ pc[p] = "idle"
    /\ \/ Reply(p, "err")
       \/ /\ Visible(u)
          /\ Goto(p, "cacheUsers",
                  [NoJob EXCEPT !.op = "GetUserByResetCode",
                                !.listing[u] = users[u]])
    /\ UNCHANGED <<users, roles, cached, missed>>

\* UpdateCache for each of them.  A listing goes on if Redis refuses one, the
\* loader returns the error.
CacheUser(p, u) ==
    LET j == job[p]
        rest == [j EXCEPT !.listing[u] = NoRow]
    IN  /\ pc[p] = "cacheUsers"
        /\ j.listing[u] # NoRow
        /\ \/ /\ cached' = [cached EXCEPT ![u] = j.listing[u]]
              /\ Goto(p, "cacheUsers", rest)
           \/ /\ UNCHANGED cached
              /\ \/ j.op = "Index" /\ Goto(p, "cacheUsers", rest)
                 \/ j.op # "Index" /\ Reply(p, "err")
        /\ UNCHANGED <<users, roles, missed>>

AllCached(p) ==
    /\ pc[p] = "cacheUsers"
    /\ job[p].listing = NothingListed
    /\ Reply(p, "ok")
    /\ UNCHANGED <<users, roles, cached, missed>>

\* The entry is five minutes old.
Expire(u) ==
    /\ cached[u] # NoRow
    /\ DeleteEntry(u)
    /\ UNCHANGED <<users, roles, pc, job, answer>>

\* A statement or the commit fails; see UsersTables.
TransactionFails(p) ==
    /\ pc[p] \in {"checkContacts", "saveContacts", "markRemoved"}
    /\ \/ Reply(p, "err")
       \/ pc[p] = "markRemoved" /\ Reply(p, "panic")
    /\ UNCHANGED <<users, roles, cached, missed>>

\* The process dies and is started again; what it had to delete stays.
Restart(p) ==
    /\ pc' = [pc EXCEPT ![p] = "idle"]
    /\ job' = [job EXCEPT ![p] = NoJob]
    /\ answer' = [answer EXCEPT ![p] = "none"]
    /\ missed' = IF pc[p] = "invalidate" THEN missed \cup {job[p].user}
                 ELSE missed
    /\ UNCHANGED <<users, roles, cached>>
-----------------------------------------------------------------------------
Call(p) ==
    \/ \E u \in Users, m \in Mails, ph \in Phones : UpdateUser(p, u, m, ph)
    \/ \E u \in Users :
          RemoveAccount(p, u) \/ UpdateDetails(p, u) \/ GetUserByResetCode(p, u)
    \/ \E u \in Users, r \in Roles : AddRole(p, u, r) \/ RevokeRole(p, u, r)
    \/ Index(p)

Step(p) ==
    \/ CheckContacts(p) \/ SaveContacts(p) \/ MarkRemoved(p) \/ Invalidate(p)
    \/ AllCached(p)
    \/ \E u \in Users : CacheUser(p, u)

Next ==
    \/ \E p \in Replicas : Call(p) \/ Step(p) \/ TransactionFails(p) \/ Restart(p)
    \/ \E u \in Users : Expire(u)

Spec == Init /\ [][Next]_vars
-----------------------------------------------------------------------------
\* Every variable has its type.
TypeOK ==
    /\ users \in [Users -> Row]
    /\ roles \in [Users -> SUBSET Roles]
    /\ cached \in [Users -> MaybeRow]
    /\ missed \subseteq Users
    /\ pc \in [Replicas -> {"idle", "checkContacts", "saveContacts",
                            "markRemoved", "invalidate", "cacheUsers"}]
    /\ job \in [Replicas -> Job]
    /\ answer \in [Replicas -> {"none", "ok", "err", "panic"}]

\* No mail and no phone belongs to two accounts, although each handler looks
\* whether it is free some time before it writes it (UpdateUser).
ContactsUnique ==
    \A u, v \in Users : u # v =>
        /\ users[u].mail # users[v].mail
        /\ users[u].phone # NoPhone => users[u].phone # users[v].phone

\* What is answered is true, although the user was loaded in an earlier
\* transaction and another replica may have changed it since: "ok" of an
\* update means that the row had the mail and the phone asked for when it
\* committed, and an error means that the update changed nothing.
AnswersTrue ==
    [][\A p \in Replicas :
        LET j == job[p] IN
        j.op = "UpdateUser" /\ pc[p] = "invalidate" /\ pc'[p] = "idle" =>
            /\ answer'[p] = "ok" =>
                  j.reread.mail = j.mail /\ j.reread.phone = j.phone
            /\ answer'[p] = "err" => ~j.wrote
      ]_vars

\* A cached user is the user of the table, unless the handler that changed it
\* has still to delete the entry, or was not able to, or a listing read the
\* user before the change and stored it after (UpdateCache, InvalidateCache).
\* Such a cause counts until the entry is deleted: after that a stale entry
\* needs another one.
StaleHasACause ==
    \A u \in Users : cached[u] \notin {NoRow, users[u]} =>
        \/ u \in missed
        \/ \E p \in Replicas : pc[p] = "invalidate" /\ job[p].user = u
=============================================================================
