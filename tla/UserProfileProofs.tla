-------------------------- MODULE UserProfileProofs --------------------------
(***************************************************************************)
(* Proofs about UserProfile, for any users, mails, phones, roles and       *)
(* replicas.  A handler writes, answers and caches what an earlier         *)
(* transaction loaded; JobsBacked says what of it still holds, and         *)
(* ListingsFollowed why a stale listing is not forgotten.                  *)
(***************************************************************************)
EXTENDS UserProfile, TLAPS

\* The locals a handler works with, where it works with them.
JobBacked(p) ==
    LET j == job[p] IN
    /\ pc[p] \in {"checkContacts", "saveContacts", "markRemoved", "invalidate"}
          => j.user \in Users
    /\ pc[p] \in {"checkContacts", "saveContacts"}
          => j.op = "UpdateUser" /\ j.mail \in Mails /\ j.loaded \in Row
    /\ pc[p] = "markRemoved" => j.op = "RemoveAccount"
    /\ pc[p] = "invalidate" /\ j.op = "UpdateUser" =>
          /\ j.reread # NoRow => /\ NewMail(j) => j.reread.mail = j.mail
                                 /\ NewPhone(j) => j.reread.phone = j.phone
          /\ j.wrote => NewMail(j) \/ NewPhone(j)

JobsBacked == \A p \in Replicas : JobBacked(p)

\* What a replica is about to cache is the row of the table, or the user is
\* known as one whose row may be missed.
ListingsFollowed ==
    \A p \in Replicas, u \in Users :
        job[p].listing[u] \notin {NoRow, users[u]} => u \in missed

ProfileInv ==
    TypeOK /\ JobsBacked /\ ContactsUnique /\ ListingsFollowed /\ StaleHasACause

Labels == {"idle", "checkContacts", "saveContacts", "markRemoved",
           "invalidate", "cacheUsers"}
-----------------------------------------------------------------------------
LEMMA NoJobTyped == NoJob \in Job /\ NothingListed \in [Users -> MaybeRow]
  BY DEF NoJob, Job, NothingListed, MaybeRow

LEMMA ProfileInit == Init => ProfileInv
  <1> SUFFICES ASSUME Init PROVE ProfileInv
    OBVIOUS
  <1>1. users \in [Users -> Row]
    BY DEF Init
  <1>2. TypeOK
    BY <1>1, NoJobTyped DEF Init, TypeOK, MaybeRow
  <1>3. ContactsUnique
    BY DEF Init, ContactsUnique
  <1>4. JobsBacked /\ ListingsFollowed /\ StaleHasACause
    BY DEF Init, JobsBacked, JobBacked, ListingsFollowed, StaleHasACause,
           NoJob, NothingListed
  <1> QED
    BY <1>2, <1>3, <1>4 DEF ProfileInv

\* Goto and Reply move one replica and keep the types.
LEMMA MoveTyped ==
    ASSUME TypeOK, NEW p \in Replicas,
           NEW l \in Labels, NEW j \in Job, Goto(p, l, j)
    PROVE  /\ pc' \in [Replicas -> Labels] /\ job' \in [Replicas -> Job]
           /\ answer' \in [Replicas -> {"none", "ok", "err", "panic"}]
  BY DEF TypeOK, Goto, Labels

LEMMA ReplyTyped ==
    ASSUME TypeOK, NEW p \in Replicas, NEW a \in {"none", "ok", "err", "panic"},
           Reply(p, a)
    PROVE  /\ pc' \in [Replicas -> Labels] /\ job' \in [Replicas -> Job]
           /\ answer' \in [Replicas -> {"none", "ok", "err", "panic"}]
  BY NoJobTyped DEF TypeOK, Reply, Labels

\* The row that SaveContacts writes is a row, and differs only if the request
\* asked for something else than what was loaded.
LEMMA UpdatedRow ==
    ASSUME TypeOK, JobsBacked, NEW p \in Replicas, pc[p] = "saveContacts"
    PROVE  LET j == job[p] IN
           /\ j.user \in Users /\ Updated(j) \in Row
           /\ Updated(j).removed = users[j.user].removed
           /\ Updated(j).mail = IF NewMail(j) THEN j.mail
                                ELSE users[j.user].mail
           /\ Updated(j).phone = IF NewPhone(j) THEN j.phone
                                 ELSE users[j.user].phone
           /\ ~NewMail(j) /\ ~NewPhone(j) => Updated(j) = users[j.user]
  <1>1. job[p].user \in Users /\ job[p].mail \in Mails
    BY DEF JobsBacked, JobBacked
  <1>2. job[p].phone \in Phones \cup {NoPhone}
    BY DEF TypeOK, Job
  <1>3. users[job[p].user] \in Row
    BY <1>1 DEF TypeOK
  <1> QED
    BY <1>1, <1>2, <1>3 DEF Updated, Row

\* A handler on its way to a write or an answer knows its user.
LEMMA JobUser ==
    ASSUME TypeOK, JobsBacked, NEW p \in Replicas
    PROVE  /\ job[p] \in Job
           /\ pc[p] \in {"checkContacts", "saveContacts", "markRemoved",
                         "invalidate"} => job[p].user \in Users
  BY DEF TypeOK, JobsBacked, JobBacked

LEMMA CallTyped ==
    ASSUME TypeOK, NEW p \in Replicas, Call(p)
    PROVE  TypeOK'
  <1> USE NoJobTyped
  <1>1. ASSUME NEW u \in Users, NEW m \in Mails, NEW ph \in Phones,
               UpdateUser(p, u, m, ph)
        PROVE  TypeOK'
    <2>1. [NoJob EXCEPT !.op = "UpdateUser", !.user = u, !.mail = m,
                        !.phone = ph, !.loaded = users[u]] \in Job
      BY DEF Job, MaybeRow, TypeOK
    <2> QED
      BY <1>1, <2>1, MoveTyped, ReplyTyped DEF UpdateUser, TypeOK, Labels
  <1>2. ASSUME NEW u \in Users, RemoveAccount(p, u) PROVE TypeOK'
    <2>1. [NoJob EXCEPT !.op = "RemoveAccount", !.user = u] \in Job
      BY DEF Job
    <2> QED
      BY <1>2, <2>1, MoveTyped, ReplyTyped DEF RemoveAccount, TypeOK, Labels
  <1>3. ASSUME NEW u \in Users, UpdateDetails(p, u) PROVE TypeOK'
    BY <1>3, ReplyTyped DEF UpdateDetails, TypeOK, Labels
  <1>4. ASSUME NEW u \in Users, GetUserByResetCode(p, u) PROVE TypeOK'
    <2>1. [NoJob EXCEPT !.op = "GetUserByResetCode",
                        !.listing[u] = users[u]] \in Job
      BY DEF Job, MaybeRow, TypeOK, NothingListed, NoJob
    <2> QED
      BY <1>4, <2>1, MoveTyped, ReplyTyped
         DEF GetUserByResetCode, TypeOK, Labels
  <1>5. ASSUME NEW u \in Users, NEW r \in Roles, AddRole(p, u, r)
        PROVE  TypeOK'
    <2>1. [NoJob EXCEPT !.op = "AddRole", !.user = u, !.wrote = TRUE] \in Job
      BY DEF Job
    <2>2. roles' \in [Users -> SUBSET Roles]
      BY <1>5 DEF AddRole, TypeOK
    <2> QED
      BY <1>5, <2>1, <2>2, MoveTyped, ReplyTyped DEF AddRole, TypeOK, Labels
  <1>6. ASSUME NEW u \in Users, NEW r \in Roles, RevokeRole(p, u, r)
        PROVE  TypeOK'
    <2>1. [NoJob EXCEPT !.op = "RevokeRole", !.user = u,
                        !.wrote = r \in roles[u]] \in Job
      <3>1. ASSUME NEW w \in BOOLEAN
            PROVE  [NoJob EXCEPT !.op = "RevokeRole", !.user = u,
                                 !.wrote = w] \in Job
        BY DEF Job
      <3>2. (r \in roles[u]) \in BOOLEAN
        OBVIOUS
      <3> QED
        BY <3>1, <3>2, Zenon
    <2>2. roles' \in [Users -> SUBSET Roles]
      BY <1>6 DEF RevokeRole, TypeOK
    <2> QED
      BY <1>6, <2>1, <2>2, MoveTyped, ReplyTyped DEF RevokeRole, TypeOK, Labels
  <1>7. CASE Index(p)
    <2>1. [NoJob EXCEPT !.op = "Index", !.listing = users] \in Job
      BY DEF Job, MaybeRow, TypeOK
    <2> QED
      BY <1>7, <2>1, MoveTyped, ReplyTyped DEF Index, TypeOK, Labels
  <1> QED
    BY <1>1, <1>2, <1>3, <1>4, <1>5, <1>6, <1>7 DEF Call

\* WriteRow with a row keeps the table and the history typed.
LEMMA WriteRowTyped ==
    ASSUME TypeOK, NEW u \in Users, NEW row \in Row, WriteRow(u, row)
    PROVE  users' \in [Users -> Row] /\ missed' \subseteq Users
  BY DEF TypeOK, WriteRow

LEMMA StepTyped ==
    ASSUME TypeOK, JobsBacked, NEW p \in Replicas,
           Step(p) \/ TransactionFails(p) \/ Restart(p)
    PROVE  TypeOK'
  <1> DEFINE j == job[p]
  <1>1. j \in Job
    BY JobUser
  <1>2. CASE CheckContacts(p)
    BY <1>1, <1>2, MoveTyped, ReplyTyped DEF CheckContacts, TypeOK, Labels
  <1>3. CASE SaveContacts(p)
    <2>1. Updated(j) \in Row /\ j.user \in Users
      BY <1>3, UpdatedRow DEF SaveContacts
    <2>2. CASE Reply(p, "err") /\ UNCHANGED <<users, missed>>
      BY <1>3, <2>2, ReplyTyped DEF SaveContacts, TypeOK, Labels
    <2>3. CASE /\ WriteRow(j.user, Updated(j))
               /\ Goto(p, "invalidate",
                       [j EXCEPT !.reread = IF Updated(j).removed THEN NoRow
                                            ELSE Updated(j),
                                 !.wrote = Updated(j) # users[j.user]])
      <3>1. [j EXCEPT !.reread = IF Updated(j).removed THEN NoRow
                                 ELSE Updated(j),
                      !.wrote = Updated(j) # users[j.user]] \in Job
        BY <1>1, <2>1 DEF Job, MaybeRow
      <3> QED
        BY <1>3, <2>1, <2>3, <3>1, MoveTyped, WriteRowTyped
           DEF SaveContacts, TypeOK, Labels
    <2> QED
      BY <1>3, <2>2, <2>3 DEF SaveContacts
  <1>4. CASE MarkRemoved(p)
    <2>1. j.user \in Users
      BY <1>4, JobUser DEF MarkRemoved
    <2>2. [users[j.user] EXCEPT !.removed = TRUE] \in Row
      BY <2>1 DEF TypeOK, Row
    <2>3. [j EXCEPT !.wrote = TRUE] \in Job
      BY <1>1 DEF Job
    <2> QED
      BY <1>4, <2>1, <2>2, <2>3, MoveTyped, WriteRowTyped
         DEF MarkRemoved, TypeOK, Labels
  <1>5. CASE Invalidate(p)
    <2>1. j.user \in Users
      BY <1>5, JobUser DEF Invalidate
    <2>2. Answers(j) \subseteq {"ok", "err", "panic"}
      BY DEF Answers, UpdateUserAnswers
    <2>3. cached' \in [Users -> MaybeRow] /\ missed' \subseteq Users
      BY <1>5, <2>1 DEF Invalidate, DeleteEntry, TypeOK, MaybeRow
    <2> QED
      BY <1>5, <2>2, <2>3, ReplyTyped DEF Invalidate, TypeOK, Labels
  <1>6. ASSUME NEW u \in Users, CacheUser(p, u) PROVE TypeOK'
    <2>1. j.listing[u] \in MaybeRow /\ [j EXCEPT !.listing[u] = NoRow] \in Job
      BY <1>1 DEF Job, MaybeRow
    <2>2. cached' \in [Users -> MaybeRow]
      BY <1>6, <2>1 DEF CacheUser, TypeOK
    <2> QED
      BY <1>6, <2>1, <2>2, MoveTyped, ReplyTyped DEF CacheUser, TypeOK, Labels
  <1>7. CASE AllCached(p)
    BY <1>7, ReplyTyped DEF AllCached, TypeOK, Labels
  <1>8. CASE TransactionFails(p)
    BY <1>8, ReplyTyped DEF TransactionFails, TypeOK, Labels
  <1>9. CASE Restart(p)
    <2>1. missed' \subseteq Users
      BY <1>9, JobUser DEF Restart, TypeOK
    <2> QED
      BY <1>9, <2>1, NoJobTyped DEF Restart, TypeOK, Labels
  <1> QED
    BY <1>2, <1>3, <1>4, <1>5, <1>6, <1>7, <1>8, <1>9 DEF Step

LEMMA ProfileTypePreserved == TypeOK /\ JobsBacked /\ [Next]_vars => TypeOK'
  <1> SUFFICES ASSUME TypeOK, JobsBacked, [Next]_vars PROVE TypeOK'
    OBVIOUS
  <1>1. ASSUME NEW u \in Users, Expire(u) PROVE TypeOK'
    BY <1>1 DEF Expire, DeleteEntry, TypeOK, MaybeRow
  <1>2. CASE UNCHANGED vars
    BY <1>2 DEF vars, TypeOK
  <1> QED
    BY <1>1, <1>2, CallTyped, StepTyped DEF Next

-----------------------------------------------------------------------------
\* Goto and Reply leave the other replicas alone.
LEMMA OthersStay ==
    ASSUME TypeOK, NEW p \in Replicas, NEW q \in Replicas \ {p},
           Call(p) \/ Step(p) \/ TransactionFails(p) \/ Restart(p)
    PROVE  pc'[q] = pc[q] /\ job'[q] = job[q]
  <1> USE DEF TypeOK, Goto, Reply
  <1>1. CASE Call(p)
    BY <1>1 DEF Call, UpdateUser, RemoveAccount, UpdateDetails,
                GetUserByResetCode, AddRole, RevokeRole, Index
  <1>2. CASE Step(p)
    BY <1>2 DEF Step, CheckContacts, SaveContacts, MarkRemoved, Invalidate,
                AllCached, CacheUser
  <1>3. CASE TransactionFails(p) \/ Restart(p)
    BY <1>3 DEF TransactionFails, Restart
  <1> QED
    BY <1>1, <1>2, <1>3

\* Where Goto and Reply take a replica.
LEMMA Moved ==
    ASSUME TypeOK, NEW p \in Replicas
    PROVE  /\ \A l, j : Goto(p, l, j) => pc'[p] = l /\ job'[p] = j
           /\ \A a : Reply(p, a) => pc'[p] = "idle" /\ job'[p] = NoJob
  BY DEF TypeOK, Goto, Reply

\* A replica that is idle, or caching, has nothing to rely on.
LEMMA NothingToBack ==
    ASSUME NEW p \in Replicas, pc'[p] \in {"idle", "cacheUsers"}
    PROVE  JobBacked(p)'
  BY DEF JobBacked

LEMMA CallBacked ==
    ASSUME TypeOK, NEW p \in Replicas, Call(p)
    PROVE  JobBacked(p)'
  <1>1. ASSUME NEW u \in Users, NEW m \in Mails, NEW ph \in Phones,
               UpdateUser(p, u, m, ph)
        PROVE  JobBacked(p)'
    <2> DEFINE k == [NoJob EXCEPT !.op = "UpdateUser", !.user = u, !.mail = m,
                                  !.phone = ph, !.loaded = users[u]]
    <2>1. k.op = "UpdateUser" /\ k.user = u /\ k.mail = m /\ k.loaded = users[u]
      BY DEF NoJob
    <2>2. CASE Reply(p, "err")
      BY <2>2, Moved, NothingToBack
    <2>3. CASE Goto(p, "checkContacts", k)
      <3>1. pc'[p] = "checkContacts" /\ job'[p] = k
        BY <2>3, Moved
      <3>2. users[u] \in Row
        BY DEF TypeOK
      <3> QED
        BY <2>1, <3>1, <3>2 DEF JobBacked
    <2> QED
      BY <1>1, <2>2, <2>3 DEF UpdateUser
  <1>2. ASSUME NEW u \in Users, RemoveAccount(p, u) PROVE JobBacked(p)'
    <2> DEFINE k == [NoJob EXCEPT !.op = "RemoveAccount", !.user = u]
    <2>1. k.op = "RemoveAccount" /\ k.user = u
      BY DEF NoJob
    <2>2. CASE Reply(p, "err")
      BY <2>2, Moved, NothingToBack
    <2>3. CASE Goto(p, "markRemoved", k)
      <3>1. pc'[p] = "markRemoved" /\ job'[p] = k
        BY <2>3, Moved
      <3> QED
        BY <2>1, <3>1 DEF JobBacked
    <2> QED
      BY <1>2, <2>2, <2>3 DEF RemoveAccount
  <1>3. ASSUME NEW u \in Users, UpdateDetails(p, u) PROVE JobBacked(p)'
    BY <1>3, Moved, NothingToBack DEF UpdateDetails
  <1>4. ASSUME NEW u \in Users, GetUserByResetCode(p, u) PROVE JobBacked(p)'
    <2>1. pc'[p] \in {"idle", "cacheUsers"}
      BY <1>4, Moved DEF GetUserByResetCode
    <2> QED
      BY <2>1, NothingToBack
  <1>5. ASSUME NEW u \in Users, NEW r \in Roles, AddRole(p, u, r)
        PROVE  JobBacked(p)'
    <2> DEFINE k == [NoJob EXCEPT !.op = "AddRole", !.user = u, !.wrote = TRUE]
    <2>1. k.op = "AddRole" /\ k.user = u
      BY DEF NoJob
    <2>2. CASE Reply(p, "err") \/ Reply(p, "panic")
      BY <2>2, Moved, NothingToBack
    <2>3. CASE Goto(p, "invalidate", k)
      <3>1. pc'[p] = "invalidate" /\ job'[p] = k
        BY <2>3, Moved
      <3> QED
        BY <2>1, <3>1 DEF JobBacked
    <2> QED
      BY <1>5, <2>2, <2>3 DEF AddRole
  <1>6. ASSUME NEW u \in Users, NEW r \in Roles, RevokeRole(p, u, r)
        PROVE  JobBacked(p)'
    <2> DEFINE k == [NoJob EXCEPT !.op = "RevokeRole", !.user = u,
                                  !.wrote = r \in roles[u]]
    <2>1. k.op = "RevokeRole" /\ k.user = u
      BY DEF NoJob
    <2>2. CASE Reply(p, "err") \/ Reply(p, "panic")
      BY <2>2, Moved, NothingToBack
    <2>3. CASE Goto(p, "invalidate", k)
      <3>1. pc'[p] = "invalidate" /\ job'[p] = k
        BY <2>3, Moved
      <3> QED
        BY <2>1, <3>1 DEF JobBacked
    <2> QED
      BY <1>6, <2>2, <2>3 DEF RevokeRole
  <1>7. CASE Index(p)
    <2>1. pc'[p] \in {"idle", "cacheUsers"}
      BY <1>7, Moved DEF Index
    <2> QED
      BY <2>1, NothingToBack
  <1> QED
    BY <1>1, <1>2, <1>3, <1>4, <1>5, <1>6, <1>7 DEF Call

LEMMA StepBacked ==
    ASSUME TypeOK, JobsBacked, NEW p \in Replicas,
           Step(p) \/ TransactionFails(p) \/ Restart(p)
    PROVE  JobBacked(p)'
  <1>1. CASE CheckContacts(p)
    <2>1. JobBacked(p)
      BY DEF JobsBacked
    <2> QED
      BY <1>1, <2>1 DEF CheckContacts, Goto, Reply, JobBacked, TypeOK
  <1>2. CASE SaveContacts(p)
    <2>1. CASE Reply(p, "err")
      BY <2>1 DEF Reply, JobBacked, TypeOK
    <2>2. CASE Goto(p, "invalidate",
                    [job[p] EXCEPT
                       !.reread = IF Updated(job[p]).removed THEN NoRow
                                  ELSE Updated(job[p]),
                       !.wrote = Updated(job[p]) # users[job[p].user]])
      <3>1. /\ job'[p].user = job[p].user /\ job'[p].op = job[p].op
            /\ job'[p].mail = job[p].mail /\ job'[p].phone = job[p].phone
            /\ job'[p].loaded = job[p].loaded
            /\ job'[p].reread \in {NoRow, Updated(job[p])}
            /\ job'[p].wrote <=> Updated(job[p]) # users[job[p].user]
            /\ pc'[p] = "invalidate"
        BY <2>2 DEF Goto, TypeOK, Job
      <3> QED
        BY <1>2, <3>1, UpdatedRow
           DEF SaveContacts, JobBacked, NewMail, NewPhone
    <2> QED
      BY <1>2, <2>1, <2>2 DEF SaveContacts
  <1>3. CASE MarkRemoved(p)
    <2>1. JobBacked(p)
      BY DEF JobsBacked
    <2> QED
      BY <1>3, <2>1 DEF MarkRemoved, Goto, JobBacked, TypeOK
  <1>4. CASE Invalidate(p) \/ AllCached(p) \/ TransactionFails(p)
    BY <1>4 DEF Invalidate, AllCached, TransactionFails, Reply, JobBacked,
                TypeOK
  <1>5. ASSUME NEW u \in Users, CacheUser(p, u) PROVE JobBacked(p)'
    BY <1>5 DEF CacheUser, Goto, Reply, JobBacked, TypeOK
  <1>6. CASE Restart(p)
    BY <1>6 DEF Restart, JobBacked, TypeOK
  <1> QED
    BY <1>1, <1>2, <1>3, <1>4, <1>5, <1>6 DEF Step

LEMMA JobsPreserved ==
    ASSUME TypeOK, JobsBacked, [Next]_vars
    PROVE  JobsBacked'
  <1>1. ASSUME NEW p \in Replicas,
               Call(p) \/ Step(p) \/ TransactionFails(p) \/ Restart(p)
        PROVE  JobsBacked'
    <2> SUFFICES ASSUME NEW q \in Replicas PROVE JobBacked(q)'
      BY DEF JobsBacked
    <2>1. CASE q = p
      BY <1>1, <2>1, CallBacked, StepBacked
    <2>2. CASE q # p
      <3>1. pc'[q] = pc[q] /\ job'[q] = job[q] /\ JobBacked(q)
        BY <1>1, <2>2, OthersStay DEF JobsBacked
      <3> QED
        BY <3>1 DEF JobBacked, NewMail, NewPhone
    <2> QED
      BY <2>1, <2>2
  <1>2. CASE UNCHANGED <<pc, job>>
    BY <1>2 DEF JobsBacked, JobBacked, NewMail, NewPhone
  <1>3. ASSUME NEW u \in Users, Expire(u) PROVE UNCHANGED <<pc, job>>
    BY <1>3 DEF Expire
  <1> QED
    BY <1>1, <1>2, <1>3 DEF Next, vars
-----------------------------------------------------------------------------
\* What steps do to a listing: it loses users, or it is read from the table.
LEMMA ListingMoves ==
    ASSUME TypeOK, NEW p \in Replicas,
           Call(p) \/ Step(p) \/ TransactionFails(p) \/ Restart(p),
           NEW u \in Users
    PROVE  \/ job'[p].listing[u] \in {NoRow, job[p].listing[u]}
           \/ users' = users /\ job'[p].listing[u] = users[u]
  <1>1. NoJob.listing[u] = NoRow
    BY DEF NoJob, NothingListed
  <1>2. job[p] \in Job
    BY DEF TypeOK
  <1>3. ASSUME \E a : Reply(p, a) PROVE job'[p].listing[u] = NoRow
    BY <1>1, <1>3, Moved
  <1>4. ASSUME NEW v \in Users, NEW m \in Mails, NEW ph \in Phones,
               UpdateUser(p, v, m, ph)
        PROVE  job'[p].listing[u] = NoRow
    <2> DEFINE k == [NoJob EXCEPT !.op = "UpdateUser", !.user = v, !.mail = m,
                                  !.phone = ph, !.loaded = users[v]]
    <2>1. k.listing = NoJob.listing
      BY DEF NoJob
    <2>2. Reply(p, "err") \/ Goto(p, "checkContacts", k)
      BY <1>4 DEF UpdateUser
    <2> QED
      BY <1>1, <1>3, <2>1, <2>2, Moved
  <1>5. ASSUME NEW v \in Users, RemoveAccount(p, v) \/ UpdateDetails(p, v)
        PROVE  job'[p].listing[u] = NoRow
    <2> DEFINE k == [NoJob EXCEPT !.op = "RemoveAccount", !.user = v]
    <2>1. k.listing = NoJob.listing
      BY DEF NoJob
    <2>2. \/ Reply(p, "err") \/ Reply(p, "panic")
          \/ Goto(p, "markRemoved", k)
      BY <1>5 DEF RemoveAccount, UpdateDetails
    <2> QED
      BY <1>1, <1>3, <2>1, <2>2, Moved
  <1>6. ASSUME NEW v \in Users, NEW r \in Roles,
               AddRole(p, v, r) \/ RevokeRole(p, v, r)
        PROVE  job'[p].listing[u] = NoRow
    <2> DEFINE k(o, w) == [NoJob EXCEPT !.op = o, !.user = v, !.wrote = w]
    <2>1. ASSUME NEW o, NEW w PROVE k(o, w).listing = NoJob.listing
      BY DEF NoJob
    <2>2. \/ Reply(p, "err") \/ Reply(p, "panic")
          \/ Goto(p, "invalidate", k("AddRole", TRUE))
          \/ Goto(p, "invalidate", k("RevokeRole", r \in roles[v]))
      BY <1>6 DEF AddRole, RevokeRole
    <2> HIDE DEF k
    <2>3. ASSUME NEW o, NEW w, Goto(p, "invalidate", k(o, w))
          PROVE  job'[p].listing = NoJob.listing
      BY <2>1, <2>3, Moved
    <2>4. CASE Goto(p, "invalidate", k("AddRole", TRUE))
      BY <1>1, <2>3, <2>4
    <2>5. CASE Goto(p, "invalidate", k("RevokeRole", r \in roles[v]))
      BY <1>1, <2>3, <2>5, Zenon
    <2> QED
      BY <1>3, <2>2, <2>4, <2>5
  <1>7. CASE Index(p)
    <2> DEFINE k == [NoJob EXCEPT !.op = "Index", !.listing = users]
    <2>1. k.listing = users
      BY DEF NoJob
    <2>2. Reply(p, "err") \/ Goto(p, "cacheUsers", k)
      BY <1>7 DEF Index
    <2> QED
      BY <1>3, <1>7, <2>1, <2>2, Moved DEF Index
  <1>8. ASSUME NEW v \in Users, GetUserByResetCode(p, v)
        PROVE  users' = users /\ job'[p].listing[u] \in {NoRow, users[u]}
    <2> DEFINE k == [NoJob EXCEPT !.op = "GetUserByResetCode",
                                  !.listing[v] = users[v]]
    <2>1. k.listing = [NothingListed EXCEPT ![v] = users[v]]
      BY DEF NoJob
    <2>2. users' = users /\ (Reply(p, "err") \/ job'[p] = k)
      BY <1>8, Moved DEF GetUserByResetCode
    <2>3. CASE job'[p] = k
      BY <2>1, <2>2, <2>3 DEF NothingListed
    <2> QED
      BY <1>3, <2>2, <2>3
  <1>9. CASE CheckContacts(p)
    BY <1>3, <1>9, Moved DEF CheckContacts
  <1>10. CASE SaveContacts(p) \/ MarkRemoved(p)
    BY <1>2, <1>3, <1>10, Moved DEF SaveContacts, MarkRemoved, Job
  <1>11. CASE Invalidate(p) \/ AllCached(p) \/ TransactionFails(p)
    BY <1>3, <1>11 DEF Invalidate, AllCached, TransactionFails
  <1>12. CASE \E v \in Users : CacheUser(p, v)
    BY <1>2, <1>3, <1>12, Moved DEF CacheUser, Job
  <1>13. CASE Restart(p)
    BY <1>1, <1>13 DEF Restart, TypeOK
  <1> QED
    BY <1>4, <1>5, <1>6, <1>7, <1>8, <1>9, <1>10, <1>11, <1>12, <1>13
       DEF Call, Step

\* What a step writes of a user, and that it is about to delete the entry.
RowWritten(p) ==
    \E u \in Users : \E row \in Row :
        /\ WriteRow(u, row)
        /\ \/ row.mail = users[u].mail /\ row.phone = users[u].phone
           \/ IndexesAllow(u, row)
        /\ UNCHANGED cached
        /\ pc[p] # "invalidate" /\ pc'[p] = "invalidate" /\ job'[p].user = u

LEMMA TablesMove ==
    ASSUME TypeOK, JobsBacked, NEW p \in Replicas,
           Call(p) \/ Step(p) \/ TransactionFails(p) \/ Restart(p)
    PROVE  /\ users' = users \/ RowWritten(p)
           /\ missed \subseteq missed' \/ Invalidate(p)
  <1>1. CASE Call(p)
    BY <1>1 DEF Call, UpdateUser, RemoveAccount, UpdateDetails,
                GetUserByResetCode, AddRole, RevokeRole, Index
  <1>2. CASE SaveContacts(p)
    <2> DEFINE j == job[p]
               k == [j EXCEPT !.reread = IF Updated(j).removed THEN NoRow
                                         ELSE Updated(j),
                              !.wrote = Updated(j) # users[j.user]]
    <2>1. CASE UNCHANGED <<users, missed>>
      BY <2>1
    <2>2. CASE /\ NewPhone(j) \/ NewMail(j) => IndexesAllow(j.user, Updated(j))
               /\ WriteRow(j.user, Updated(j))
               /\ Goto(p, "invalidate", k)
      <3>1. pc'[p] = "invalidate" /\ job'[p] = k
        BY <2>2, Moved
      <3>2. job'[p].user = j.user
        BY <3>1 DEF TypeOK, Job
      <3>3. j.user \in Users /\ Updated(j) \in Row
        BY <1>2, UpdatedRow DEF SaveContacts
      <3>4. \/ IndexesAllow(j.user, Updated(j))
            \/ Updated(j) = users[j.user]
        BY <1>2, <2>2, UpdatedRow DEF SaveContacts
      <3>5. missed \subseteq missed'
        BY <2>2 DEF WriteRow
      <3>6. pc[p] # "invalidate" /\ UNCHANGED cached
        BY <1>2 DEF SaveContacts
      <3> QED
        BY <2>2, <3>1, <3>2, <3>3, <3>4, <3>5, <3>6 DEF RowWritten
    <2> QED
      BY <1>2, <2>1, <2>2 DEF SaveContacts
  <1>3. CASE MarkRemoved(p)
    <2> DEFINE u == job[p].user
               row == [users[u] EXCEPT !.removed = TRUE]
    <2>1. u \in Users
      BY <1>3, JobUser DEF MarkRemoved
    <2>2. row \in Row /\ row.mail = users[u].mail /\ row.phone = users[u].phone
      BY <2>1 DEF TypeOK, Row
    <2>3. pc'[p] = "invalidate" /\ job'[p] = [job[p] EXCEPT !.wrote = TRUE]
      BY <1>3, Moved DEF MarkRemoved
    <2>4. job'[p].user = u
      BY <2>3 DEF TypeOK, Job
    <2> QED
      BY <1>3, <2>1, <2>2, <2>3, <2>4 DEF MarkRemoved, WriteRow, RowWritten
  <1>4. CASE \/ CheckContacts(p) \/ Invalidate(p) \/ AllCached(p)
             \/ \E u \in Users : CacheUser(p, u)
    BY <1>4 DEF CheckContacts, Invalidate, AllCached, CacheUser
  <1>5. CASE TransactionFails(p) \/ Restart(p)
    BY <1>5 DEF TransactionFails, Restart
  <1> QED
    BY <1>1, <1>2, <1>3, <1>4, <1>5 DEF Step

\* What a step puts into the cache, and what it leaves undone when it turns
\* from an entry it had to delete.
LEMMA CacheMoves ==
    ASSUME TypeOK, JobsBacked, NEW p \in Replicas,
           Call(p) \/ Step(p) \/ TransactionFails(p) \/ Restart(p),
           NEW u \in Users
    PROVE  /\ \/ cached'[u] \in {cached[u], NoRow}
              \/ users' = users /\ cached'[u] = job[p].listing[u]
           /\ pc[p] = "invalidate" /\ job[p].user = u =>
                 cached'[u] = NoRow \/ u \in missed'
  <1> USE DEF TypeOK
  <1>1. CASE Call(p)
    BY <1>1 DEF Call, UpdateUser, RemoveAccount, UpdateDetails,
                GetUserByResetCode, AddRole, RevokeRole, Index
  <1>2. CASE CheckContacts(p) \/ SaveContacts(p) \/ MarkRemoved(p)
    BY <1>2 DEF CheckContacts, SaveContacts, MarkRemoved
  <1>3. CASE Invalidate(p)
    BY <1>3, JobUser DEF Invalidate, DeleteEntry
  <1>4. CASE AllCached(p) \/ \E v \in Users : CacheUser(p, v)
    BY <1>4 DEF AllCached, CacheUser
  <1>5. CASE TransactionFails(p) \/ Restart(p)
    BY <1>5 DEF TransactionFails, Restart
  <1> QED
    BY <1>1, <1>2, <1>3, <1>4, <1>5 DEF Step

-----------------------------------------------------------------------------
\* A step of one replica preserves what the tables and the cache promise.
LEMMA ReplicaKeeps ==
    ASSUME ProfileInv, NEW p \in Replicas,
           Call(p) \/ Step(p) \/ TransactionFails(p) \/ Restart(p)
    PROVE  (ContactsUnique /\ ListingsFollowed /\ StaleHasACause)'
  <1> USE DEF ProfileInv
  <1>1. \A v \in missed \ missed' :
           /\ cached'[v] = NoRow
           /\ \A q \in Replicas : job[q].listing[v] \in {NoRow, users[v]}
    <2>1. CASE missed \subseteq missed'
      BY <2>1
    <2>2. CASE Invalidate(p)
      BY <2>2, JobUser DEF Invalidate, DeleteEntry, TypeOK
    <2> QED
      BY <2>1, <2>2, TablesMove
  <1>2. ContactsUnique'
    <2>1. CASE users' = users
      BY <2>1 DEF ContactsUnique
    <2>2. CASE RowWritten(p)
      <3>1. PICK w \in Users, row \in Row :
               /\ users' = [users EXCEPT ![w] = row]
               /\ \/ row.mail = users[w].mail /\ row.phone = users[w].phone
                  \/ IndexesAllow(w, row)
        BY <2>2 DEF RowWritten, WriteRow
      <3>2. \A v \in Users \ {w} :
               /\ users[v].mail # row.mail
               /\ row.phone # NoPhone => users[v].phone # row.phone
        BY <3>1 DEF IndexesAllow, ContactsUnique
      <3>3. users \in [Users -> Row]
        BY DEF TypeOK
      <3> QED
        BY <3>1, <3>2, <3>3 DEF ContactsUnique
    <2> QED
      BY <2>1, <2>2, TablesMove
  <1>3. ListingsFollowed'
    <2> SUFFICES ASSUME NEW q \in Replicas, NEW u \in Users,
                        job'[q].listing[u] \notin {NoRow, users'[u]}
                 PROVE  u \in missed'
      BY DEF ListingsFollowed
    <2>1. \/ job[q].listing[u] = job'[q].listing[u]
          \/ users' = users /\ job'[q].listing[u] = users[u]
      BY OthersStay, ListingMoves
    <2>2. job[q].listing[u] = job'[q].listing[u]
      BY <2>1
    <2>3. CASE users'[u] = users[u]
      BY <1>1, <2>2, <2>3 DEF ListingsFollowed
    <2>4. CASE users'[u] # users[u]
      <3>1. PICK w \in Users, row \in Row : WriteRow(w, row)
        BY <2>4, TablesMove DEF RowWritten
      <3>2. w = u /\ row # users[u]
        BY <2>4, <3>1 DEF WriteRow, TypeOK
      <3>3. Listed(u)
        BY <2>2 DEF Listed
      <3> QED
        BY <3>1, <3>2, <3>3 DEF WriteRow
    <2> QED
      BY <2>3, <2>4
  <1>4. StaleHasACause'
    <2> SUFFICES ASSUME NEW u \in Users, cached'[u] \notin {NoRow, users'[u]},
                        u \notin missed'
                 PROVE  \E q \in Replicas :
                           pc'[q] = "invalidate" /\ job'[q].user = u
      BY DEF StaleHasACause
    <2>1. CASE RowWritten(p) /\ users'[u] # users[u]
      <3>1. PICK w \in Users, row \in Row :
               /\ WriteRow(w, row)
               /\ pc'[p] = "invalidate" /\ job'[p].user = w
        BY <2>1 DEF RowWritten
      <3>2. w = u
        BY <2>1, <3>1 DEF WriteRow, TypeOK
      <3> QED
        BY <3>1, <3>2
    <2>2. CASE users'[u] = users[u]
      <3>1. cached'[u] = cached[u]
        BY <1>1, <2>2, CacheMoves DEF ListingsFollowed
      <3>2. PICK q \in Replicas : pc[q] = "invalidate" /\ job[q].user = u
        BY <1>1, <2>2, <3>1 DEF StaleHasACause
      <3>3. q # p
        BY <3>2, CacheMoves
      <3> QED
        BY <3>2, <3>3, OthersStay
    <2> QED
      BY <2>1, <2>2, TablesMove
  <1> QED
    BY <1>2, <1>3, <1>4

LEMMA ProfilePreserved == ProfileInv /\ [Next]_vars => ProfileInv'
  <1> SUFFICES ASSUME ProfileInv, [Next]_vars PROVE ProfileInv'
    OBVIOUS
  <1>1. TypeOK' /\ JobsBacked'
    BY ProfileTypePreserved, JobsPreserved DEF ProfileInv
  <1>2. ASSUME NEW u \in Users, Expire(u)
        PROVE  (ContactsUnique /\ ListingsFollowed /\ StaleHasACause)'
    <2>1. /\ cached' = [cached EXCEPT ![u] = NoRow]
          /\ UNCHANGED <<users, pc, job>>
          /\ \A v \in Users : v # u /\ v \in missed => v \in missed'
          /\ \/ missed' = missed
             \/ \A q \in Replicas : job[q].listing[u] \in {NoRow, users[u]}
      BY <1>2 DEF Expire, DeleteEntry
    <2>2. ContactsUnique' /\ ListingsFollowed'
      BY <2>1 DEF ProfileInv, ContactsUnique, ListingsFollowed
    <2>3. StaleHasACause'
      BY <2>1 DEF ProfileInv, TypeOK, StaleHasACause
    <2> QED
      BY <2>2, <2>3
  <1>3. ASSUME UNCHANGED vars
        PROVE  (ContactsUnique /\ ListingsFollowed /\ StaleHasACause)'
    BY <1>3 DEF vars, ProfileInv, ContactsUnique, ListingsFollowed,
                StaleHasACause
  <1> QED
    BY <1>1, <1>2, <1>3, ReplicaKeeps DEF Next, ProfileInv

LEMMA ProfileInvariant == Spec => []ProfileInv
  BY ProfileInit, ProfilePreserved, PTL DEF Spec

\* Every variable keeps its type, whatever a handler loaded before it writes.
THEOREM ProfileTyped == Spec => []TypeOK
  BY ProfileInvariant, PTL DEF ProfileInv

\* However handlers interleave between the look and the write, no mail and no
\* phone is given to two accounts (UpdateUser).
THEOREM ContactsStayUnique == Spec => []ContactsUnique
  BY ProfileInvariant, PTL DEF ProfileInv

\* A stale entry of the user cache is one a handler has still to delete, or
\* one that a failed deletion, a crash or an overtaken listing left behind.
THEOREM StaleEntriesHaveACause == Spec => []StaleHasACause
  BY ProfileInvariant, PTL DEF ProfileInv
-----------------------------------------------------------------------------
\* The property of one step that AnswersTrue is about.
AnswerTrue(p) ==
    LET j == job[p] IN
    j.op = "UpdateUser" /\ pc[p] = "invalidate" /\ pc'[p] = "idle" =>
        /\ answer'[p] = "ok" => j.reread.mail = j.mail /\ j.reread.phone = j.phone
        /\ answer'[p] = "err" => ~j.wrote

\* "ok" and "err" are left to a handler only if it neither changed anything
\* nor found the row other than it had loaded it.
LEMMA InvalidateAnswersTrue ==
    ASSUME ProfileInv, NEW p \in Replicas, Invalidate(p)
    PROVE  AnswerTrue(p)
  <1> SUFFICES ASSUME job[p].op = "UpdateUser"
               PROVE  AnswerTrue(p)
    BY DEF AnswerTrue
  <1> DEFINE j == job[p]
  <1>1. pc[p] = "invalidate" /\ JobBacked(p)
    BY DEF Invalidate, ProfileInv, JobsBacked
  <1>2. PICK a \in Answers(j) : answer'[p] = a
    BY DEF Invalidate, Reply, ProfileInv, TypeOK
  <1>3. a \in UpdateUserAnswers(j)
    BY <1>2 DEF Answers
  <1>4. CASE a = "panic"
    BY <1>2, <1>4 DEF AnswerTrue
  <1>5. CASE a # "panic"
    <2>1. /\ j.reread # NoRow
          /\ j.reread.phone = j.loaded.phone /\ j.reread.mail = j.loaded.mail
      BY <1>3, <1>5 DEF UpdateUserAnswers
    <2>2. ~NewMail(j) /\ ~NewPhone(j)
      BY <1>1, <2>1 DEF JobBacked, NewMail, NewPhone
    <2> QED
      BY <1>1, <2>1, <2>2 DEF JobBacked, AnswerTrue, NewMail, NewPhone
  <1> QED
    BY <1>4, <1>5

\* No other step ends a handler that is about to answer, but a restart, which
\* answers nothing.
LEMMA StepAnswersTrue ==
    ASSUME ProfileInv, [Next]_vars, NEW p \in Replicas
    PROVE  AnswerTrue(p)
  <1> SUFFICES ASSUME pc[p] = "invalidate", pc'[p] = "idle"
               PROVE  AnswerTrue(p)
    BY DEF AnswerTrue
  <1> USE DEF ProfileInv
  <1>1. PICK q \in Replicas :
           Call(q) \/ Step(q) \/ TransactionFails(q) \/ Restart(q)
    BY DEF Next, Expire, vars
  <1>2. q = p
    BY <1>1, OthersStay
  <1>3. ~Call(p) /\ ~TransactionFails(p)
    BY DEF Call, UpdateUser, RemoveAccount, UpdateDetails, GetUserByResetCode,
           AddRole, RevokeRole, Index, TransactionFails
  <1>4. CASE Restart(p)
    BY <1>4 DEF Restart, AnswerTrue, TypeOK
  <1>5. CASE Step(p)
    <2>1. Invalidate(p)
      BY <1>5 DEF Step, CheckContacts, SaveContacts, MarkRemoved, AllCached,
                  CacheUser
    <2> QED
      BY <2>1, InvalidateAnswersTrue
  <1> QED
    BY <1>1, <1>2, <1>3, <1>4, <1>5

\* What UpdateUser answers is true, although other replicas write between its
\* transactions: "ok" only if the row has what was asked for, an error only if
\* nothing was changed.
THEOREM UpdateAnswersTrue == Spec => AnswersTrue
  <1>1. ProfileInv /\ [Next]_vars => \A p \in Replicas : AnswerTrue(p)
    BY StepAnswersTrue
  <1> QED
    BY <1>1, ProfileInvariant, PTL DEF Spec, AnswersTrue, AnswerTrue
=============================================================================
