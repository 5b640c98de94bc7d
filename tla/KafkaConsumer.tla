---------------------------- MODULE KafkaConsumer ----------------------------
(***************************************************************************)
(* The consumers of one topic: the loop NewKafkaConsumer starts in every   *)
(* replica, and the handlers of user.subscription and user.actions it      *)
(* calls.  All replicas share one group, so a partition has one owner at a *)
(* time; the broker and the client library are modelled as the loop uses   *)
(* them.                                                                   *)
(*                                                                         *)
(* Offsets count messages: committed[k] = n says that the first n messages *)
(* of partition k are behind the group.                                    *)
(***************************************************************************)
EXTENDS Integers, Sequences, FiniteSets

CONSTANTS
    Consumers,      \* one per replica
    Partitions,     \* of the topic
    Users,
    Ids,            \* of subscriptions
    Log,            \* the messages of each partition
    Faults,         \* what may go wrong, out of AllFaults
    MaxFaults,      \* bound on how often
    Nobody

AllFaults == {"rebalance", "evict", "crash", "stop", "removal"}

\* What Handle distinguishes: the three actions it knows, an action it does
\* not know, an event of another type, and JSON that does not parse.
Kinds == {"add", "remove", "record", "unknown", "foreign", "malformed"}

\* A list of ids, by how often each is in it: nothing depends on the order.
IdList == [Ids -> Nat]
NoIds == [id \in Ids |-> 0]

Message == [kind : Kinds, user : Users, ids : IdList]

ASSUME LogAssumption == Log \in [Partitions -> Seq(Message)]

ASSUME FaultsAssumption ==
    /\ Faults \subseteq AllFaults
    /\ MaxFaults \in Nat
    /\ Nobody \notin Consumers \cup Partitions

ASSUME ConsumersAssumption == IsFiniteSet(Consumers)

VARIABLES
    subscriptions,  \* users.subscription_ids
    removed,        \* users.removed
    committed,      \* offset of the group, per partition
    owner,          \* the consumer a partition is assigned to
    position,       \* messages its owner has polled, which are also stored
    stopping,       \* the context of the consumer's loop is cancelled
    pc,             \* where each loop is
    job,            \* the message it handles and the user it loaded
    returned,       \* what Handle has returned for each message (history)
    delivered,      \* how often Poll has returned each message (history)
    faults          \* faults so far

tables == <<subscriptions, removed>>
group == <<committed, owner, position>>
vars == <<subscriptions, removed, committed, owner, position, stopping, pc,
          job, returned, delivered, faults>>

Job == [partition : Partitions \cup {Nobody}, offset : Nat,
        loaded : IdList]

NoJob == [partition |-> Nobody, offset |-> 0, loaded |-> NoIds]

Current(c) == Log[job[c].partition][job[c].offset]
-----------------------------------------------------------------------------
\* Handle returns.  An error is logged and the loop goes on with the next
\* message; only after nil the message is committed.
Returns(c, result) ==
    LET j == job[c] IN
    /\ returned' = [returned EXCEPT ![j.partition][j.offset] = @ \cup {result}]
    /\ IF result = "nil"
       THEN pc' = [pc EXCEPT ![c] = "commit"] /\ UNCHANGED job
       ELSE /\ pc' = [pc EXCEPT ![c] = "loop"]
            /\ job' = [job EXCEPT ![c] = NoJob]

\* Commit() of a consumer: the stored offset of every partition it owns.
CommitStored(c) ==
    committed' = [k \in Partitions |-> IF owner[k] = c THEN position[k]
                                       ELSE committed[k]]

Disown(c) == owner' = [k \in Partitions |-> IF owner[k] = c THEN Nobody
                                            ELSE owner[k]]

\* RemoveIDs, and AddSubscriptions on the list of the loaded user.
RemoveIDs(ids, gone) ==
    [id \in Ids |-> IF gone[id] > 0 THEN 0 ELSE ids[id]]

\* Variant: what is listed already is not looked for.
AddIDsBlindly(ids, new) == [id \in Ids |-> ids[id] + new[id]]

AddIDs(ids, new) == [id \in Ids |-> IF ids[id] > 0 THEN ids[id] ELSE new[id]]
-----------------------------------------------------------------------------
\* select: a cancelled context closes the consumer, and Close serves the
\* revocation: the stored offsets are committed, or that fails.
Loop(c) ==
    /\ pc[c] = "loop"
    /\ \/ /\ ~stopping[c]
          /\ pc' = [pc EXCEPT ![c] = "poll"]
          /\ UNCHANGED <<committed, owner>>
       \/ /\ stopping[c]
          /\ pc' = [pc EXCEPT ![c] = "closed"]
          /\ CommitStored(c) \/ UNCHANGED committed
          /\ Disown(c)
    /\ UNCHANGED <<tables, position, stopping, job, returned, delivered,
                   faults>>

\* Poll(100) returns nothing: there is nothing to read, or it took too long,
\* which matters only to a consumer that is being stopped.
PollNothing(c) ==
    /\ pc[c] = "poll"
    /\ stopping[c] \/ \A k \in Partitions :
                         owner[k] = c => position[k] = Len(Log[k])
    /\ pc' = [pc EXCEPT ![c] = "loop"]
    /\ UNCHANGED <<tables, group, stopping, job, returned, delivered, faults>>

\* Variant: the message is committed before it is handled.
PollCommitting(c, k) ==
    /\ pc[c] = "poll" /\ owner[k] = c
    /\ position[k] < Len(Log[k])
    /\ position' = [position EXCEPT ![k] = @ + 1]
    /\ committed' = [committed EXCEPT ![k] = position[k] + 1]
    /\ job' = [job EXCEPT ![c] = [partition |-> k, offset |-> position[k] + 1,
                                  loaded |-> NoIds]]
    /\ pc' = [pc EXCEPT ![c] = "handle"]
    /\ delivered' = [delivered EXCEPT ![k][position[k] + 1] = @ + 1]
    /\ UNCHANGED <<tables, owner, stopping, returned, faults>>

\* Poll(100) returns the next message of a partition and stores its offset.
Poll(c, k) ==
    /\ pc[c] = "poll" /\ owner[k] = c
    /\ position[k] < Len(Log[k])
    /\ position' = [position EXCEPT ![k] = @ + 1]
    /\ job' = [job EXCEPT ![c] = [partition |-> k, offset |-> position[k] + 1,
                                  loaded |-> NoIds]]
    /\ pc' = [pc EXCEPT ![c] = "handle"]
    /\ delivered' = [delivered EXCEPT ![k][position[k] + 1] = @ + 1]
    /\ UNCHANGED <<tables, committed, owner, stopping, returned, faults>>

\* Variant: the error of the lookup is swallowed.
HandleSwallowing(c) ==
    LET m == Current(c) IN
    /\ pc[c] = "handle"
    /\ \/ Returns(c, "nil")
       \/ /\ m.kind \in {"add", "remove", "record"} /\ m.user \notin removed
          /\ job' = [job EXCEPT ![c].loaded = subscriptions[m.user]]
          /\ pc' = [pc EXCEPT ![c] = "save"]
          /\ UNCHANGED returned
    /\ UNCHANGED <<tables, group, stopping, delivered, faults>>

\* Handle up to GetUserPublicByID: what it cannot parse, an account it cannot
\* see and an unknown action are errors, another event type is none.
Handle(c) ==
    LET m == Current(c) IN
    /\ pc[c] = "handle"
    /\ \/ m.kind = "foreign" /\ Returns(c, "nil")
       \/ m.kind # "foreign" /\ Returns(c, "error")
       \/ /\ m.kind \in {"add", "remove", "record"} /\ m.user \notin removed
          /\ job' = [job EXCEPT ![c].loaded = subscriptions[m.user]]
          /\ pc' = [pc EXCEPT ![c] = "save"]
          /\ UNCHANGED returned
    /\ UNCHANGED <<tables, group, stopping, delivered, faults>>

\* AddSubscriptions and RemoveSubscriptions write the list they computed from
\* the loaded user, by id, unless there is nothing to add.  A user action is
\* never saved: see SaveFails.
WriteList(u, ids) == subscriptions' = [subscriptions EXCEPT ![u] = ids]

Save(c) ==
    LET m == Current(c)
        old == job[c].loaded
    IN  /\ pc[c] = "save"
        /\ \/ /\ m.kind = "add" /\ AddIDs(old, m.ids) # old
              /\ WriteList(m.user, AddIDs(old, m.ids))
           \/ /\ m.kind = "add" /\ AddIDs(old, m.ids) = old
              /\ UNCHANGED subscriptions
           \/ /\ m.kind = "remove"
              /\ WriteList(m.user, RemoveIDs(old, m.ids))
        /\ Returns(c, "nil")
        /\ UNCHANGED <<removed, group, stopping, delivered, faults>>

\* The second transaction fails; a cancelled context fails it as well.  That of
\* a user action always does: CreateUserAction sets neither the type nor the
\* device of the author, which the schema requires, so the client refuses the
\* row before it reaches the database.
SaveFails(c) ==
    /\ pc[c] = "save"
    /\ Returns(c, "error")
    /\ UNCHANGED <<tables, group, stopping, delivered, faults>>

\* Variant: a commit that fails seeks back to the message.
CommitMessageSeeking(c) ==
    LET k == job[c].partition IN
    /\ pc[c] = "commit" /\ owner[k] = c
    /\ \/ position' = [position EXCEPT ![k] = job[c].offset - 1]
          /\ UNCHANGED committed
       \/ committed' = [committed EXCEPT ![k] = job[c].offset]
          /\ UNCHANGED position
    /\ pc' = [pc EXCEPT ![c] = "loop"]
    /\ job' = [job EXCEPT ![c] = NoJob]
    /\ UNCHANGED <<tables, owner, stopping, returned, delivered, faults>>

\* The broker refuses a commit from a consumer that is no longer the owner,
\* and any commit may fail: the error is logged and the loop goes on.
CommitMessage(c) ==
    LET k == job[c].partition IN
    /\ pc[c] = "commit"
    /\ \/ UNCHANGED committed
       \/ owner[k] = c /\ committed' = [committed EXCEPT ![k] = job[c].offset]
    /\ pc' = [pc EXCEPT ![c] = "loop"]
    /\ job' = [job EXCEPT ![c] = NoJob]
    /\ UNCHANGED <<tables, owner, position, stopping, returned, delivered,
                   faults>>
-----------------------------------------------------------------------------
\* Variants: from the first message, from the last one handled, and from the
\* next one to come (auto.offset.reset latest).
AssignAt(c, k, n) ==
    /\ pc[c] = "poll" /\ owner[k] = Nobody
    /\ owner' = [owner EXCEPT ![k] = c]
    /\ position' = [position EXCEPT ![k] = n]
    /\ UNCHANGED <<tables, committed, stopping, pc, job, returned, delivered,
                   faults>>

AssignFromStart(c, k) == AssignAt(c, k, 0)
AssignOneBack(c, k) == AssignAt(c, k, committed[k] - 1)
AssignLatest(c, k) == AssignAt(c, k, Len(Log[k]))

\* Inside Poll the consumer learns that a partition is its own and goes on
\* from the committed offset, or from the earliest message.
Assign(c, k) ==
    /\ pc[c] = "poll" /\ owner[k] = Nobody
    /\ owner' = [owner EXCEPT ![k] = c]
    /\ position' = [position EXCEPT ![k] = committed[k]]
    /\ UNCHANGED <<tables, committed, stopping, pc, job, returned, delivered,
                   faults>>

Fault(name) ==
    /\ name \in Faults /\ faults < MaxFaults
    /\ faults' = faults + 1

\* Variant: the callback runs beside the loop.
RebalanceAnytime(c) ==
    /\ Fault("rebalance")
    /\ pc[c] # "closed" /\ \E k \in Partitions : owner[k] = c
    /\ CommitStored(c)
    /\ Disown(c)
    /\ UNCHANGED <<tables, position, stopping, pc, job, returned, delivered>>

\* Inside Poll the group takes the partitions of a consumer back, and the
\* callback commits what is stored.
Rebalance(c) ==
    /\ Fault("rebalance")
    /\ pc[c] = "poll" /\ \E k \in Partitions : owner[k] = c
    /\ CommitStored(c) \/ UNCHANGED committed
    /\ Disown(c)
    /\ UNCHANGED <<tables, position, stopping, pc, job, returned, delivered>>

\* The broker gives up on a consumer that did not poll or answer in time; the
\* consumer goes on with what it does.
Evict(c) ==
    /\ Fault("evict")
    /\ \E k \in Partitions : owner[k] = c
    /\ Disown(c)
    /\ UNCHANGED <<tables, committed, position, stopping, pc, job, returned,
                   delivered>>

Crash(c) ==
    /\ Fault("crash")
    /\ pc[c] # "closed"
    /\ pc' = [pc EXCEPT ![c] = "closed"]
    /\ job' = [job EXCEPT ![c] = NoJob]
    /\ Disown(c)
    /\ UNCHANGED <<tables, committed, position, stopping, returned, delivered>>

\* ConsumerWrapper.Stop: it cancels the context of the loop and returns.
Stop(c) ==
    /\ Fault("stop")
    /\ pc[c] # "closed" /\ ~stopping[c]
    /\ stopping' = [stopping EXCEPT ![c] = TRUE]
    /\ UNCHANGED <<tables, group, pc, job, returned, delivered>>

\* A new process takes the place of the old one.
Restart(c) ==
    /\ pc[c] = "closed"
    /\ pc' = [pc EXCEPT ![c] = "loop"]
    /\ stopping' = [stopping EXCEPT ![c] = FALSE]
    /\ UNCHANGED <<tables, group, job, returned, delivered, faults>>

\* The HTTP side of the service marks an account removed.
RemoveAccount(u) ==
    /\ Fault("removal")
    /\ u \notin removed
    /\ removed' = removed \cup {u}
    /\ UNCHANGED <<subscriptions, group, stopping, pc, job, returned,
                   delivered>>
-----------------------------------------------------------------------------
Init ==
    /\ subscriptions = [u \in Users |-> NoIds]
    /\ removed = {}
    /\ committed = [k \in Partitions |-> 0]
    /\ owner = [k \in Partitions |-> Nobody]
    /\ position = [k \in Partitions |-> 0]
    /\ stopping = [c \in Consumers |-> FALSE]
    /\ pc = [c \in Consumers |-> "loop"]
    /\ job = [c \in Consumers |-> NoJob]
    /\ returned = [k \in Partitions |-> [o \in DOMAIN Log[k] |-> {}]]
    /\ delivered = [k \in Partitions |-> [o \in DOMAIN Log[k] |-> 0]]
    /\ faults = 0

\* What the goroutine of a consumer does.
Step(c) ==
    \/ Loop(c)
    \/ PollNothing(c)
    \/ \E k \in Partitions : Poll(c, k)
    \/ Handle(c)
    \/ Save(c)
    \/ SaveFails(c)
    \/ CommitMessage(c)

Next ==
    \/ \E c \in Consumers : Step(c) \/ Restart(c)
    \/ \E c \in Consumers, k \in Partitions : Assign(c, k)
    \/ \E c \in Consumers : Rebalance(c) \/ Evict(c) \/ Crash(c) \/ Stop(c)
    \/ \E u \in Users : RemoveAccount(u)

Spec == Init /\ [][Next]_vars

\* A goroutine runs on until its handler returns; a process that stopped is
\* started again; and a partition nobody owns is given to a consumer that
\* keeps coming back to Poll, although not to one that is in Poll all along.
FairSpec ==
    /\ Spec
    /\ \A c \in Consumers : WF_vars(Step(c)) /\ WF_vars(Restart(c))
    /\ \A k \in Partitions : SF_vars(\E c \in Consumers : Assign(c, k))
-----------------------------------------------------------------------------
Busy == {"handle", "save", "commit"}

\* Every variable has its type.
TypeOK ==
    /\ subscriptions \in [Users -> IdList]
    /\ removed \subseteq Users
    /\ committed \in [Partitions -> Nat]
    /\ owner \in [Partitions -> Consumers \cup {Nobody}]
    /\ position \in [Partitions -> Nat]
    /\ stopping \in [Consumers -> BOOLEAN]
    /\ pc \in [Consumers -> {"loop", "poll", "closed"} \cup Busy]
    /\ job \in [Consumers -> Job]
    /\ DOMAIN returned = Partitions
    /\ \A k \in Partitions :
          returned[k] \in [DOMAIN Log[k] -> SUBSET {"nil", "error"}]
    /\ DOMAIN delivered = Partitions
    /\ \A k \in Partitions : delivered[k] \in [DOMAIN Log[k] -> Nat]
    /\ faults \in Nat

\* No message is behind the group unless Handle has returned for it: neither
\* a revocation or a shutdown, which commit what was polled, nor an eviction
\* or a crash in the middle of a handler lets the group pass a message that
\* was never tried (the loop of NewKafkaConsumer, rebalanceCb).
NothingSkipped ==
    \A k \in Partitions :
        \A o \in 1 .. committed[k] :
            o \in DOMAIN Log[k] /\ returned[k][o] # {}

\* The group never goes back: a consumer that lost a partition while it was
\* handling a message does not take the offset of its successor away.
CommittedAdvances ==
    [][\A k \in Partitions : committed'[k] >= committed[k]]_vars

\* The group delivers every message at least once: first in the order of its
\* partition, and before the group passes it for good (NewKafkaConsumer).
Delivery ==
    INSTANCE AtLeastOnce WITH
        Length <- [k \in Partitions |-> Len(Log[k])],
        tried <- [k \in Partitions |->
                    {o \in DOMAIN Log[k] : returned[k][o] # {}}],
        passed <- committed

DeliverySpec == Delivery!Spec

\* An update of the subscriptions starts from the list the row has now, and
\* so does not undo another one: SetSubscriptionIds writes the whole list
\* computed from the user that an earlier transaction loaded.
LoadedIsCurrent ==
    \A c \in Consumers :
        pc[c] = "save" /\ Current(c).kind \in {"add", "remove"} =>
            job[c].loaded = subscriptions[Current(c).user]

\* No subscription is listed twice unless an event lists it twice, however
\* often the event is redelivered and whoever else handles it at the same time
\* (AddSubscriptions).
SubscriptionsDistinct ==
    (\A k \in Partitions : \A o \in DOMAIN Log[k] :
        \A id \in Ids : Log[k][o].ids[id] <= 1)
    => \A u \in Users : \A id \in Ids : subscriptions[u][id] <= 1

\* What the messages of a user say in the end, if they are in one partition.
Says(k, o, kind, u, id) ==
    Log[k][o].kind = kind /\ Log[k][o].user = u /\ Log[k][o].ids[id] > 0

SubscribedInTheEnd(u, id) ==
    \E k \in Partitions : \E o \in DOMAIN Log[k] :
        /\ Says(k, o, "add", u, id)
        /\ \A p \in o + 1 .. Len(Log[k]) : ~Says(k, p, "remove", u, id)

\* Once the group has passed every message, nobody handles one and no handler
\* has failed, a user has the subscriptions its messages say, although
\* crashes and lost commits made consumers handle some of them again.
SubscriptionsConverge ==
    (/\ \A k \in Partitions : committed[k] = Len(Log[k])
     /\ \A c \in Consumers : pc[c] \notin Busy
     /\ \A k \in Partitions : \A o \in DOMAIN Log[k] :
            "error" \notin returned[k][o])
    => \A u \in Users : \A id \in Ids :
          subscriptions[u][id] > 0 <=> SubscribedInTheEnd(u, id)

\* A message is delivered again only because something went wrong, and once per
\* fault at most.  A handler that returns an error and a commit that fails do
\* not bring their message back: the loop polls on, and only a consumer that
\* takes the partition over may start before it (NewKafkaConsumer, rebalanceCb).
DeliveredOncePerFault ==
    \A k \in Partitions : \A o \in DOMAIN Log[k] :
        delivered[k][o] <= faults + 1

\* Every message is handled at some time, if only to return an error.
EveryMessageHandled ==
    \A k \in Partitions : \A o \in DOMAIN Log[k] : <>(returned[k][o] # {})
=============================================================================
