------------------------- MODULE KafkaConsumerProofs -------------------------
(***************************************************************************)
(* Proofs about the consumers of a topic, for any number of replicas,      *)
(* partitions, messages and faults: every message is tried in its order    *)
(* and before the group passes it for good (AtLeastOnce), redelivery costs *)
(* a fault each time, and keyed updates converge.                          *)
(***************************************************************************)
EXTENDS KafkaConsumer, SequenceTheorems, FiniteSetTheorems, TLAPS

IsBusy(c) == pc[c] \in Busy

\* The message a busy consumer handles exists.
JobsInLog ==
    \A c \in Consumers : IsBusy(c) =>
        /\ job[c].partition \in Partitions
        /\ job[c].offset \in DOMAIN Log[job[c].partition]

\* An owner has polled what it is handling, and nothing after it.
JobsAtPosition ==
    \A c \in Consumers :
        IsBusy(c) /\ owner[job[c].partition] = c =>
            job[c].offset = position[job[c].partition]

Tried(k, o) == o \in DOMAIN Log[k] /\ returned[k][o] # {}

\* Handle has returned for every message the owner of a partition has polled,
\* but for the one it is handling.
PolledTried ==
    \A k \in Partitions : owner[k] # Nobody =>
        \A o \in 1 .. position[k] :
            \/ Tried(k, o)
            \/ /\ IsBusy(owner[k])
               /\ job[owner[k]].partition = k /\ job[owner[k]].offset = o

\* A consumer commits a message for which Handle has returned.
CommitTried ==
    \A c \in Consumers :
        pc[c] = "commit" => Tried(job[c].partition, job[c].offset)

\* Polling goes on from where the group is.
PositionAhead ==
    \A k \in Partitions : owner[k] # Nobody => committed[k] <= position[k]

\* A closed consumer owns nothing: it has left the group.
ClosedOwnsNothing ==
    \A k \in Partitions : owner[k] # Nobody => pc[owner[k]] # "closed"

Inv == /\ TypeOK
       /\ JobsInLog
       /\ JobsAtPosition
       /\ PolledTried
       /\ CommitTried
       /\ PositionAhead
       /\ ClosedOwnsNothing
       /\ NothingSkipped

\* The two halves of the type invariant: the tables, and the loops.
TablesTyped ==
    /\ subscriptions \in [Users -> IdList]
    /\ removed \subseteq Users

LoopsTyped ==
    /\ committed \in [Partitions -> Nat]
    /\ owner \in [Partitions -> Consumers \cup {Nobody}]
    /\ position \in [Partitions -> Nat]
    /\ stopping \in [Consumers -> BOOLEAN]
    /\ pc \in [Consumers -> {"loop", "poll", "closed"} \cup Busy]
    /\ job \in [Consumers -> Job]
    /\ DOMAIN returned = Partitions
    /\ \A k \in Partitions :
          returned[k] \in [DOMAIN Log[k] -> SUBSET {"nil", "error"}]
    /\ DOMAIN delivered = Partitions
    /\ \A k \in Partitions : delivered[k] \in [DOMAIN Log[k] -> Nat]
    /\ faults \in Nat

\* What is left of the invariant once the types are set aside.
Control == /\ JobsInLog
           /\ JobsAtPosition
           /\ PolledTried
           /\ CommitTried
           /\ PositionAhead
           /\ ClosedOwnsNothing
           /\ NothingSkipped

\* The parts of the invariant make up the whole.
LEMMA InvParts == Inv <=> TablesTyped /\ LoopsTyped /\ Control
  BY DEF Inv, TypeOK, TablesTyped, LoopsTyped, Control

\* A partition is a sequence of messages.
LEMMA LogFacts ==
  ASSUME NEW k \in Partitions
  PROVE  /\ Len(Log[k]) \in Nat
         /\ DOMAIN Log[k] = 1 .. Len(Log[k])
         /\ \A o \in DOMAIN Log[k] : Log[k][o] \in Message
  BY LogAssumption

\* No job and no list are of the types of jobs and lists.
LEMMA NoJobIsJob == NoIds \in IdList /\ NoJob \in Job
  BY DEF NoIds, IdList, NoJob, Job

\* Adding to a list and removing from it give lists.
LEMMA ListOperations ==
  ASSUME NEW a \in IdList, NEW b \in IdList
  PROVE  AddIDs(a, b) \in IdList /\ RemoveIDs(a, b) \in IdList
  BY DEF AddIDs, RemoveIDs, IdList

\* Whatever Handle returns, it now has returned for the message it was given,
\* and for no message the other way round (Handle, AddSubscriptions,
\* RemoveSubscriptions).
LEMMA ReturnsKeeps ==
  ASSUME LoopsTyped, Control,
         NEW c \in Consumers, IsBusy(c),
         NEW result \in {"nil", "error"}, Returns(c, result),
         UNCHANGED <<group, stopping, delivered, faults>>
  PROVE  LoopsTyped' /\ Control'
<1>1. PICK k \in Partitions, o \in Nat :
          /\ k = job[c].partition /\ o = job[c].offset
          /\ o \in DOMAIN Log[k]
  BY LogFacts DEF Control, JobsInLog
<1>0. UNCHANGED <<committed, owner, position, stopping, delivered, faults>>
  BY DEF group
<1>2. returned' = [returned EXCEPT
                     ![k] = [returned[k] EXCEPT ![o] = @ \cup {result}]]
  BY <1>1 DEF Returns, LoopsTyped
<1>2a. \A l \in Partitions : \A p \in DOMAIN Log[l] :
          returned'[l][p] = IF l = k /\ p = o
                            THEN returned[l][p] \cup {result}
                            ELSE returned[l][p]
  BY <1>1, <1>2 DEF LoopsTyped
<1>2b. /\ DOMAIN returned' = Partitions
       /\ \A l \in Partitions :
            returned'[l] \in [DOMAIN Log[l] -> SUBSET {"nil", "error"}]
  BY <1>1, <1>2 DEF LoopsTyped
<1>3. \A l \in Partitions, p \in Nat : Tried(l, p) => Tried(l, p)'
  BY <1>2a DEF Tried
<1>4. Tried(k, o)'
  BY <1>1, <1>2a DEF Tried
<1>5. /\ pc' = [pc EXCEPT ![c] = IF result = "nil" THEN "commit" ELSE "loop"]
      /\ job' = IF result = "nil" THEN job ELSE [job EXCEPT ![c] = NoJob]
  BY DEF Returns
<1>6. /\ \A d \in Consumers \ {c} : pc'[d] = pc[d] /\ job'[d] = job[d]
      /\ result = "nil" => job'[c] = job[c]
      /\ pc'[c] = IF result = "nil" THEN "commit" ELSE "loop"
  BY <1>5 DEF LoopsTyped
<1>7. LoopsTyped'
  BY <1>0, <1>2b, <1>5, NoJobIsJob DEF LoopsTyped, Busy
<1>8. \A d \in Consumers : IsBusy(d)' => IsBusy(d) /\ job'[d] = job[d]
  BY <1>6 DEF IsBusy, Busy
<1>9. JobsInLog'
  BY <1>8 DEF Control, JobsInLog
<1>10. JobsAtPosition'
  BY <1>0, <1>8 DEF Control, JobsAtPosition
<1>11. PolledTried'
  <2> SUFFICES ASSUME NEW l \in Partitions, owner[l] # Nobody,
                      NEW p \in 1 .. position[l]
               PROVE  \/ Tried(l, p)'
                      \/ /\ IsBusy(owner[l])'
                         /\ job'[owner[l]].partition = l
                         /\ job'[owner[l]].offset = p
    BY <1>0 DEF PolledTried
  <2>1. CASE Tried(l, p)
    <3>1. p \in Nat
      BY DEF LoopsTyped
    <3> QED BY <2>1, <3>1, <1>3
  <2>2. CASE ~Tried(l, p)
    <3>1. /\ IsBusy(owner[l])
          /\ job[owner[l]].partition = l /\ job[owner[l]].offset = p
      BY <2>2 DEF Control, PolledTried
    <3>2. CASE owner[l] = c
      BY <3>1, <3>2, <1>1, <1>4
    <3>3. CASE owner[l] # c
      BY <3>1, <3>3, <1>6, <1>0 DEF IsBusy, LoopsTyped
    <3> QED BY <3>2, <3>3
  <2> QED BY <2>1, <2>2
<1>12. CommitTried'
  <2> SUFFICES ASSUME NEW d \in Consumers, pc'[d] = "commit"
               PROVE  Tried(job[d].partition, job[d].offset)'
    BY <1>8 DEF CommitTried, IsBusy, Busy
  <2>0. job'[d] = job[d]
    BY <1>8 DEF IsBusy, Busy
  <2>1. CASE d = c
    BY <2>0, <2>1, <1>1, <1>4
  <2>2. CASE d # c
    <3>1. Tried(job[d].partition, job[d].offset)
      BY <2>2, <1>6 DEF Control, CommitTried
    <3>2. job[d].partition \in Partitions /\ job[d].offset \in Nat
      BY <2>2, <1>6, LogFacts DEF Control, JobsInLog, IsBusy, Busy
    <3> QED BY <3>1, <3>2, <1>3, <2>0
  <2> QED BY <2>1, <2>2
<1>13. PositionAhead' /\ NothingSkipped'
  BY <1>0, <1>2a DEF Control, PositionAhead, NothingSkipped
<1>14. ClosedOwnsNothing'
  BY <1>0, <1>6 DEF Control, ClosedOwnsNothing, LoopsTyped
<1> QED BY <1>7, <1>9, <1>10, <1>11, <1>12, <1>13, <1>14 DEF Control

\* A consumer that gives its partitions up leaves everything in order, whether
\* it commits what it polled, which it only does between two messages, or not
\* (rebalanceCb, Close, an eviction, a crash).
LEMMA DisownKeeps ==
  ASSUME LoopsTyped, Control,
         NEW c \in Consumers, Disown(c),
         UNCHANGED committed \/ (CommitStored(c) /\ ~IsBusy(c)),
         UNCHANGED <<position, returned>>,
         \A d \in Consumers : IsBusy(d)' =>
            IsBusy(d) /\ job'[d] = job[d] /\ pc'[d] = pc[d],
         \A d \in Consumers \ {c} : pc'[d] = pc[d] /\ job'[d] = job[d]
  PROVE  /\ committed' \in [Partitions -> Nat]
         /\ owner' \in [Partitions -> Consumers \cup {Nobody}]
         /\ Control'
<1>1. /\ committed' \in [Partitions -> Nat]
      /\ owner' \in [Partitions -> Consumers \cup {Nobody}]
  BY DEF LoopsTyped, CommitStored, Disown
<1>2. \A k \in Partitions : owner'[k] # Nobody =>
        owner'[k] = owner[k] /\ owner[k] # c /\ owner[k] \in Consumers
  BY DEF Disown, LoopsTyped
<1>3. \A k \in Partitions :
        \/ committed'[k] = committed[k]
        \/ committed'[k] = position[k] /\ owner[k] = c /\ ~IsBusy(c)
  BY DEF CommitStored
<1>4. JobsInLog'
  BY DEF Control, JobsInLog
<1>5. JobsAtPosition'
  <2> SUFFICES ASSUME NEW d \in Consumers, IsBusy(d)',
                      owner'[job'[d].partition] = d
               PROVE  job'[d].offset = position'[job'[d].partition]
    BY DEF JobsAtPosition
  <2>1. IsBusy(d) /\ job'[d] = job[d] /\ job[d].partition \in Partitions
    BY DEF Control, JobsInLog
  <2>2. owner[job[d].partition] = d
    BY <2>1, <1>2, FaultsAssumption
  <2> QED BY <2>1, <2>2 DEF Control, JobsAtPosition
<1>6. PolledTried'
  <2> SUFFICES ASSUME NEW k \in Partitions, owner'[k] # Nobody,
                      NEW o \in 1 .. position[k]
               PROVE  \/ Tried(k, o)
                      \/ /\ pc'[owner'[k]] \in Busy
                         /\ job'[owner'[k]].partition = k
                         /\ job'[owner'[k]].offset = o
    BY DEF PolledTried, Tried, IsBusy
  <2>1. /\ owner'[k] = owner[k] /\ owner[k] \in Consumers \ {c}
        /\ owner[k] # Nobody
    BY <1>2
  <2>2. \/ Tried(k, o)
        \/ /\ IsBusy(owner[k])
           /\ job[owner[k]].partition = k /\ job[owner[k]].offset = o
    BY <2>1 DEF Control, PolledTried
  <2> QED BY <2>1, <2>2 DEF IsBusy
<1>7. CommitTried'
  BY DEF Control, CommitTried, Tried, IsBusy, Busy
<1>8. PositionAhead'
  BY <1>2, <1>3 DEF Control, PositionAhead, LoopsTyped
<1>9. ClosedOwnsNothing'
  BY <1>2 DEF Control, ClosedOwnsNothing
<1>10. NothingSkipped'
  <2> SUFFICES ASSUME NEW k \in Partitions, NEW o \in 1 .. committed'[k]
               PROVE  Tried(k, o)
    BY DEF NothingSkipped, Tried
  <2>1. CASE committed'[k] = committed[k]
    BY <2>1 DEF Control, NothingSkipped, Tried
  <2>2. CASE committed'[k] = position[k] /\ owner[k] = c /\ ~IsBusy(c)
    BY <2>2, FaultsAssumption DEF Control, PolledTried
  <2> QED BY <2>1, <2>2, <1>3
<1> QED BY <1>1, <1>4, <1>5, <1>6, <1>7, <1>8, <1>9, <1>10 DEF Control
-----------------------------------------------------------------------------
\* The select at the head of the loop (NewKafkaConsumer).
LEMMA LoopKeeps ==
  ASSUME LoopsTyped, Control, NEW c \in Consumers, Loop(c)
  PROVE  LoopsTyped' /\ Control'
<1>1. /\ ~IsBusy(c) /\ pc[c] = "loop"
      /\ UNCHANGED <<position, stopping, job, returned, delivered, faults>>
  BY DEF Loop, IsBusy, Busy
<1>2. CASE ~stopping[c]
  <2>1. pc' = [pc EXCEPT ![c] = "poll"] /\ UNCHANGED <<committed, owner>>
    BY <1>2 DEF Loop
  <2>2. LoopsTyped'
    BY <1>1, <2>1 DEF LoopsTyped
  <2>3. \A d \in Consumers : /\ IsBusy(d)' <=> IsBusy(d)
                             /\ pc'[d] = "commit" => pc[d] = "commit"
                             /\ pc'[d] = "closed" => pc[d] = "closed"
    BY <1>1, <2>1 DEF LoopsTyped, IsBusy, Busy
  <2>4. JobsInLog' /\ JobsAtPosition' /\ CommitTried'
    BY <1>1, <2>1, <2>3
       DEF Control, JobsInLog, JobsAtPosition, CommitTried, Tried
  <2>5. PolledTried'
    <3>1. UNCHANGED <<owner, position, returned, job>>
      BY <1>1, <2>1
    <3> QED BY <2>3, <3>1 DEF Control, PolledTried, Tried, LoopsTyped
  <2>5a. ClosedOwnsNothing'
    BY <2>1, <2>3 DEF Control, ClosedOwnsNothing, LoopsTyped
  <2>6. PositionAhead' /\ NothingSkipped'
    BY <1>1, <2>1 DEF Control, PositionAhead, NothingSkipped
  <2> QED BY <2>2, <2>4, <2>5, <2>5a, <2>6 DEF Control
<1>3. CASE stopping[c]
  <2>1. /\ pc' = [pc EXCEPT ![c] = "closed"] /\ Disown(c)
        /\ CommitStored(c) \/ UNCHANGED committed
    BY <1>3 DEF Loop
  <2>2. /\ committed' \in [Partitions -> Nat]
        /\ owner' \in [Partitions -> Consumers \cup {Nobody}]
        /\ Control'
    <3>1. \A d \in Consumers \ {c} : pc'[d] = pc[d] /\ job'[d] = job[d]
      BY <1>1, <2>1 DEF LoopsTyped
    <3>2. \A d \in Consumers : IsBusy(d)' =>
             IsBusy(d) /\ job'[d] = job[d] /\ pc'[d] = pc[d]
      BY <1>1, <2>1 DEF IsBusy, Busy, LoopsTyped
    <3> QED BY <1>1, <2>1, <3>1, <3>2, DisownKeeps
  <2>3. LoopsTyped'
    BY <1>1, <2>1, <2>2 DEF LoopsTyped
  <2> QED BY <2>2, <2>3
<1> QED BY <1>2, <1>3

\* What only moves an idle consumer about, or nothing at all, keeps the
\* control: offsets, owners, history and the jobs of busy consumers stay.
LEMMA IdleKeeps ==
  ASSUME LoopsTyped, Control,
         UNCHANGED <<group, returned>>,
         \A d \in Consumers :
            /\ pc'[d] \in Busy <=> pc[d] \in Busy
            /\ pc'[d] = "commit" <=> pc[d] = "commit"
            /\ pc'[d] = "closed" => pc[d] = "closed"
            /\ pc[d] \in Busy =>
                  /\ job'[d].partition = job[d].partition
                  /\ job'[d].offset = job[d].offset
  PROVE  Control'
<1>1. UNCHANGED <<committed, owner, position, returned>>
  BY DEF group
<1>2. JobsInLog' /\ JobsAtPosition'
  BY <1>1 DEF Control, JobsInLog, JobsAtPosition, IsBusy
<1>3. CommitTried'
  BY <1>1 DEF Control, CommitTried, Tried, Busy
<1>4. PolledTried' /\ ClosedOwnsNothing'
  BY <1>1 DEF Control, PolledTried, ClosedOwnsNothing, Tried, LoopsTyped,
              IsBusy
<1>5. PositionAhead' /\ NothingSkipped'
  BY <1>1 DEF Control, PositionAhead, NothingSkipped
<1> QED BY <1>2, <1>3, <1>4, <1>5 DEF Control

\* Poll without a message, Stop and Restart (NewKafkaConsumer, Stop).
LEMMA IdleStepsKeep ==
  ASSUME LoopsTyped, Control, NEW c \in Consumers,
         PollNothing(c) \/ Stop(c) \/ Restart(c)
  PROVE  LoopsTyped' /\ Control'
<1>1. UNCHANGED <<group, returned, delivered, job>>
  BY DEF PollNothing, Stop, Restart
<1>2. LoopsTyped'
  <2>1. /\ pc' \in [Consumers -> {"loop", "poll", "closed"} \cup Busy]
        /\ stopping' \in [Consumers -> BOOLEAN] /\ faults' \in Nat
    <3>1. CASE PollNothing(c)
      BY <3>1 DEF PollNothing, LoopsTyped
    <3>2. CASE Stop(c)
      BY <3>2 DEF Stop, Fault, LoopsTyped
    <3>3. CASE Restart(c)
      BY <3>3 DEF Restart, LoopsTyped
    <3> QED BY <3>1, <3>2, <3>3
  <2> QED BY <1>1, <2>1 DEF LoopsTyped, group
<1>3. \A d \in Consumers :
         /\ pc'[d] \in Busy <=> pc[d] \in Busy
         /\ pc'[d] = "commit" <=> pc[d] = "commit"
         /\ pc'[d] = "closed" => pc[d] = "closed"
  BY DEF PollNothing, Stop, Restart, LoopsTyped, Busy
<1> QED BY <1>1, <1>2, <1>3, IdleKeeps

\* Poll hands out the next message of a partition (NewKafkaConsumer).
LEMMA PollKeeps ==
  ASSUME LoopsTyped, Control, NEW c \in Consumers, NEW k \in Partitions,
         Poll(c, k)
  PROVE  LoopsTyped' /\ Control'
<1>1. /\ pc[c] = "poll" /\ owner[k] = c /\ owner[k] # Nobody
      /\ position[k] < Len(Log[k])
      /\ position' = [position EXCEPT ![k] = @ + 1]
      /\ job' = [job EXCEPT ![c] = [partition |-> k,
                                    offset |-> position[k] + 1,
                                    loaded |-> NoIds]]
      /\ pc' = [pc EXCEPT ![c] = "handle"]
      /\ delivered' = [delivered EXCEPT ![k][position[k] + 1] = @ + 1]
      /\ UNCHANGED <<committed, owner, stopping, returned, faults>>
  BY FaultsAssumption DEF Poll
<1>2. position[k] + 1 \in DOMAIN Log[k] /\ position[k] + 1 \in Nat
  BY <1>1, LogFacts DEF LoopsTyped
<1>3. LoopsTyped'
  BY <1>1, <1>2, NoJobIsJob DEF LoopsTyped, Busy, Job
<1>4. /\ \A d \in Consumers \ {c} : pc'[d] = pc[d] /\ job'[d] = job[d]
      /\ pc'[c] = "handle" /\ ~IsBusy(c)
      /\ job'[c].partition = k /\ job'[c].offset = position[k] + 1
  BY <1>1 DEF LoopsTyped, IsBusy, Busy
<1>5. JobsInLog'
  BY <1>2, <1>4 DEF Control, JobsInLog, IsBusy
<1>6. JobsAtPosition'
  BY <1>1, <1>4 DEF Control, JobsAtPosition, JobsInLog, IsBusy, LoopsTyped
<1>7. PolledTried'
  <2> SUFFICES ASSUME NEW l \in Partitions, owner[l] # Nobody,
                      NEW o \in 1 .. position'[l]
               PROVE  \/ Tried(l, o)
                      \/ /\ pc'[owner[l]] \in Busy
                         /\ job'[owner[l]].partition = l
                         /\ job'[owner[l]].offset = o
    BY <1>1 DEF PolledTried, Tried, IsBusy
  <2>1. CASE l = k /\ o = position[k] + 1
    BY <2>1, <1>1, <1>4 DEF Busy
  <2>2. CASE ~(l = k /\ o = position[k] + 1)
    <3>1. o \in 1 .. position[l]
      BY <2>2, <1>1 DEF LoopsTyped
    <3>2. CASE Tried(l, o)
      BY <3>2
    <3>3. CASE ~Tried(l, o)
      <4>1. /\ IsBusy(owner[l])
            /\ job[owner[l]].partition = l /\ job[owner[l]].offset = o
        BY <3>1, <3>3 DEF Control, PolledTried
      <4>2. owner[l] \in Consumers \ {c}
        BY <4>1, <1>4 DEF LoopsTyped
      <4> QED BY <4>1, <4>2, <1>4 DEF IsBusy
    <3> QED BY <3>2, <3>3
  <2> QED BY <2>1, <2>2
<1>8. CommitTried'
  BY <1>1, <1>4 DEF Control, CommitTried, Tried
<1>9. PositionAhead' /\ NothingSkipped'
  BY <1>1 DEF Control, PositionAhead, NothingSkipped, LoopsTyped
<1>10. ClosedOwnsNothing'
  BY <1>1, <1>4 DEF Control, ClosedOwnsNothing, LoopsTyped
<1> QED BY <1>3, <1>5, <1>6, <1>7, <1>8, <1>9, <1>10 DEF Control

\* The first half of a handler (Handle of both handlers).
LEMMA HandleKeeps ==
  ASSUME Inv, NEW c \in Consumers, Handle(c)
  PROVE  LoopsTyped' /\ Control'
<1>1. LoopsTyped /\ Control /\ TablesTyped /\ IsBusy(c)
  BY InvParts DEF Handle, IsBusy, Busy
<1>2. CASE \E r \in {"nil", "error"} : Returns(c, r)
  BY <1>1, <1>2, ReturnsKeeps DEF Handle
<1>3. CASE /\ Current(c).user \notin removed
           /\ job' = [job EXCEPT ![c].loaded = subscriptions[Current(c).user]]
           /\ pc' = [pc EXCEPT ![c] = "save"]
           /\ UNCHANGED returned
  <2>1. Current(c) \in Message
    BY <1>1, LogFacts DEF Current, Control, JobsInLog
  <2>2. subscriptions[Current(c).user] \in IdList
    BY <1>1, <2>1 DEF Message, TablesTyped
  <2>3. /\ job' \in [Consumers -> Job]
        /\ \A d \in Consumers : /\ job'[d].partition = job[d].partition
                                /\ job'[d].offset = job[d].offset
    BY <1>1, <1>3, <2>2 DEF LoopsTyped, Job
  <2>4. LoopsTyped'
    BY <1>1, <1>3, <2>3 DEF LoopsTyped, Busy, Handle, group
  <2>5. Control'
    <3>1. \A d \in Consumers :
             /\ pc'[d] \in Busy <=> pc[d] \in Busy
             /\ pc'[d] = "commit" <=> pc[d] = "commit"
             /\ pc'[d] = "closed" => pc[d] = "closed"
      BY <1>1, <1>3 DEF LoopsTyped, Busy, Handle
    <3> QED BY <1>1, <1>3, <2>3, <3>1, IdleKeeps DEF Handle
  <2> QED BY <2>4, <2>5
<1> QED BY <1>2, <1>3 DEF Handle

\* The second half, whatever becomes of its transaction.
LEMMA SaveKeeps ==
  ASSUME LoopsTyped, Control, NEW c \in Consumers, Save(c) \/ SaveFails(c)
  PROVE  LoopsTyped' /\ Control'
<1>1. IsBusy(c) /\ UNCHANGED <<group, stopping, delivered, faults>>
  BY DEF Save, SaveFails, IsBusy, Busy
<1>2. \E r \in {"nil", "error"} : Returns(c, r)
  BY DEF Save, SaveFails
<1> QED BY <1>1, <1>2, ReturnsKeeps

\* CommitMessage, refused or not (NewKafkaConsumer).
LEMMA CommitKeeps ==
  ASSUME LoopsTyped, Control, NEW c \in Consumers, CommitMessage(c)
  PROVE  LoopsTyped' /\ Control'
<1>1. PICK k \in Partitions, o \in Nat :
          /\ k = job[c].partition /\ o = job[c].offset
          /\ o \in DOMAIN Log[k] /\ Tried(k, o)
          /\ owner[k] = c => o = position[k]
  BY LogFacts DEF CommitMessage, Control, JobsInLog, JobsAtPosition,
                  CommitTried, IsBusy, Busy
<1>2. /\ IsBusy(c)
      /\ \/ UNCHANGED committed
         \/ owner[k] = c /\ committed' = [committed EXCEPT ![k] = o]
      /\ pc' = [pc EXCEPT ![c] = "loop"]
      /\ job' = [job EXCEPT ![c] = NoJob]
      /\ UNCHANGED <<owner, position, stopping, returned, delivered, faults>>
  BY <1>1 DEF CommitMessage, IsBusy, Busy
<1>3. LoopsTyped'
  BY <1>2, NoJobIsJob DEF LoopsTyped
<1>4. /\ \A d \in Consumers \ {c} : pc'[d] = pc[d] /\ job'[d] = job[d]
      /\ pc'[c] = "loop" /\ ~(pc'[c] \in Busy)
  BY <1>2 DEF LoopsTyped, Busy
<1>5. JobsInLog' /\ JobsAtPosition' /\ CommitTried'
  BY <1>2, <1>4
     DEF Control, JobsInLog, JobsAtPosition, CommitTried, Tried, IsBusy, Busy
<1>6. PolledTried'
  <2> SUFFICES ASSUME NEW l \in Partitions, owner[l] # Nobody,
                      NEW p \in 1 .. position[l], ~Tried(l, p)
               PROVE  /\ pc'[owner[l]] \in Busy
                      /\ job'[owner[l]].partition = l
                      /\ job'[owner[l]].offset = p
    BY <1>2 DEF PolledTried, Tried, IsBusy
  <2>1. /\ IsBusy(owner[l])
        /\ job[owner[l]].partition = l /\ job[owner[l]].offset = p
    BY DEF Control, PolledTried
  <2>2. owner[l] \in Consumers /\ owner[l] # c
    BY <2>1, <1>1 DEF LoopsTyped
  <2> QED BY <2>1, <2>2, <1>4 DEF IsBusy
<1>7. PositionAhead'
  BY <1>1, <1>2 DEF Control, PositionAhead, LoopsTyped
<1>8. NothingSkipped'
  <2> SUFFICES ASSUME NEW l \in Partitions, NEW p \in 1 .. committed'[l]
               PROVE  Tried(l, p)
    BY <1>2 DEF NothingSkipped, Tried
  <2>1. CASE committed'[l] = committed[l]
    BY <2>1 DEF Control, NothingSkipped, Tried
  <2>2. CASE l = k /\ owner[k] = c /\ committed'[l] = o
    <3>1. p \in 1 .. position[k] /\ owner[k] # Nobody
      BY <2>2, <1>1, FaultsAssumption
    <3>2. CASE p = o
      BY <3>2, <2>2, <1>1
    <3>3. CASE p # o
      BY <3>1, <3>3, <2>2, <1>1 DEF Control, PolledTried
    <3> QED BY <3>2, <3>3
  <2> QED BY <2>1, <2>2, <1>2 DEF LoopsTyped
<1>9. ClosedOwnsNothing'
  BY <1>2, <1>4 DEF Control, ClosedOwnsNothing, LoopsTyped
<1> QED BY <1>3, <1>5, <1>6, <1>7, <1>8, <1>9 DEF Control

\* A partition is given to a consumer in Poll (rebalanceCb).
LEMMA AssignKeeps ==
  ASSUME LoopsTyped, Control, NEW c \in Consumers, NEW k \in Partitions,
         Assign(c, k)
  PROVE  LoopsTyped' /\ Control'
<1>1. /\ pc[c] = "poll" /\ owner[k] = Nobody
      /\ owner' = [owner EXCEPT ![k] = c]
      /\ position' = [position EXCEPT ![k] = committed[k]]
      /\ UNCHANGED <<committed, stopping, pc, job, returned, delivered,
                     faults>>
  BY DEF Assign
<1>2. LoopsTyped'
  BY <1>1 DEF LoopsTyped
<1>3. JobsInLog' /\ CommitTried'
  BY <1>1 DEF Control, JobsInLog, CommitTried, Tried, IsBusy
<1>4. JobsAtPosition'
  <2> SUFFICES ASSUME NEW d \in Consumers, IsBusy(d),
                      owner'[job[d].partition] = d
               PROVE  job[d].offset = position'[job[d].partition]
    BY <1>1 DEF JobsAtPosition, IsBusy
  <2>1. job[d].partition \in Partitions /\ job[d].partition # k
    BY <1>1 DEF Control, JobsInLog, IsBusy, Busy, LoopsTyped
  <2> QED BY <2>1, <1>1 DEF Control, JobsAtPosition, LoopsTyped
<1>5. PolledTried'
  <2> SUFFICES ASSUME NEW l \in Partitions, owner'[l] # Nobody,
                      NEW p \in 1 .. position'[l]
               PROVE  \/ Tried(l, p)
                      \/ /\ pc[owner'[l]] \in Busy
                         /\ job[owner'[l]].partition = l
                         /\ job[owner'[l]].offset = p
    BY <1>1 DEF PolledTried, Tried, IsBusy
  <2>1. CASE l = k
    BY <2>1, <1>1 DEF Control, NothingSkipped, Tried, LoopsTyped
  <2>2. CASE l # k
    BY <2>2, <1>1 DEF Control, PolledTried, LoopsTyped, IsBusy
  <2> QED BY <2>1, <2>2
<1>6. PositionAhead' /\ NothingSkipped' /\ ClosedOwnsNothing'
  BY <1>1 DEF Control, PositionAhead, NothingSkipped, ClosedOwnsNothing,
              LoopsTyped
<1> QED BY <1>2, <1>3, <1>4, <1>5, <1>6 DEF Control

\* Rebalance, Evict and Crash take the partitions of a consumer away.
LEMMA LossKeeps ==
  ASSUME LoopsTyped, Control, NEW c \in Consumers,
         Rebalance(c) \/ Evict(c) \/ Crash(c)
  PROVE  LoopsTyped' /\ Control'
<1>1. /\ Disown(c) /\ UNCHANGED <<position, stopping, returned, delivered>>
      /\ UNCHANGED committed \/ (CommitStored(c) /\ ~IsBusy(c))
  BY DEF Rebalance, Evict, Crash, IsBusy, Busy
<1>2. \/ UNCHANGED <<pc, job>>
      \/ /\ pc' = [pc EXCEPT ![c] = "closed"]
         /\ job' = [job EXCEPT ![c] = NoJob]
  BY DEF Rebalance, Evict, Crash
<1>3. /\ \A d \in Consumers \ {c} : pc'[d] = pc[d] /\ job'[d] = job[d]
      /\ \A d \in Consumers : IsBusy(d)' =>
            IsBusy(d) /\ job'[d] = job[d] /\ pc'[d] = pc[d]
  BY <1>2 DEF LoopsTyped, IsBusy, Busy
<1>4. /\ committed' \in [Partitions -> Nat]
      /\ owner' \in [Partitions -> Consumers \cup {Nobody}]
      /\ Control'
  BY <1>1, <1>3, DisownKeeps
<1>5. /\ pc' \in [Consumers -> {"loop", "poll", "closed"} \cup Busy]
      /\ job' \in [Consumers -> Job]
  BY <1>2, NoJobIsJob DEF LoopsTyped
<1>6. faults' \in Nat
  BY DEF Rebalance, Evict, Crash, Fault, LoopsTyped
<1> QED BY <1>1, <1>4, <1>5, <1>6 DEF LoopsTyped

\* What a consumer's handler does to the tables (AddSubscriptions,
\* RemoveSubscriptions).
LEMMA TablesKeep ==
  ASSUME Inv, [Next]_vars
  PROVE  TablesTyped'
<1>0. TablesTyped /\ LoopsTyped /\ Control
  BY InvParts
<1>1. CASE UNCHANGED tables
  BY <1>0, <1>1 DEF TablesTyped, tables
<1>2. ASSUME NEW c \in Consumers, Save(c)
      PROVE  TablesTyped'
  <2> DEFINE m == Current(c)
  <2>1. PICK k \in Partitions, o \in Nat :
            /\ k = job[c].partition /\ o = job[c].offset
            /\ o \in DOMAIN Log[k]
    BY LogFacts, <1>0, <1>2 DEF Save, Control, JobsInLog, IsBusy, Busy
  <2>2. m.user \in Users /\ m.ids \in IdList
    BY <2>1, LogFacts DEF Current, Message
  <2>3. job[c].loaded \in IdList
    BY <1>0 DEF LoopsTyped, Job
  <2>4. /\ AddIDs(job[c].loaded, m.ids) \in IdList
        /\ RemoveIDs(job[c].loaded, m.ids) \in IdList
    BY <2>2, <2>3, ListOperations
  <2>5. subscriptions' \in [Users -> IdList] /\ UNCHANGED removed
    BY <1>0, <1>2, <2>2, <2>4 DEF Save, WriteList, TablesTyped
  <2> QED BY <2>5, <1>0 DEF TablesTyped
<1>3. ASSUME NEW u \in Users, RemoveAccount(u)
      PROVE  TablesTyped'
  BY <1>0, <1>3 DEF RemoveAccount, TablesTyped
<1>4. \/ UNCHANGED tables
      \/ \E c \in Consumers : Save(c)
      \/ \E u \in Users : RemoveAccount(u)
  BY DEF Next, Step, vars, tables, Loop, PollNothing, Poll, Handle, SaveFails,
         CommitMessage, Assign, Rebalance, Evict, Crash, Stop, Restart
<1> QED BY <1>1, <1>2, <1>3, <1>4

\* The invariant holds of every reachable state.
THEOREM Invariance == Spec => []Inv
<1>1. Init => Inv
  <2> SUFFICES ASSUME Init PROVE TablesTyped /\ LoopsTyped /\ Control
    BY InvParts
  <2>1. TablesTyped
    BY NoJobIsJob DEF Init, TablesTyped
  <2>2. LoopsTyped
    BY NoJobIsJob DEF Init, LoopsTyped
  <2>3. Control
    BY DEF Init, Control, JobsInLog, JobsAtPosition, PolledTried, CommitTried,
           PositionAhead, ClosedOwnsNothing, NothingSkipped, IsBusy, Busy
  <2> QED BY <2>1, <2>2, <2>3
<1>2. Inv /\ [Next]_vars => Inv'
  <2> SUFFICES ASSUME Inv, [Next]_vars PROVE LoopsTyped' /\ Control'
    <3>1. TablesTyped' /\ LoopsTyped' /\ Control' => Inv'
      BY DEF Inv, TypeOK, TablesTyped, LoopsTyped, Control
    <3> QED BY <3>1, TablesKeep
  <2>0. LoopsTyped /\ Control
    BY InvParts
  <2>1. ASSUME NEW c \in Consumers, Step(c)
        PROVE  LoopsTyped' /\ Control'
    BY <2>0, <2>1, LoopKeeps, IdleStepsKeep, PollKeeps, HandleKeeps,
       SaveKeeps, CommitKeeps DEF Step
  <2>2. ASSUME NEW c \in Consumers, Restart(c) \/ Stop(c)
        PROVE  LoopsTyped' /\ Control'
    BY <2>0, <2>2, IdleStepsKeep
  <2>3. ASSUME NEW c \in Consumers, NEW k \in Partitions, Assign(c, k)
        PROVE  LoopsTyped' /\ Control'
    BY <2>0, <2>3, AssignKeeps
  <2>4. ASSUME NEW c \in Consumers, Rebalance(c) \/ Evict(c) \/ Crash(c)
        PROVE  LoopsTyped' /\ Control'
    BY <2>0, <2>4, LossKeeps
  <2>5. CASE /\ UNCHANGED <<group, stopping, pc, job, returned, delivered>>
             /\ faults' \in Nat
    BY <2>0, <2>5, IdleKeeps DEF LoopsTyped, group
  <2>6. ASSUME NEW u \in Users, RemoveAccount(u)
        PROVE  LoopsTyped' /\ Control'
    <3>1. UNCHANGED <<group, stopping, pc, job, returned, delivered>>
      BY <2>6 DEF RemoveAccount
    <3>2. faults' \in Nat
      BY <2>0, <2>6 DEF RemoveAccount, Fault, LoopsTyped
    <3> QED BY <3>1, <3>2, <2>5
  <2>7. CASE UNCHANGED vars
    BY <2>0, <2>5, <2>7 DEF vars, LoopsTyped, group
  <2> QED BY <2>1, <2>2, <2>3, <2>4, <2>6, <2>7 DEF Next
<1> QED BY <1>1, <1>2, PTL DEF Spec

\* Every variable of the consumers keeps its type.
THEOREM ConsumersTyped == Spec => []TypeOK
  BY Invariance, PTL DEF Inv

\* Whatever is revoked, evicted, crashed, stopped or refused, the group never
\* passes a message that Handle has not returned for.
THEOREM NeverSkips == Spec => []NothingSkipped
  BY Invariance, PTL DEF Inv

\* The committed offset of a partition never goes back.
THEOREM NeverGoesBack == Spec => CommittedAdvances
<1>1. Inv /\ [Next]_vars =>
         [\A k \in Partitions : committed'[k] >= committed[k]]_vars
  <2> SUFFICES ASSUME Inv, Next, NEW k \in Partitions
               PROVE  committed'[k] >= committed[k]
    OBVIOUS
  <2>0. LoopsTyped /\ Control
    BY InvParts
  <2>1. \/ UNCHANGED committed
        \/ \E c \in Consumers : CommitStored(c)
        \/ \E c \in Consumers : CommitMessage(c)
    BY DEF Next, Step, group, Loop, PollNothing, Poll, Handle, Save, SaveFails,
           Assign, Rebalance, Evict, Crash, Stop, Restart, RemoveAccount
  <2>2. CASE UNCHANGED committed
    BY <2>0, <2>2 DEF LoopsTyped
  <2>3. ASSUME NEW c \in Consumers, CommitStored(c)
        PROVE  committed'[k] >= committed[k]
    BY <2>0, <2>3, FaultsAssumption
       DEF CommitStored, LoopsTyped, Control, PositionAhead
  <2>4. ASSUME NEW c \in Consumers, CommitMessage(c)
        PROVE  committed'[k] >= committed[k]
    <3>1. /\ pc[c] = "commit" /\ IsBusy(c)
          /\ \/ UNCHANGED committed
             \/ /\ owner[job[c].partition] = c
                /\ committed' = [committed EXCEPT
                                   ![job[c].partition] = job[c].offset]
      BY <2>4 DEF CommitMessage, IsBusy, Busy
    <3>2. owner[job[c].partition] = c =>
             job[c].offset = position[job[c].partition]
      BY <2>0, <3>1 DEF Control, JobsAtPosition
    <3> QED BY <2>0, <3>1, <3>2, FaultsAssumption
            DEF LoopsTyped, Control, PositionAhead
  <2> QED BY <2>1, <2>2, <2>3, <2>4
<1> QED BY <1>1, Invariance, PTL DEF Spec, CommittedAdvances
-----------------------------------------------------------------------------
\* Neither the rows nor what the consumers have loaded list an id twice.
IsDistinct(ids) == \A id \in Ids : ids[id] <= 1

ListsDistinct ==
    /\ \A u \in Users : IsDistinct(subscriptions[u])
    /\ \A c \in Consumers : IsDistinct(job[c].loaded)

EventsDistinct ==
    \A k \in Partitions : \A o \in DOMAIN Log[k] : IsDistinct(Log[k][o].ids)

\* Adding to a list and removing from it double nothing.
LEMMA DistinctOperations ==
  ASSUME NEW a \in IdList, NEW b \in IdList, IsDistinct(a), IsDistinct(b)
  PROVE  IsDistinct(AddIDs(a, b)) /\ IsDistinct(RemoveIDs(a, b))
  BY DEF IsDistinct, AddIDs, RemoveIDs, IdList

\* A step of any consumer keeps the lists without doubles: even an update made
\* from a stale list writes a list that is sound in itself.
LEMMA DistinctKeeps ==
  ASSUME Inv, EventsDistinct, ListsDistinct, [Next]_vars
  PROVE  ListsDistinct'
<1>0. TablesTyped /\ LoopsTyped /\ Control
  BY InvParts
<1>1. IsDistinct(NoIds) /\ IsDistinct(NoJob.loaded)
  BY DEF IsDistinct, NoIds, NoJob
<1>2. ASSUME NEW c \in Consumers, Save(c)
      PROVE  \A u \in Users : IsDistinct(subscriptions'[u])
  <2> DEFINE m == Current(c)
  <2>1. PICK k \in Partitions, o \in Nat :
            /\ k = job[c].partition /\ o = job[c].offset
            /\ o \in DOMAIN Log[k]
    BY LogFacts, <1>0, <1>2 DEF Save, Control, JobsInLog, IsBusy, Busy
  <2>2. m.user \in Users /\ m.ids \in IdList /\ IsDistinct(m.ids)
    BY <2>1, LogFacts DEF Current, Message, EventsDistinct
  <2>3. job[c].loaded \in IdList /\ IsDistinct(job[c].loaded)
    BY <1>0 DEF LoopsTyped, Job, ListsDistinct
  <2>4. /\ IsDistinct(AddIDs(job[c].loaded, m.ids))
        /\ IsDistinct(RemoveIDs(job[c].loaded, m.ids))
    BY <2>2, <2>3, DistinctOperations
  <2>5. \/ UNCHANGED subscriptions
        \/ \E new : /\ IsDistinct(new)
                    /\ subscriptions' = [subscriptions EXCEPT ![m.user] = new]
    BY <1>2, <2>4 DEF Save, WriteList
  <2> QED BY <1>0, <2>5 DEF TablesTyped, ListsDistinct
<1>3. \A u \in Users : IsDistinct(subscriptions'[u])
  <2>1. UNCHANGED subscriptions \/ \E c \in Consumers : Save(c)
    BY DEF Next, Step, vars, tables, Loop, PollNothing, Poll, Handle,
           SaveFails, CommitMessage, Assign, Rebalance, Evict, Crash, Stop,
           Restart, RemoveAccount
  <2> QED BY <1>2, <2>1 DEF ListsDistinct
<1>4. \A c \in Consumers : IsDistinct(job'[c].loaded)
  <2>1. ASSUME NEW c \in Consumers, NEW j, job' = [job EXCEPT ![c] = j],
               IsDistinct(j.loaded)
        PROVE  \A d \in Consumers : IsDistinct(job'[d].loaded)
    BY <1>0, <2>1 DEF LoopsTyped, ListsDistinct
  <2>2. CASE UNCHANGED job
    BY <2>2 DEF ListsDistinct
  <2>3. ASSUME NEW c \in Consumers, NEW k \in Partitions, Poll(c, k)
        PROVE  \A d \in Consumers : IsDistinct(job'[d].loaded)
    <3> DEFINE j == [partition |-> k, offset |-> position[k] + 1,
                     loaded |-> NoIds]
    <3>1. job' = [job EXCEPT ![c] = j]
      BY <2>3 DEF Poll
    <3>2. j.loaded = NoIds
      OBVIOUS
    <3> HIDE DEF j
    <3> QED BY <1>1, <2>1, <3>1, <3>2
  <2>4. ASSUME NEW c \in Consumers, NEW r \in {"nil", "error"}, Returns(c, r)
        PROVE  \A d \in Consumers : IsDistinct(job'[d].loaded)
    BY <1>1, <2>1, <2>2, <2>4 DEF Returns
  <2>5. ASSUME NEW c \in Consumers, CommitMessage(c) \/ Crash(c)
        PROVE  \A d \in Consumers : IsDistinct(job'[d].loaded)
    BY <1>1, <2>1, <2>5 DEF CommitMessage, Crash
  <2>6. ASSUME NEW c \in Consumers, Handle(c)
        PROVE  \A d \in Consumers : IsDistinct(job'[d].loaded)
    <3>1. CASE \E r \in {"nil", "error"} : Returns(c, r)
      BY <3>1, <2>4
    <3>2. CASE job' = [job EXCEPT
                         ![c].loaded = subscriptions[Current(c).user]]
      <4>1. Current(c).user \in Users
        BY <1>0, <2>6, LogFacts
           DEF Handle, Current, Control, JobsInLog, IsBusy, Busy, Message
      <4>2. IsDistinct(subscriptions[Current(c).user])
        BY <4>1 DEF ListsDistinct
      <4>3. \A d \in Consumers :
               job'[d].loaded = IF d = c THEN subscriptions[Current(c).user]
                                ELSE job[d].loaded
        BY <1>0, <3>2 DEF LoopsTyped, Job
      <4> QED BY <4>2, <4>3 DEF ListsDistinct
    <3> QED BY <2>6, <3>1, <3>2 DEF Handle
  <2>7. \/ UNCHANGED job
        \/ \E c \in Consumers, k \in Partitions : Poll(c, k)
        \/ \E c \in Consumers, r \in {"nil", "error"} : Returns(c, r)
        \/ \E c \in Consumers : CommitMessage(c) \/ Crash(c)
        \/ \E c \in Consumers : Handle(c)
    BY DEF Next, Step, vars, Loop, PollNothing, Save, SaveFails, Assign,
           Rebalance, Evict, Stop, Restart, RemoveAccount
  <2> QED BY <2>2, <2>3, <2>4, <2>5, <2>6, <2>7
<1> QED BY <1>3, <1>4 DEF ListsDistinct

\* No subscription is ever listed twice, if no event lists one twice.
THEOREM NeverDoubles == Spec => []SubscriptionsDistinct
<1> DEFINE Goal == EventsDistinct => ListsDistinct
<1>1. Init => Goal
  BY DEF Init, ListsDistinct, IsDistinct, NoIds, NoJob
<1>2. Inv /\ Goal /\ [Next]_vars => Goal'
  BY DistinctKeeps DEF EventsDistinct
<1>3. Goal => SubscriptionsDistinct
  BY DEF SubscriptionsDistinct, EventsDistinct, ListsDistinct, IsDistinct
<1> HIDE DEF Goal
<1> QED BY <1>1, <1>2, <1>3, Invariance, PTL DEF Spec
-----------------------------------------------------------------------------
\* Consumers that were told to stop and have not given their partitions back.
StopsPending == {c \in Consumers : stopping[c] /\ pc[c] # "closed"}

\* A message that was polled is polled again only after its partition changes
\* hands.
MayBePolled(k, o) == owner[k] = Nobody \/ position[k] < o

Count(condition) == IF condition THEN 1 ELSE 0

\* All deliveries of a message but the first, the one that may come next
\* included, are paid for with a fault, and a stop that is under way is a
\* fault whose loss is still to come.
Paid(k, o) ==
    delivered[k][o] + Cardinality(StopsPending) + Count(MayBePolled(k, o))
        <= faults + 1

DeliveriesPaid == \A k \in Partitions : \A o \in DOMAIN Log[k] : Paid(k, o)

\* What consumer c has a part in.
Weight(c, k, o) ==
    delivered[k][o] + Count(c \in StopsPending) + Count(MayBePolled(k, o))

\* The step adds no more to that than it adds to the faults.
Affords(c, k, o) ==
    Weight(c, k, o)' + faults <= Weight(c, k, o) + faults'

\* Counting a finite set with and without one element.
LEMMA CardinalitySplit ==
  ASSUME NEW S, IsFiniteSet(S), NEW c
  PROVE  /\ Cardinality(S \ {c}) \in Nat
         /\ Cardinality(S) = Cardinality(S \ {c}) + Count(c \in S)
<1>1. IsFiniteSet(S \ {c}) /\ Cardinality(S) \in Nat
  BY FS_RemoveElement, FS_CardinalityType
<1>2. Cardinality(S \ {c}) \in Nat
  BY <1>1, FS_CardinalityType
<1>3. Cardinality(S \ {c}) = IF c \in S THEN Cardinality(S) - 1
                             ELSE Cardinality(S)
  BY FS_RemoveElement
<1> QED BY <1>1, <1>2, <1>3 DEF Count

\* A step of one consumer keeps the account of a message if it pays for what
\* it adds.
LEMMA PaidStep ==
  ASSUME LoopsTyped, LoopsTyped',
         NEW c \in Consumers, NEW k \in Partitions, NEW o \in DOMAIN Log[k],
         \A d \in Consumers \ {c} :
            pc'[d] = pc[d] /\ stopping'[d] = stopping[d],
         Paid(k, o), Affords(c, k, o)
  PROVE  Paid(k, o)'
<1> DEFINE S == StopsPending
<1>1. IsFiniteSet(S) /\ IsFiniteSet(S')
  <2>1. S \subseteq Consumers /\ S' \subseteq Consumers
    BY DEF StopsPending
  <2> HIDE DEF S
  <2> QED BY <2>1, ConsumersAssumption, FS_Subset
<1>2. S' \ {c} = S \ {c}
  BY DEF StopsPending
<1>3. PICK s \in Nat : /\ Cardinality(S) = s + Count(c \in S)
                       /\ Cardinality(S') = s + Count(c \in S')
  <2> HIDE DEF S
  <2> QED BY <1>1, <1>2, CardinalitySplit
<1>4. /\ delivered[k][o] \in Nat /\ delivered'[k][o] \in Nat
      /\ faults \in Nat /\ faults' \in Nat
  BY DEF LoopsTyped
<1>5. /\ delivered[k][o] + (s + Count(c \in S)) + Count(MayBePolled(k, o))
            <= faults + 1
      /\ delivered'[k][o] + Count(c \in S') + Count(MayBePolled(k, o)')
            + faults
         <= delivered[k][o] + Count(c \in S) + Count(MayBePolled(k, o))
            + faults'
  BY <1>3 DEF Paid, Affords, Weight, Count
<1>6. /\ Count(c \in S) \in {0, 1} /\ Count(c \in S') \in {0, 1}
      /\ Count(MayBePolled(k, o)) \in {0, 1}
      /\ Count(MayBePolled(k, o)') \in {0, 1}
  BY DEF Count
<1>7. delivered'[k][o] + (s + Count(c \in S')) + Count(MayBePolled(k, o)')
         <= faults' + 1
  BY <1>4, <1>5, <1>6
<1> QED BY <1>3, <1>7 DEF Paid, Count

\* A step that adds to nothing affords itself, and so does the end of a stop.
LEMMA AffordsNothing ==
  ASSUME LoopsTyped,
         NEW c \in Consumers, NEW k \in Partitions, NEW o \in DOMAIN Log[k],
         UNCHANGED <<delivered, faults>>,
         \/ /\ (c \in StopsPending)' => c \in StopsPending
            /\ MayBePolled(k, o)' => MayBePolled(k, o)
         \/ c \in StopsPending /\ (c \notin StopsPending)'
  PROVE  Affords(c, k, o)
<1>1. delivered[k][o] \in Nat /\ faults \in Nat
  BY DEF LoopsTyped
<1> QED BY <1>1 DEF Affords, Weight, Count

\* A fault affords one more delivery, or a stop.
LEMMA AffordsFault ==
  ASSUME LoopsTyped,
         NEW c \in Consumers, NEW k \in Partitions, NEW o \in DOMAIN Log[k],
         UNCHANGED delivered, faults' = faults + 1,
         \/ (c \in StopsPending)' => c \in StopsPending
         \/ MayBePolled(k, o)' => MayBePolled(k, o)
  PROVE  Affords(c, k, o)
<1>1. delivered[k][o] \in Nat /\ faults \in Nat
  BY DEF LoopsTyped
<1> QED BY <1>1 DEF Affords, Weight, Count

\* The steps of a consumer's loop that deliver nothing: a handler that
\* returned an error and a commit that failed leave the position where it is,
\* and the last step of a stop gives back the partitions (NewKafkaConsumer).
LEMMA LoopAffords ==
  ASSUME LoopsTyped,
         NEW c \in Consumers, NEW k \in Partitions, NEW o \in DOMAIN Log[k],
         \/ Loop(c) \/ PollNothing(c) \/ Handle(c) \/ Save(c) \/ SaveFails(c)
         \/ CommitMessage(c) \/ Restart(c)
  PROVE  Affords(c, k, o)
<1>1. UNCHANGED <<delivered, faults>>
  BY DEF Loop, PollNothing, Handle, Save, SaveFails, CommitMessage, Restart
<1>2. \/ /\ (c \in StopsPending)' => c \in StopsPending
         /\ MayBePolled(k, o)' => MayBePolled(k, o)
      \/ c \in StopsPending /\ (c \notin StopsPending)'
  <2>1. CASE Loop(c)
    BY <2>1 DEF Loop, StopsPending, MayBePolled, LoopsTyped
  <2>2. CASE PollNothing(c) \/ Handle(c) \/ Save(c) \/ SaveFails(c)
    BY <2>2 DEF PollNothing, Handle, Save, SaveFails, Returns, StopsPending,
                MayBePolled, LoopsTyped, group
  <2>3. CASE CommitMessage(c) \/ Restart(c)
    BY <2>3 DEF CommitMessage, Restart, StopsPending, MayBePolled, LoopsTyped,
                group
  <2> QED BY <2>1, <2>2, <2>3
<1> QED BY <1>1, <1>2, AffordsNothing

\* A message that is delivered need not be polled any more
\* (NewKafkaConsumer).
LEMMA PollAffords ==
  ASSUME LoopsTyped,
         NEW c \in Consumers, NEW k \in Partitions, NEW o \in DOMAIN Log[k],
         NEW l \in Partitions, Poll(c, l)
  PROVE  Affords(c, k, o)
<1>1. /\ delivered[k][o] \in Nat /\ faults \in Nat
      /\ position[k] \in Nat /\ o \in Nat
  BY LogFacts DEF LoopsTyped
<1>2. /\ UNCHANGED <<faults, owner, stopping>>
      /\ pc[c] = "poll" /\ pc'[c] = "handle"
      /\ owner[l] = c
      /\ position' = [position EXCEPT ![l] = @ + 1]
      /\ delivered'[k][o] = IF l = k /\ o = position[k] + 1
                            THEN delivered[k][o] + 1 ELSE delivered[k][o]
  BY DEF Poll, LoopsTyped
<1>3. (c \in StopsPending)' <=> c \in StopsPending
  BY <1>2 DEF StopsPending
<1>4. CASE l = k /\ o = position[k] + 1
  <2>1. MayBePolled(k, o) /\ ~MayBePolled(k, o)'
    BY <1>1, <1>2, <1>4, FaultsAssumption DEF MayBePolled, LoopsTyped
  <2>2. delivered'[k][o] = delivered[k][o] + 1
    BY <1>2, <1>4
  <2> QED BY <1>1, <1>2, <1>3, <2>1, <2>2 DEF Affords, Weight, Count
<1>5. CASE ~(l = k /\ o = position[k] + 1)
  <2>1. MayBePolled(k, o)' => MayBePolled(k, o)
    BY <1>1, <1>2, <1>5 DEF MayBePolled, LoopsTyped
  <2>2. delivered'[k][o] = delivered[k][o]
    BY <1>2, <1>5
  <2> QED BY <1>1, <1>2, <1>3, <2>1, <2>2 DEF Affords, Weight, Count
<1> QED BY <1>4, <1>5

\* Whoever gets a partition polls what is left of it (Poll); a fault costs a
\* partition its owner or starts a stop (rebalanceCb, Stop).
LEMMA FaultAffords ==
  ASSUME LoopsTyped,
         NEW c \in Consumers, NEW k \in Partitions, NEW o \in DOMAIN Log[k],
         \/ \E l \in Partitions : Assign(c, l)
         \/ Rebalance(c) \/ Evict(c) \/ Crash(c) \/ Stop(c)
  PROVE  Affords(c, k, o)
<1>1. UNCHANGED delivered
  BY DEF Assign, Rebalance, Evict, Crash, Stop
<1>2. CASE \E l \in Partitions : Assign(c, l)
  <2>1. /\ (c \in StopsPending)' => c \in StopsPending
        /\ MayBePolled(k, o)' => MayBePolled(k, o)
        /\ UNCHANGED faults
    BY <1>2 DEF Assign, StopsPending, MayBePolled, LoopsTyped
  <2> QED BY <1>1, <2>1, AffordsNothing
<1>3. CASE Rebalance(c) \/ Evict(c) \/ Crash(c)
  <2>1. (c \in StopsPending)' => c \in StopsPending
    BY <1>3 DEF Rebalance, Evict, Crash, StopsPending, LoopsTyped
  <2>2. faults' = faults + 1
    BY <1>3 DEF Rebalance, Evict, Crash, Fault
  <2> QED BY <1>1, <2>1, <2>2, AffordsFault
<1>4. CASE Stop(c)
  <2>1. MayBePolled(k, o)' => MayBePolled(k, o)
    BY <1>4 DEF Stop, MayBePolled, group
  <2>2. faults' = faults + 1
    BY <1>4 DEF Stop, Fault
  <2> QED BY <1>1, <2>1, <2>2, AffordsFault
<1> QED BY <1>2, <1>3, <1>4

\* What is done by consumer c, or to it.
Acts(c) ==
    \/ Step(c) \/ Restart(c)
    \/ \E k \in Partitions : Assign(c, k)
    \/ Rebalance(c) \/ Evict(c) \/ Crash(c) \/ Stop(c)

\* All that happens happens to one consumer, or is a removal of an account.
LEMMA NextActs ==
  Next => (\E c \in Consumers : Acts(c)) \/ (\E u \in Users : RemoveAccount(u))
  BY DEF Next, Acts

\* No consumer moves another one.
LEMMA OthersStay ==
  ASSUME LoopsTyped, NEW c \in Consumers, Acts(c), NEW d \in Consumers \ {c}
  PROVE  pc'[d] = pc[d] /\ job'[d] = job[d] /\ stopping'[d] = stopping[d]
<1>1. CASE Loop(c) \/ PollNothing(c) \/ (\E k \in Partitions : Poll(c, k))
  BY <1>1 DEF Loop, PollNothing, Poll, LoopsTyped
<1>2. CASE Handle(c) \/ Save(c) \/ SaveFails(c) \/ CommitMessage(c)
  BY <1>2 DEF Handle, Save, SaveFails, CommitMessage, Returns, LoopsTyped
<1>3. CASE Restart(c) \/ (\E k \in Partitions : Assign(c, k))
  BY <1>3 DEF Restart, Assign, LoopsTyped
<1>4. CASE Rebalance(c) \/ Evict(c) \/ Crash(c) \/ Stop(c)
  BY <1>4 DEF Rebalance, Evict, Crash, Stop, LoopsTyped, group
<1> QED BY <1>1, <1>2, <1>3, <1>4 DEF Acts, Step

\* A consumer is busy after a step of its own only with a message it has just
\* polled, or the one it was busy with.
LEMMA StaysBusy ==
  ASSUME Inv, NEW c \in Consumers, Acts(c), IsBusy(c)'
  PROVE  \/ \E k \in Partitions : Poll(c, k)
         \/ /\ IsBusy(c) /\ (Evict(c) \/ UNCHANGED group)
            /\ job'[c].partition = job[c].partition
            /\ job'[c].offset = job[c].offset
<1>0. LoopsTyped
  BY InvParts
<1>1. CASE Handle(c)
  <2>1. UNCHANGED group /\ IsBusy(c)
    BY <1>1 DEF Handle, IsBusy, Busy
  <2>2. ASSUME NEW r \in {"nil", "error"}, Returns(c, r)
        PROVE  job'[c] = job[c]
    BY <1>0, <2>2 DEF Returns, LoopsTyped, IsBusy, Busy
  <2>3. CASE job' = [job EXCEPT ![c].loaded =
                                  subscriptions[Current(c).user]]
    BY <1>0, <2>1, <2>3 DEF LoopsTyped, Job
  <2> QED BY <1>1, <2>1, <2>2, <2>3 DEF Handle
<1>2. CASE Save(c) \/ SaveFails(c)
  BY <1>0, <1>2 DEF Save, SaveFails, Returns, LoopsTyped, IsBusy, Busy
<1>3. CASE Evict(c) \/ Stop(c)
  BY <1>3 DEF Evict, Stop, IsBusy
<1>4. ~(Loop(c) \/ PollNothing(c) \/ CommitMessage(c) \/ Restart(c) \/ Crash(c))
  BY <1>0 DEF Loop, PollNothing, CommitMessage, Restart, Crash, LoopsTyped,
              IsBusy, Busy
<1>5. ~(Rebalance(c) \/ \E k \in Partitions : Assign(c, k))
  BY <1>0 DEF Rebalance, Assign, LoopsTyped, IsBusy, Busy
<1> QED BY <1>1, <1>2, <1>3, <1>4, <1>5 DEF Acts, Step

\* Every step keeps the account of every message.
LEMMA DeliveriesStayPaid ==
  ASSUME Inv, Inv', DeliveriesPaid, [Next]_vars
  PROVE  DeliveriesPaid'
<1>0. LoopsTyped /\ LoopsTyped'
  BY DEF Inv, TypeOK, LoopsTyped
<1>1. ASSUME NEW c \in Consumers, Acts(c)
      PROVE  DeliveriesPaid'
  <2> SUFFICES ASSUME NEW k \in Partitions, NEW o \in DOMAIN Log[k]
               PROVE  Paid(k, o)'
    BY DEF DeliveriesPaid
  <2>1. Affords(c, k, o)
    BY <1>0, <1>1, LoopAffords, PollAffords, FaultAffords DEF Acts, Step
  <2> QED BY <1>0, <1>1, <2>1, OthersStay, PaidStep DEF DeliveriesPaid
<1>2. ASSUME UNCHANGED <<delivered, owner, position, stopping, pc>>,
             faults' \in {faults, faults + 1}
      PROVE  DeliveriesPaid'
  <2> SUFFICES ASSUME NEW k \in Partitions, NEW o \in DOMAIN Log[k]
               PROVE  Paid(k, o)'
    BY DEF DeliveriesPaid
  <2>1. /\ StopsPending' = StopsPending
        /\ MayBePolled(k, o)' <=> MayBePolled(k, o)
    BY <1>2 DEF StopsPending, MayBePolled
  <2>2. Cardinality(StopsPending) \in Nat
    BY ConsumersAssumption, FS_Subset, FS_CardinalityType DEF StopsPending
  <2>3. delivered[k][o] \in Nat /\ faults \in Nat
    BY <1>0 DEF LoopsTyped
  <2> QED BY <1>2, <2>1, <2>2, <2>3 DEF DeliveriesPaid, Paid, Count
<1>3. ASSUME NEW u \in Users, RemoveAccount(u)
      PROVE  DeliveriesPaid'
  BY <1>2, <1>3 DEF RemoveAccount, Fault, group
<1>4. CASE UNCHANGED vars
  BY <1>2, <1>4 DEF vars
<1> QED BY <1>1, <1>3, <1>4, NextActs

\* A message is delivered once, and once more for every fault at most: it is
\* polled again only when its partition has changed hands, and every change of
\* hands is a fault or ends a stop.  Errors of handlers and commits that fail,
\* however many there are, deliver nothing again (NewKafkaConsumer).
THEOREM DeliveredOnlyPerFault == Spec => []DeliveredOncePerFault
<1>1. Init => DeliveriesPaid
  <2> SUFFICES ASSUME Init, NEW k \in Partitions, NEW o \in DOMAIN Log[k]
               PROVE  Paid(k, o)
    BY DEF DeliveriesPaid
  <2>1. StopsPending = {}
    BY DEF Init, StopsPending
  <2>2. delivered[k][o] = 0 /\ faults = 0
    BY DEF Init
  <2> QED BY <2>1, <2>2, FS_EmptySet DEF Paid, Count
<1>2. Inv /\ Inv' /\ DeliveriesPaid /\ [Next]_vars => DeliveriesPaid'
  BY DeliveriesStayPaid
<1>3. Inv /\ DeliveriesPaid => DeliveredOncePerFault
  <2> SUFFICES ASSUME Inv, DeliveriesPaid,
                      NEW k \in Partitions, NEW o \in DOMAIN Log[k]
               PROVE  delivered[k][o] <= faults + 1
    BY DEF DeliveredOncePerFault
  <2>1. Cardinality(StopsPending) \in Nat
    BY ConsumersAssumption, FS_Subset, FS_CardinalityType DEF StopsPending
  <2>2. delivered[k][o] \in Nat /\ faults \in Nat
    BY DEF Inv, TypeOK
  <2> QED BY <2>1, <2>2 DEF DeliveriesPaid, Paid, Count
<1> QED BY <1>1, <1>2, <1>3, Invariance, PTL DEF Spec
-----------------------------------------------------------------------------
\* What a consumer handles comes after messages that were all tried, even if it
\* has lost the partition since.
BusyInOrder ==
    \A c \in Consumers : IsBusy(c) =>
        \A o \in 1 .. job[c].offset - 1 : Tried(job[c].partition, o)

\* What Handle has returned is not forgotten, and what is new in it is about
\* the message of a busy consumer.
LEMMA HistoryGrows ==
  ASSUME Inv, [Next]_vars
  PROVE  \/ UNCHANGED returned
         \/ \E c \in Consumers, r \in {"nil", "error"} :
              /\ IsBusy(c) /\ Returns(c, r) /\ UNCHANGED committed
              /\ \A k \in Partitions : \A o \in DOMAIN Log[k] :
                    returned'[k][o] =
                       IF k = job[c].partition /\ o = job[c].offset
                       THEN returned[k][o] \cup {r} ELSE returned[k][o]
<1>0. LoopsTyped /\ Control
  BY InvParts
<1>1. ASSUME NEW c \in Consumers, IsBusy(c), NEW r, Returns(c, r)
      PROVE  \A k \in Partitions : \A o \in DOMAIN Log[k] :
                returned'[k][o] =
                   IF k = job[c].partition /\ o = job[c].offset
                   THEN returned[k][o] \cup {r} ELSE returned[k][o]
  <2>1. /\ job[c].partition \in Partitions
        /\ job[c].offset \in DOMAIN Log[job[c].partition]
    BY <1>0, <1>1 DEF Control, JobsInLog
  <2>2. returned' = [returned EXCEPT ![job[c].partition] =
                      [returned[job[c].partition] EXCEPT
                         ![job[c].offset] = @ \cup {r}]]
    BY <1>0, <1>1, <2>1 DEF Returns, LoopsTyped
  <2> QED BY <1>0, <2>1, <2>2 DEF LoopsTyped
<1>2. \/ UNCHANGED returned
      \/ \E c \in Consumers : /\ IsBusy(c) /\ UNCHANGED committed
                              /\ \E r \in {"nil", "error"} : Returns(c, r)
  BY DEF Next, Step, vars, Loop, PollNothing, Poll, Handle, Save, SaveFails,
         CommitMessage, Assign, Rebalance, Evict, Crash, Stop, Restart,
         RemoveAccount, IsBusy, Busy, group
<1>3. CASE ~UNCHANGED returned
  <2>1. PICK c \in Consumers, r \in {"nil", "error"} :
           IsBusy(c) /\ UNCHANGED committed /\ Returns(c, r)
    BY <1>2, <1>3
  <2>2. \A k \in Partitions : \A o \in DOMAIN Log[k] :
           returned'[k][o] = IF k = job[c].partition /\ o = job[c].offset
                             THEN returned[k][o] \cup {r} ELSE returned[k][o]
    BY <1>1, <2>1
  <2> QED BY <2>1, <2>2
<1> QED BY <1>3

\* What was tried stays tried.
LEMMA StaysTried ==
  ASSUME Inv, [Next]_vars, NEW k \in Partitions, NEW o, Tried(k, o)
  PROVE  Tried(k, o)'
  BY HistoryGrows DEF Tried

\* Messages are polled in their order, after all that came before was tried.
LEMMA BusyStaysInOrder ==
  ASSUME Inv, BusyInOrder, [Next]_vars
  PROVE  BusyInOrder'
<1>0. LoopsTyped /\ Control
  BY InvParts
<1> SUFFICES ASSUME NEW d \in Consumers, IsBusy(d)',
                    NEW o \in 1 .. job'[d].offset - 1
             PROVE  Tried(job[d].partition, o)'
  BY DEF BusyInOrder
<1>1. CASE /\ IsBusy(d) /\ job'[d].partition = job[d].partition
           /\ job'[d].offset = job[d].offset
  <2>1. Tried(job[d].partition, o) /\ job[d].partition \in Partitions
    BY <1>0, <1>1 DEF BusyInOrder, Control, JobsInLog
  <2>2. Tried(job[d].partition, o)'
    BY <1>0, <1>1, <2>1, StaysTried
  <2> QED BY <1>1, <2>2 DEF Tried
<1>2. ASSUME NEW k \in Partitions, Poll(d, k)
      PROVE  Tried(job[d].partition, o)'
  <2>1. /\ job'[d].partition = k /\ job'[d].offset = position[k] + 1
        /\ owner[k] = d /\ owner[k] # Nobody /\ pc[d] = "poll"
        /\ position[k] \in Nat
    BY <1>0, <1>2, FaultsAssumption DEF Poll, LoopsTyped
  <2>2. o \in 1 .. position[k] /\ ~IsBusy(owner[k])
    BY <2>1 DEF IsBusy, Busy
  <2>3. Tried(k, o)
    BY <1>0, <2>1, <2>2 DEF Control, PolledTried
  <2>4. Tried(k, o)'
    BY <2>3, StaysTried
  <2> QED BY <2>1, <2>4 DEF Tried
<1>3. ASSUME NEW c \in Consumers, Acts(c), c # d
      PROVE  IsBusy(d) /\ job'[d] = job[d]
  BY <1>0, <1>3, OthersStay DEF IsBusy
<1>4. UNCHANGED <<pc, job>> \/ \E c \in Consumers : Acts(c)
  BY NextActs DEF vars, RemoveAccount
<1> QED BY <1>1, <1>2, <1>3, <1>4, StaysBusy DEF IsBusy

\* How a state of the group reads for its abstract specification.
TriedOf(k) == {o \in DOMAIN Log[k] : returned[k][o] # {}}

\* Handle returns for the first time only for the first message it has not
\* returned for yet, and a commit moves on over such messages only.
LEMMA DeliveryStep ==
  ASSUME Inv, Inv', BusyInOrder, [Next]_vars,
         [\A k \in Partitions : committed'[k] >= committed[k]]_vars
  PROVE  [Delivery!Next]_(Delivery!deliveryVars)
<1>0. /\ LoopsTyped /\ Control /\ LoopsTyped' /\ NothingSkipped'
  BY DEF Inv, TypeOK, LoopsTyped, Control
<1> DEFINE len == [k \in Partitions |-> Len(Log[k])]
           tr == [k \in Partitions |-> TriedOf(k)]
<1>1. CASE UNCHANGED returned
  <2>1. UNCHANGED tr
    BY <1>1 DEF TriedOf
  <2>2. CASE UNCHANGED vars
    BY <2>1, <2>2 DEF Delivery!deliveryVars, TriedOf, vars
  <2>3. CASE ~UNCHANGED vars
    <3>1. committed' \in [Partitions -> Nat]
      BY <1>0 DEF LoopsTyped
    <3>2. ASSUME NEW k \in Partitions
          PROVE  committed[k] <= committed'[k] /\ 1 .. committed'[k] \subseteq tr[k]
      <4>1. committed'[k] >= committed[k]
        BY <2>3
      <4>2. ASSUME NEW o \in 1 .. committed'[k]
            PROVE  o \in TriedOf(k)
        BY <1>0, <1>1 DEF NothingSkipped, TriedOf
      <4> QED BY <1>0, <3>1, <4>1, <4>2 DEF LoopsTyped
    <3> QED BY <2>1, <3>1, <3>2
            DEF Delivery!Next, Delivery!Pass, TriedOf
  <2> QED BY <2>2, <2>3
<1>2. ASSUME NEW c \in Consumers, NEW r \in {"nil", "error"},
             IsBusy(c), UNCHANGED committed,
             \A k \in Partitions : \A o \in DOMAIN Log[k] :
                returned'[k][o] = IF k = job[c].partition /\ o = job[c].offset
                                  THEN returned[k][o] \cup {r}
                                  ELSE returned[k][o]
      PROVE  [Delivery!Next]_(Delivery!deliveryVars)
  <2>1. PICK k \in Partitions, n \in Nat :
           /\ k = job[c].partition /\ n = job[c].offset
           /\ n \in DOMAIN Log[k] /\ n \in 1 .. len[k]
    BY <1>0, <1>2, LogFacts DEF Control, JobsInLog
  <2>2. \A l \in Partitions :
           TriedOf(l)' = IF l = k THEN TriedOf(k) \cup {n} ELSE TriedOf(l)
    <3>1. ASSUME NEW l \in Partitions, NEW o \in DOMAIN Log[l]
          PROVE  returned'[l][o] # {} <=>
                    returned[l][o] # {} \/ (l = k /\ o = n)
      BY <1>2, <2>1, <3>1
    <3> QED BY <2>1, <3>1 DEF TriedOf
  <2>3. tr' = [tr EXCEPT ![k] = @ \cup {n}]
    BY <2>2
  <2>4. CASE n \in TriedOf(k)
    <3>1. tr' = tr
      BY <2>3, <2>4
    <3> QED BY <1>2, <3>1 DEF Delivery!deliveryVars, TriedOf
  <2>5. CASE n \notin TriedOf(k)
    <3>1. 1 .. n - 1 \subseteq tr[k]
      BY <1>2, <2>1 DEF BusyInOrder, Tried, TriedOf
    <3>2. n \notin tr[k]
      BY <2>5
    <3>3. Delivery!Try(k, n)
      BY <1>2, <2>1, <2>3, <3>1, <3>2 DEF Delivery!Try, TriedOf
    <3> QED BY <2>1, <3>3 DEF Delivery!Next
  <2> QED BY <2>4, <2>5
<1> QED BY <1>1, <1>2, HistoryGrows

\* The consumers of a topic implement AtLeastOnce: whoever owns a partition,
\* is evicted, crashes or is stopped, its messages are first tried in order,
\* and the group passes each only after that, and never comes back.
THEOREM ImplementsDelivery == Spec => DeliverySpec
<1>1. Init => Delivery!Init
  BY DEF Init, Delivery!Init
<1>2. Init => BusyInOrder
  BY DEF Init, BusyInOrder, IsBusy, Busy
<1>3. Inv /\ BusyInOrder /\ [Next]_vars => BusyInOrder'
  BY BusyStaysInOrder
<1>4. Inv /\ Inv' /\ BusyInOrder /\ [Next]_vars
         /\ [\A k \in Partitions : committed'[k] >= committed[k]]_vars
         => [Delivery!Next]_(Delivery!deliveryVars)
  BY DeliveryStep
<1> QED BY <1>1, <1>2, <1>3, <1>4, Invariance, NeverGoesBack, PTL
        DEF Spec, DeliverySpec, Delivery!Spec, CommittedAdvances
-----------------------------------------------------------------------------
\* The two things an update of the subscriptions needs to be alone: producers
\* put the events about a user's subscriptions into one partition, and the
\* broker gives up on no consumer that is still at work.
EventKinds == {"add", "remove"}

EventsKeyed ==
    \A k, l \in Partitions : \A o \in DOMAIN Log[k], p \in DOMAIN Log[l] :
        /\ Log[k][o].kind \in EventKinds /\ Log[l][p].kind \in EventKinds
        /\ Log[k][o].user = Log[l][p].user
        => k = l

Orderly == EventsKeyed /\ "evict" \notin Faults

\* A consumer at work owns the partition, and the group has not passed the
\* message.
BusyOwns ==
    \A c \in Consumers : IsBusy(c) =>
        /\ owner[job[c].partition] = c
        /\ committed[job[c].partition] < job[c].offset

\* A consumer only loses its own partitions, and only commits for them.
LEMMA ActsOnItsOwn ==
  ASSUME Inv, NEW c \in Consumers, Acts(c), NEW k \in Partitions
  PROVE  /\ owner'[k] = owner[k] \/ owner[k] \in {c, Nobody}
         /\ committed'[k] = committed[k] \/ owner[k] = c
<1>0. LoopsTyped /\ Control
  BY InvParts
<1>1. CASE CommitMessage(c)
  <2>1. job[c].partition \in Partitions
    BY <1>0, <1>1 DEF CommitMessage, Control, JobsInLog, IsBusy, Busy
  <2> QED BY <1>0, <1>1, <2>1 DEF CommitMessage, LoopsTyped
<1>2. CASE \E l \in Partitions : Assign(c, l)
  BY <1>0, <1>2 DEF Assign, LoopsTyped
<1>3. CASE Loop(c) \/ Rebalance(c) \/ Evict(c) \/ Crash(c)
  BY <1>3 DEF Loop, Rebalance, Evict, Crash, CommitStored, Disown
<1>4. \/ CommitMessage(c) \/ \E l \in Partitions : Assign(c, l)
      \/ Loop(c) \/ Rebalance(c) \/ Evict(c) \/ Crash(c)
      \/ UNCHANGED <<owner, committed>>
  BY DEF Acts, Step, PollNothing, Poll, Handle, Save, SaveFails, Stop, Restart,
         group
<1> QED BY <1>1, <1>2, <1>3, <1>4

\* Nobody else gets at what a consumer works on.
LEMMA BusyStillOwns ==
  ASSUME Inv, BusyOwns, [Next]_vars, "evict" \notin Faults
  PROVE  BusyOwns'
<1>0. LoopsTyped /\ Control
  BY InvParts
<1>1. ASSUME NEW c \in Consumers, Acts(c)
      PROVE  BusyOwns'
  <2> SUFFICES ASSUME NEW d \in Consumers, IsBusy(d)'
               PROVE  /\ owner'[job'[d].partition] = d
                      /\ committed'[job'[d].partition] < job'[d].offset
    BY DEF BusyOwns
  <2>1. CASE d # c
    <3>1. IsBusy(d) /\ job'[d] = job[d]
      BY <1>0, <1>1, <2>1, OthersStay DEF IsBusy
    <3>2. job[d].partition \in Partitions /\ owner[job[d].partition] = d
      BY <1>0, <3>1 DEF Control, JobsInLog, BusyOwns
    <3>3. d \notin {c, Nobody}
      BY <2>1, FaultsAssumption
    <3> QED BY <1>1, <3>1, <3>2, <3>3, ActsOnItsOwn DEF BusyOwns
  <2>2. CASE d = c /\ \E k \in Partitions : Poll(c, k)
    <3>1. PICK k \in Partitions : Poll(c, k)
      BY <2>2
    <3>2. /\ job'[c].partition = k /\ job'[c].offset = position[k] + 1
          /\ UNCHANGED <<owner, committed>> /\ owner[k] = c
      BY <1>0, <3>1 DEF Poll, LoopsTyped
    <3>3. committed[k] <= position[k] /\ position[k] \in Nat
          /\ committed[k] \in Nat
      BY <1>0, <3>2, FaultsAssumption DEF Control, PositionAhead, LoopsTyped
    <3> QED BY <2>2, <3>2, <3>3
  <2>3. CASE d = c /\ ~\E k \in Partitions : Poll(c, k)
    <3>1. /\ IsBusy(c) /\ UNCHANGED group
          /\ job'[c].partition = job[c].partition
          /\ job'[c].offset = job[c].offset
      BY <1>1, <2>3, StaysBusy DEF Evict, Fault
    <3> QED BY <2>3, <3>1 DEF BusyOwns, group
  <2> QED BY <2>1, <2>2, <2>3
<1>2. CASE UNCHANGED <<group, pc, job>>
  BY <1>2 DEF BusyOwns, IsBusy, group
<1>3. ASSUME NEW u \in Users, RemoveAccount(u)
      PROVE  BusyOwns'
  BY <1>2, <1>3 DEF RemoveAccount
<1> QED BY <1>1, <1>2, <1>3, NextActs DEF vars, group

\* What a busy consumer handles is a message.
LEMMA CurrentIsMessage ==
  ASSUME Control, NEW c \in Consumers, IsBusy(c)
  PROVE  Current(c) \in Message
  BY LogFacts DEF Control, JobsInLog, Current

\* Only an update of a user's subscriptions writes them.
LEMMA OnlyUpdatesWrite ==
  ASSUME Inv, [Next]_vars, NEW u \in Users, subscriptions'[u] # subscriptions[u]
  PROVE  \E c \in Consumers : /\ Save(c) /\ Current(c).user = u
                              /\ Current(c).kind \in EventKinds
<1>0. TablesTyped /\ LoopsTyped /\ Control
  BY InvParts
<1>1. PICK c \in Consumers : Save(c)
  BY DEF Next, Step, vars, tables, Loop, PollNothing, Poll, Handle, SaveFails,
         CommitMessage, Assign, Rebalance, Evict, Crash, Stop, Restart,
         RemoveAccount
<1>2. IsBusy(c) /\ Current(c).user \in Users
  BY <1>0, <1>1, CurrentIsMessage DEF Save, IsBusy, Busy, Message
<1>3. Current(c).kind \in EventKinds
  BY <1>1 DEF Save, EventKinds
<1>4. Current(c).user = u
  BY <1>0, <1>1, <1>2 DEF Save, WriteList, TablesTyped
<1> QED BY <1>1, <1>3, <1>4

\* Two consumers do not update one user's subscriptions at a time.
LEMMA UpdatesAreAlone ==
  ASSUME Inv, BusyOwns, EventsKeyed,
         NEW c \in Consumers, NEW d \in Consumers, IsBusy(c), IsBusy(d),
         Current(c).kind \in EventKinds, Current(d).kind \in EventKinds,
         Current(c).user = Current(d).user
  PROVE  c = d
<1>1. Control
  BY InvParts
<1>2. job[c].partition = job[d].partition
  BY <1>1 DEF Control, JobsInLog, Current, EventsKeyed
<1> QED BY <1>2 DEF BusyOwns

\* What is loaded stays what the row says.
LEMMA LoadedStaysCurrent ==
  ASSUME Inv, BusyOwns, LoadedIsCurrent, EventsKeyed, [Next]_vars
  PROVE  LoadedIsCurrent'
<1>0. TablesTyped /\ LoopsTyped /\ Control
  BY InvParts
<1> SUFFICES ASSUME NEW d \in Consumers, pc'[d] = "save",
                    Current(d)'.kind \in EventKinds
             PROVE  job'[d].loaded = subscriptions'[Current(d)'.user]
  BY DEF LoadedIsCurrent, EventKinds
<1>1. CASE pc[d] = "save" /\ job'[d] = job[d]
  <2>1. Current(d)' = Current(d) /\ IsBusy(d)
    BY <1>1 DEF Current, IsBusy, Busy
  <2>2. Current(d).user \in Users
    BY <1>0, <2>1, CurrentIsMessage DEF Message
  <2>3. job[d].loaded = subscriptions[Current(d).user]
    BY <1>1, <2>1 DEF LoadedIsCurrent, EventKinds
  <2>4. ASSUME subscriptions'[Current(d).user] # subscriptions[Current(d).user]
        PROVE  FALSE
    <3>1. PICK c \in Consumers : /\ Save(c) /\ Current(c).user = Current(d).user
                                /\ Current(c).kind \in EventKinds
      BY <2>2, <2>4, OnlyUpdatesWrite
    <3>2. IsBusy(c)
      BY <3>1 DEF Save, IsBusy, Busy
    <3>3. c = d
      BY <2>1, <3>1, <3>2, UpdatesAreAlone
    <3>4. pc'[c] = "commit"
      BY <1>0, <3>1 DEF Save, Returns, LoopsTyped
    <3> QED BY <3>3, <3>4
  <2> QED BY <1>1, <2>1, <2>3, <2>4
<1>2. CASE Handle(d)
  <2>1. job' = [job EXCEPT ![d].loaded = subscriptions[Current(d).user]]
        /\ UNCHANGED subscriptions
    BY <1>0, <1>2 DEF Handle, Returns, LoopsTyped, tables
  <2>2. job'[d].loaded = subscriptions[Current(d).user]
        /\ job'[d].partition = job[d].partition /\ job'[d].offset = job[d].offset
    BY <1>0, <2>1 DEF LoopsTyped, Job
  <2> QED BY <2>1, <2>2 DEF Current
<1>3. Handle(d) \/ (pc[d] = "save" /\ job'[d] = job[d])
  <2>1. ASSUME NEW c \in Consumers, Acts(c), c # d
        PROVE  pc[d] = "save" /\ job'[d] = job[d]
    BY <1>0, <2>1, OthersStay
  <2>2. CASE Acts(d)
    <3>1. CASE Loop(d) \/ PollNothing(d) \/ (\E k \in Partitions : Poll(d, k))
               \/ Restart(d) \/ (\E k \in Partitions : Assign(d, k))
      BY <1>0, <3>1 DEF Loop, PollNothing, Poll, Restart, Assign, LoopsTyped
    <3>2. CASE Save(d) \/ SaveFails(d) \/ CommitMessage(d)
      BY <1>0, <3>2 DEF Save, SaveFails, CommitMessage, Returns, LoopsTyped
    <3>3. CASE Rebalance(d) \/ Evict(d) \/ Crash(d) \/ Stop(d)
      BY <1>0, <3>3 DEF Rebalance, Evict, Crash, Stop, LoopsTyped
    <3> QED BY <2>2, <3>1, <3>2, <3>3 DEF Acts, Step
  <2>3. CASE UNCHANGED <<pc, job>>
    BY <2>3
  <2> QED BY <2>1, <2>2, <2>3, NextActs DEF vars, RemoveAccount
<1> QED BY <1>1, <1>2, <1>3

\* If the events about a user are in one partition and nobody is evicted, an
\* update starts from the list the row has: a partition changes hands only
\* between two messages of its owner, or with the death of the owner.
THEOREM LoadsStayCurrent ==
  ASSUME Orderly
  PROVE  Spec => []LoadedIsCurrent
<1>1. Init => BusyOwns /\ LoadedIsCurrent
  BY DEF Init, BusyOwns, LoadedIsCurrent, IsBusy, Busy
<1>2. Inv /\ BusyOwns /\ LoadedIsCurrent /\ [Next]_vars
         => BusyOwns' /\ LoadedIsCurrent'
  BY BusyStillOwns, LoadedStaysCurrent DEF Orderly
<1> QED BY <1>1, <1>2, Invariance, PTL DEF Spec
-----------------------------------------------------------------------------
\* Consumers whose handler has still to do what the message says.
Deciding == {"handle", "save"}

HandlingOf(k, o) ==
    {c \in Consumers : /\ pc[c] \in Deciding
                       /\ job[c].partition = k /\ job[c].offset = o}

\* A message of a partition is behind the group, or the owner, who may still
\* lose the partition before it commits, is done with it.
Passed(k, o) ==
    IF owner[k] = Nobody THEN o <= committed[k]
    ELSE o <= position[k] /\ owner[k] \notin HandlingOf(k, o)

Touches(k, o, u, id) ==
    \E kind \in EventKinds : Says(k, o, kind, u, id)

NoError ==
    \A k \in Partitions : \A o \in DOMAIN Log[k] : "error" \notin returned[k][o]

\* A subscription of a user is as the last event about it says, when all that
\* there are have been passed.  While some are handled again it is not.
Settled(u, id) ==
    (\A k \in Partitions : \A o \in DOMAIN Log[k] :
        Touches(k, o, u, id) => Passed(k, o))
    => (subscriptions[u][id] > 0 <=> SubscribedInTheEnd(u, id))

LastWriteStands == NoError => \A u \in Users : \A id \in Ids : Settled(u, id)

\* No error is forgotten, and a handler that fails leaves one.
LEMMA ErrorsStay ==
  ASSUME Inv, [Next]_vars, NoError'
  PROVE  /\ NoError
         /\ \A c \in Consumers : IsBusy(c) => ~Returns(c, "error")
<1>0. LoopsTyped /\ Control
  BY InvParts
<1>1. NoError
  BY HistoryGrows DEF NoError
<1>2. ASSUME NEW c \in Consumers, IsBusy(c), Returns(c, "error")
      PROVE  FALSE
  <2>1. /\ job[c].partition \in Partitions
        /\ job[c].offset \in DOMAIN Log[job[c].partition]
    BY <1>0, <1>2 DEF Control, JobsInLog
  <2>2. "error" \in returned'[job[c].partition][job[c].offset]
    BY <1>0, <1>2, <2>1 DEF Returns, LoopsTyped
  <2> QED BY <2>1, <2>2 DEF NoError
<1> QED BY <1>1, <1>2

\* A consumer that gives a partition up may commit what it has polled, but not
\* while it handles a message.
LEMMA GivenUpPassed ==
  ASSUME Inv, BusyOwns, NEW c \in Consumers, NEW k \in Partitions, owner[k] = c,
         Disown(c), NEW o \in DOMAIN Log[k], Passed(k, o)',
         \/ UNCHANGED committed
         \/ CommitStored(c) /\ ~IsBusy(c)
  PROVE  Passed(k, o)
<1>0. LoopsTyped /\ Control
  BY InvParts
<1>1. owner'[k] = Nobody /\ owner[k] # Nobody
  BY FaultsAssumption DEF Disown
<1>2. /\ committed[k] \in Nat /\ position[k] \in Nat /\ o \in Nat
      /\ committed[k] <= position[k]
  BY <1>0, <1>1, LogFacts DEF LoopsTyped, Control, PositionAhead
<1>3. o <= committed'[k]
  BY <1>1 DEF Passed
<1>4. CASE UNCHANGED committed
  <2>1. owner[k] \notin HandlingOf(k, o)
    BY <1>2, <1>3, <1>4 DEF HandlingOf, Deciding, BusyOwns, IsBusy, Busy
  <2> QED BY <1>1, <1>2, <1>3, <1>4, <2>1 DEF Passed
<1>5. CASE CommitStored(c) /\ ~IsBusy(c)
  <2>1. owner[k] \notin HandlingOf(k, o)
    BY <1>5 DEF HandlingOf, Deciding, IsBusy, Busy
  <2>2. committed'[k] = position[k]
    BY <1>5 DEF CommitStored
  <2> QED BY <1>1, <1>2, <1>3, <2>1, <2>2 DEF Passed
<1> QED BY <1>4, <1>5

\* Only the handler of an event makes it passed, by saving what it says.
LEMMA OnlySavesPass ==
  ASSUME Inv, BusyOwns, [Next]_vars, NoError', "evict" \notin Faults,
         NEW k \in Partitions, NEW o \in DOMAIN Log[k],
         Log[k][o].kind \in EventKinds, Passed(k, o)',
         ~\E c \in Consumers :
             Save(c) /\ job[c].partition = k /\ job[c].offset = o
  PROVE  Passed(k, o)
<1>0. LoopsTyped /\ Control
  BY InvParts
<1>1. o \in Nat /\ position[k] \in Nat /\ committed[k] \in Nat
  BY <1>0, LogFacts DEF LoopsTyped
<1>2. ASSUME NEW c \in Consumers, Acts(c), owner[k] = c
      PROVE  Passed(k, o)
  <2>0. owner[k] # Nobody
    BY <1>2, FaultsAssumption
  <2>1. CASE Loop(c)
    <3>1. \/ UNCHANGED <<owner, position>> /\ pc[c] = "loop"
          \/ /\ Disown(c) /\ ~IsBusy(c)
             /\ CommitStored(c) \/ UNCHANGED committed
      BY <2>1 DEF Loop, IsBusy, Busy
    <3> QED BY <1>2, <2>0, <3>1, GivenUpPassed
            DEF Passed, HandlingOf, Deciding
  <2>2. CASE PollNothing(c) \/ CommitMessage(c) \/ Restart(c)
    BY <1>2, <2>0, <2>2 DEF PollNothing, CommitMessage, Restart, group, Passed,
                            HandlingOf, Deciding
  <2>3. ASSUME NEW l \in Partitions, Poll(c, l)
        PROVE  Passed(k, o)
    <3>1. /\ pc[c] = "poll" /\ pc'[c] = "handle" /\ UNCHANGED owner
          /\ job'[c].partition = l /\ job'[c].offset = position[l] + 1
          /\ position'[k] = IF l = k THEN position[k] + 1 ELSE position[k]
      BY <1>0, <2>3 DEF Poll, LoopsTyped
    <3>2. o <= position[k]
      BY <1>1, <1>2, <2>0, <3>1 DEF Passed, HandlingOf, Deciding
    <3> QED BY <1>2, <2>0, <3>1, <3>2 DEF Passed, HandlingOf, Deciding
  <2>4. CASE Handle(c)
    <3>1. /\ UNCHANGED <<owner, position>> /\ IsBusy(c)
          /\ pc[c] = "handle"
      BY <2>4 DEF Handle, group, IsBusy, Busy
    <3>2. ~Returns(c, "error")
      BY <3>1, ErrorsStay
    <3>3. CASE c \in HandlingOf(k, o)
      <4>1. Current(c).kind # "foreign"
        BY <3>3 DEF HandlingOf, Current, EventKinds
      <4>2. /\ job' = [job EXCEPT ![c].loaded =
                                    subscriptions[Current(c).user]]
            /\ pc' = [pc EXCEPT ![c] = "save"]
        BY <2>4, <3>2, <4>1 DEF Handle
      <4>3. c \in HandlingOf(k, o)'
        BY <1>0, <3>3, <4>2 DEF HandlingOf, Deciding, LoopsTyped, Job
      <4> QED BY <1>2, <2>0, <3>1, <4>3 DEF Passed
    <3> QED BY <1>2, <2>0, <3>1, <3>3 DEF Passed
  <2>5. CASE Save(c)
    <3>1. UNCHANGED <<owner, position>> /\ c \notin HandlingOf(k, o)
      BY <2>5 DEF Save, group, HandlingOf
    <3> QED BY <1>2, <2>0, <3>1 DEF Passed
  <2>6. ~SaveFails(c)
    BY ErrorsStay DEF SaveFails, IsBusy, Busy
  <2>7. ASSUME NEW l \in Partitions, Assign(c, l)
        PROVE  Passed(k, o)
    <3>1. pc[c] = "poll" /\ owner'[k] = owner[k] /\ position'[k] = position[k]
      BY <1>0, <1>2, <2>0, <2>7 DEF Assign, LoopsTyped
    <3> QED BY <1>2, <2>0, <3>1 DEF Passed, HandlingOf, Deciding
  <2>8. CASE Rebalance(c) \/ Crash(c)
    <3>1. /\ Disown(c)
          /\ \/ UNCHANGED committed
             \/ CommitStored(c) /\ ~IsBusy(c)
      BY <2>8 DEF Rebalance, Crash, IsBusy, Busy
    <3> QED BY <1>2, <3>1, GivenUpPassed
  <2>9. CASE Stop(c)
    BY <2>9 DEF Stop, group, Passed, HandlingOf
  <2>10. ~Evict(c)
    BY DEF Evict, Fault
  <2> QED BY <1>2, <2>1, <2>2, <2>3, <2>4, <2>5, <2>6, <2>7, <2>8, <2>9, <2>10
          DEF Acts, Step
<1>3. ASSUME NEW c \in Consumers, Acts(c), owner[k] # c
      PROVE  Passed(k, o)
  <2>1. committed'[k] = committed[k]
    BY <1>3, ActsOnItsOwn
  <2>2. \/ owner'[k] = owner[k] /\ position'[k] = position[k]
        \/ owner[k] = Nobody /\ owner'[k] # Nobody /\ position'[k] = committed[k]
    <3>1. CASE \E l \in Partitions : Assign(c, l)
      BY <1>0, <3>1, FaultsAssumption DEF Assign, LoopsTyped
    <3>2. CASE ~\E l \in Partitions : Assign(c, l)
      <4>1. owner'[k] = owner[k]
        BY <1>3, <3>2 DEF Acts, Step, Loop, PollNothing, Poll, Handle, Save,
             SaveFails, CommitMessage, Rebalance, Evict, Crash, Stop, Restart,
             Disown, group
      <4>2. position'[k] = position[k]
        BY <1>0, <1>3, <3>2 DEF Acts, Step, Loop, PollNothing, Poll, Handle,
             Save, SaveFails, CommitMessage, Rebalance, Evict, Crash, Stop,
             Restart, group, LoopsTyped
      <4> QED BY <4>1, <4>2
    <3> QED BY <3>1, <3>2
  <2>3. CASE owner[k] = Nobody
    BY <1>1, <2>1, <2>2, <2>3 DEF Passed
  <2>4. CASE owner[k] # Nobody
    <3>1. owner[k] \in Consumers \ {c}
      BY <1>0, <1>3, <2>4 DEF LoopsTyped
    <3>2. /\ owner'[k] = owner[k] /\ position'[k] = position[k]
          /\ pc'[owner[k]] = pc[owner[k]] /\ job'[owner[k]] = job[owner[k]]
      BY <1>0, <1>3, <2>2, <2>4, <3>1, OthersStay
    <3> QED BY <2>4, <3>1, <3>2 DEF Passed, HandlingOf
  <2> QED BY <2>3, <2>4
<1>4. CASE UNCHANGED <<group, pc, job>>
  BY <1>4 DEF Passed, HandlingOf, group
<1>5. ASSUME NEW u \in Users, RemoveAccount(u)
      PROVE  Passed(k, o)
  BY <1>4, <1>5 DEF RemoveAccount
<1> QED BY <1>2, <1>3, <1>4, <1>5, NextActs DEF vars, group

\* The handler of the last event about a subscription makes it what the event
\* says (AddSubscriptions, RemoveSubscriptions).
LEMMA LastSaveSettles ==
  ASSUME Inv, BusyOwns, LoadedIsCurrent, EventsKeyed,
         NEW c \in Consumers, Save(c), NEW u \in Users, NEW id \in Ids,
         Touches(job[c].partition, job[c].offset, u, id)
  PROVE  Settled(u, id)'
<1>0. TablesTyped /\ LoopsTyped /\ Control
  BY InvParts
<1>1. PICK k \in Partitions, n \in Nat :
         /\ k = job[c].partition /\ n = job[c].offset
         /\ n \in DOMAIN Log[k] /\ owner[k] = c /\ owner[k] # Nobody
         /\ n = position[k]
  BY <1>0, LogFacts, FaultsAssumption
     DEF Save, Control, JobsInLog, JobsAtPosition, BusyOwns, IsBusy, Busy
<1>2. /\ pc[c] = "save" /\ IsBusy(c) /\ UNCHANGED <<owner, position>>
      /\ Current(c) = Log[k][n] /\ Current(c) \in Message
  BY <1>0, <1>1, CurrentIsMessage DEF Save, group, IsBusy, Busy, Current
<1>3. /\ Current(c).kind \in EventKinds /\ Current(c).user = u
      /\ Current(c).ids[id] > 0 /\ Current(c).ids \in IdList
  BY <1>1, <1>2 DEF Touches, Says, Message
<1>4. job[c].loaded \in IdList
  BY <1>0 DEF LoopsTyped, Job
<1>5. subscriptions'[u][id] > 0 <=> Current(c).kind = "add"
  <2>1. CASE Current(c).kind = "add"
    <3>1. AddIDs(job[c].loaded, Current(c).ids)[id] > 0
      BY <1>3, <1>4 DEF AddIDs, IdList
    <3>2. subscriptions'[u] = AddIDs(job[c].loaded, Current(c).ids)
      BY <1>0, <1>2, <1>3, <2>1
         DEF Save, WriteList, TablesTyped, LoadedIsCurrent
    <3> QED BY <2>1, <3>1, <3>2
  <2>2. CASE Current(c).kind = "remove"
    <3>1. RemoveIDs(job[c].loaded, Current(c).ids)[id] = 0
      BY <1>3 DEF RemoveIDs
    <3>2. subscriptions'[u] = RemoveIDs(job[c].loaded, Current(c).ids)
      BY <1>0, <1>3, <2>2 DEF Save, WriteList, TablesTyped
    <3> QED BY <2>2, <3>1, <3>2
  <2> QED BY <1>3, <2>1, <2>2 DEF EventKinds
<1> SUFFICES ASSUME \A l \in Partitions : \A o \in DOMAIN Log[l] :
                       Touches(l, o, u, id) => Passed(l, o)'
             PROVE  Current(c).kind = "add" <=> SubscribedInTheEnd(u, id)
  BY <1>5 DEF Settled, Touches, Says, SubscribedInTheEnd
<1>6. ASSUME NEW l \in Partitions, NEW o \in DOMAIN Log[l], Touches(l, o, u, id)
      PROVE  l = k /\ o <= n
  <2>1. l = k
    BY <1>1, <1>2, <1>3, <1>6 DEF Touches, Says, EventsKeyed
  <2>2. Passed(k, o)'
    BY <1>6, <2>1
  <2> QED BY <1>1, <1>2, <2>1, <2>2 DEF Passed
<1>7. CASE Current(c).kind = "add"
  <2>1. Says(k, n, "add", u, id)
    BY <1>2, <1>3, <1>7 DEF Says
  <2>2. ASSUME NEW p \in n + 1 .. Len(Log[k]), Says(k, p, "remove", u, id)
        PROVE  FALSE
    <3>1. p \in DOMAIN Log[k] /\ p > n
      BY <1>1, LogFacts
    <3>2. Touches(k, p, u, id)
      BY <2>2 DEF Touches, EventKinds
    <3> QED BY <1>6, <3>1, <3>2
  <2> QED BY <1>1, <1>7, <2>1, <2>2 DEF SubscribedInTheEnd
<1>8. CASE Current(c).kind = "remove"
  <2>1. Says(k, n, "remove", u, id)
    BY <1>2, <1>3, <1>8 DEF Says
  <2>2. ASSUME NEW l \in Partitions, NEW o \in DOMAIN Log[l],
               Says(l, o, "add", u, id)
        PROVE  \E p \in o + 1 .. Len(Log[l]) : Says(l, p, "remove", u, id)
    <3>1. l = k /\ o <= n
      BY <1>6, <2>2 DEF Touches, EventKinds
    <3>2. o # n
      BY <2>1, <2>2, <3>1 DEF Says
    <3>3. o \in Nat /\ n \in o + 1 .. Len(Log[k])
      BY <1>1, <3>1, <3>2, LogFacts
    <3> QED BY <2>1, <3>1, <3>3
  <2> QED BY <1>8, <2>2 DEF SubscribedInTheEnd
<1> QED BY <1>3, <1>7, <1>8 DEF EventKinds

\* An update leaves the subscriptions alone that it says nothing about.
LEMMA OtherSubscriptionsStay ==
  ASSUME Inv, LoadedIsCurrent, [Next]_vars,
         NEW u \in Users, NEW id \in Ids,
         ~\E c \in Consumers :
             Save(c) /\ Touches(job[c].partition, job[c].offset, u, id)
  PROVE  subscriptions'[u][id] > 0 <=> subscriptions[u][id] > 0
<1>0. TablesTyped /\ LoopsTyped /\ Control
  BY InvParts
<1>1. CASE subscriptions'[u] # subscriptions[u]
  <2>1. PICK c \in Consumers : /\ Save(c) /\ Current(c).user = u
                              /\ Current(c).kind \in EventKinds
    BY <1>1, OnlyUpdatesWrite
  <2>2. /\ pc[c] = "save" /\ IsBusy(c) /\ Current(c).ids \in IdList
    BY <1>0, <2>1, CurrentIsMessage DEF Save, IsBusy, Busy, Message
  <2>3. Current(c).ids[id] = 0
    <3>1. ~(Current(c).ids[id] > 0)
      BY <2>1 DEF Touches, Says, Current
    <3> QED BY <2>2, <3>1 DEF IdList
  <2>4. job[c].loaded = subscriptions[u] /\ subscriptions[u] \in IdList
    BY <1>0, <2>1, <2>2 DEF LoadedIsCurrent, EventKinds, TablesTyped
  <2>5. /\ AddIDs(subscriptions[u], Current(c).ids)[id] = subscriptions[u][id]
        /\ RemoveIDs(subscriptions[u], Current(c).ids)[id] = subscriptions[u][id]
    BY <2>3, <2>4 DEF AddIDs, RemoveIDs, IdList
  <2>6. \/ subscriptions'[u] = AddIDs(subscriptions[u], Current(c).ids)
        \/ subscriptions'[u] = RemoveIDs(subscriptions[u], Current(c).ids)
    BY <1>0, <1>1, <2>1, <2>4 DEF Save, WriteList, TablesTyped, EventKinds
  <2> QED BY <2>5, <2>6
<1> QED BY <1>1

\* Every step keeps what is settled, and unsettles nothing for good.
LEMMA LastWriteKeepsStanding ==
  ASSUME Inv, BusyOwns, LoadedIsCurrent, LastWriteStands, [Next]_vars,
         EventsKeyed, "evict" \notin Faults
  PROVE  LastWriteStands'
<1> SUFFICES ASSUME NoError', NEW u \in Users, NEW id \in Ids
             PROVE  Settled(u, id)'
  BY DEF LastWriteStands
<1>1. NoError
  BY ErrorsStay
<1>2. CASE \E c \in Consumers :
              Save(c) /\ Touches(job[c].partition, job[c].offset, u, id)
  BY <1>2, LastSaveSettles
<1>3. CASE ~\E c \in Consumers :
              Save(c) /\ Touches(job[c].partition, job[c].offset, u, id)
  <2>1. ASSUME NEW k \in Partitions, NEW o \in DOMAIN Log[k],
               Touches(k, o, u, id), Passed(k, o)'
        PROVE  Passed(k, o)
    <3>1. Log[k][o].kind \in EventKinds
      BY <2>1 DEF Touches, Says
    <3> QED BY <1>3, <2>1, <3>1, OnlySavesPass
  <2>2. subscriptions'[u][id] > 0 <=> subscriptions[u][id] > 0
    BY <1>3, OtherSubscriptionsStay
  <2>3. Settled(u, id)
    BY <1>1 DEF LastWriteStands
  <2> QED BY <2>1, <2>2, <2>3
          DEF Settled, Touches, Says, SubscribedInTheEnd
<1> QED BY <1>2, <1>3

\* When all messages are behind the group and nobody handles one, a user has
\* the subscriptions the messages say, however often they were handled: what a
\* redelivery undoes, the redeliveries after it do again.
THEOREM SubscriptionsSettle ==
  ASSUME Orderly
  PROVE  Spec => []SubscriptionsConverge
<1>1. Init => LastWriteStands
  <2> SUFFICES ASSUME Init, NEW u \in Users, NEW id \in Ids
               PROVE  Settled(u, id)
    BY DEF LastWriteStands
  <2>1. ~(subscriptions[u][id] > 0)
    BY DEF Init, NoIds
  <2>2. ASSUME NEW k \in Partitions, NEW o \in DOMAIN Log[k]
        PROVE  ~Passed(k, o)
    BY LogFacts DEF Init, Passed
  <2>3. SubscribedInTheEnd(u, id) =>
           \E k \in Partitions : \E o \in DOMAIN Log[k] : Touches(k, o, u, id)
    BY DEF SubscribedInTheEnd, Touches, EventKinds
  <2> QED BY <2>1, <2>2, <2>3 DEF Settled
<1>2. Inv /\ BusyOwns /\ LoadedIsCurrent /\ LastWriteStands /\ [Next]_vars
         => BusyOwns' /\ LoadedIsCurrent' /\ LastWriteStands'
  BY BusyStillOwns, LoadedStaysCurrent, LastWriteKeepsStanding DEF Orderly
<1>3. Inv /\ LastWriteStands => SubscriptionsConverge
  <2> SUFFICES ASSUME Inv, LastWriteStands, NoError,
                      \A k \in Partitions : committed[k] = Len(Log[k]),
                      \A c \in Consumers : pc[c] \notin Busy,
                      NEW u \in Users, NEW id \in Ids
               PROVE  subscriptions[u][id] > 0 <=> SubscribedInTheEnd(u, id)
    BY DEF SubscriptionsConverge, NoError
  <2>0. LoopsTyped /\ Control
    BY InvParts
  <2>1. ASSUME NEW k \in Partitions, NEW o \in DOMAIN Log[k]
        PROVE  Passed(k, o)
    <3>1. /\ o \in Nat /\ o <= committed[k]
          /\ committed[k] \in Nat /\ position[k] \in Nat
      BY <2>0, LogFacts DEF LoopsTyped
    <3>2. owner[k] # Nobody => committed[k] <= position[k]
      BY <2>0 DEF Control, PositionAhead
    <3>3. owner[k] \notin HandlingOf(k, o)
      BY DEF HandlingOf, Deciding, Busy
    <3> QED BY <3>1, <3>2, <3>3 DEF Passed
  <2>2. Settled(u, id)
    BY DEF LastWriteStands
  <2> QED BY <2>1, <2>2 DEF Settled
<1>4. Init => BusyOwns /\ LoadedIsCurrent
  BY DEF Init, BusyOwns, LoadedIsCurrent, IsBusy, Busy
<1> QED BY <1>1, <1>2, <1>3, <1>4, Invariance, PTL DEF Spec
=============================================================================
