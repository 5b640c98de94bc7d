-------------------------- MODULE ProcessLifeProofs --------------------------
(***************************************************************************)
(* Proofs about the life of a process, for any requests, consumers and     *)
(* bound of the producer's queue: what a shutdown that did not have to     *)
(* give up leaves behind.                                                  *)
(***************************************************************************)
EXTENDS ProcessLife, TLAPS

\* What main has established when it is past a wait: an empty queue before it
\* closes the producer, and consumers that were told before it closes the
\* clients.
QueueFlushed ==
    phase = "closingProducer" /\ ~forced /\ ~unflushed =>
        \A r \in Requests : event[r] # "queued"

StoppedFirst ==
    /\ phase \in {"closingClients", "exited"} => cancelled = Consumers
    /\ phase \notin {"closingClients", "exited", "killed"} =>
           {"redis", "db"} \subseteq open

LifeInv ==
    TypeOK /\ RequestsAnswered /\ QueueFlushed /\ StoppedFirst
    /\ EventsFlushed /\ ConsumersWarned
-----------------------------------------------------------------------------
LEMMA LifeInit == Init => LifeInv
  BY DEF Init, LifeInv, TypeOK, RequestsAnswered, QueueFlushed, StoppedFirst,
         EventsFlushed, ConsumersWarned, AfterDrain, InHandler, Ended

\* A step of a request: it goes on only while it is in its handler, and enters
\* it only while nobody else is there.
LEMMA HandlerTyped ==
    ASSUME TypeOK, NEW r \in Requests, Handler(r)
    PROVE  TypeOK'
  <1> USE DEF TypeOK, InHandler, Ended
  <1>1. CASE Enter(r)
    BY <1>1 DEF Enter, main
  <1>2. CASE Refuse(r)
    BY <1>2 DEF Refuse, Answer, main
  <1>3. CASE Begin(r)
    BY <1>3 DEF Begin, main
  <1>4. CASE Commit(r)
    BY <1>4 DEF Commit, main
  <1>5. CASE Produce(r)
    <2>1. /\ event' \in [Requests -> {"none", "queued", "refused", "delivered",
                                      "failed", "lost"}]
          /\ request[r] = "produce"
          /\ request' \in {[request EXCEPT ![r] = "ok"],
                           [request EXCEPT ![r] = "error"]}
      BY <1>5 DEF Produce, Answer
    <2> QED
      BY <1>5, <2>1 DEF Produce, main
  <1> QED
    BY <1>1, <1>2, <1>3, <1>4, <1>5 DEF Handler

LEMMA LoopTyped ==
    ASSUME TypeOK, NEW c \in Consumers, Loop(c)
    PROVE  TypeOK' /\ UNCHANGED <<main, request, event, cancelled>>
  BY DEF TypeOK, Loop, Poll, Handle, Save, CommitMessage, MoveLoop, main

LEMMA ShutdownTyped ==
    ASSUME TypeOK, Signal \/ Shutdown \/ Kill
    PROVE  TypeOK'
  <1> USE DEF TypeOK, main, work, Advance, LoseQueue
  <1>1. CASE Signal
    BY <1>1 DEF Signal
  <1>2. CASE Drained \/ DrainTimeout
    BY <1>2 DEF Drained, DrainTimeout
  <1>3. CASE Flushed \/ FlushTimeout
    BY <1>3 DEF Flushed, FlushTimeout
  <1>4. CASE CloseProducer
    BY <1>4 DEF CloseProducer
  <1>5. CASE StopAllReturns \/ \E c \in Consumers : Stop(c)
    BY <1>5 DEF StopAllReturns, Stop
  <1>6. CASE Exit \/ \E client \in {"redis", "db"} : CloseClient(client)
    BY <1>6 DEF Exit, CloseClient
  <1>7. CASE Kill
    BY <1>7 DEF Kill
  <1> QED
    BY <1>1, <1>2, <1>3, <1>4, <1>5, <1>6, <1>7 DEF Shutdown

LEMMA LifeTypePreserved == TypeOK /\ [Next]_vars => TypeOK'
  <1> SUFFICES ASSUME TypeOK, [Next]_vars PROVE TypeOK'
    OBVIOUS
  <1>1. ASSUME NEW r \in Requests, Accept(r) PROVE TypeOK'
    BY <1>1 DEF TypeOK, Accept, main, InHandler, Ended
  <1>2. ASSUME NEW r \in Requests, Deliver(r) PROVE TypeOK'
    BY <1>2 DEF TypeOK, Deliver, main
  <1>3. CASE Stopped \/ UNCHANGED vars
    BY <1>3 DEF TypeOK, Stopped, vars
  <1> QED
    BY <1>1, <1>2, <1>3, HandlerTyped, LoopTyped, ShutdownTyped DEF Next
-----------------------------------------------------------------------------
\* Beside main: a step of a request, of the producer's thread or of a loop.
Beside ==
    \/ \E r \in Requests : Accept(r) \/ Handler(r) \/ Deliver(r)
    \/ \E c \in Consumers : Loop(c)

\* None of them closes anything, an event is queued only by a request in its
\* handler, none is lost, and no request comes back from its end.
LEMMA BesideLeavesMain ==
    ASSUME TypeOK, Beside
    PROVE  /\ UNCHANGED <<main, cancelled>>
           /\ phase \notin {"exited", "killed"}
           /\ \A r \in Requests :
                 /\ event'[r] # event[r] =>
                       \/ event'[r] = "queued" /\ request[r] = "produce"
                       \/ event'[r] \in {"refused", "delivered", "failed"}
                 /\ request'[r] # request[r] =>
                       \/ request[r] = "new" /\ phase = "serving"
                       \/ request[r] \in {"waiting"} \cup InHandler
  <1> USE DEF TypeOK, InHandler, Running
  <1>1. ASSUME NEW q \in Requests, Accept(q)
        PROVE  UNCHANGED <<main, cancelled, event>>
               /\ phase = "serving" /\ request[q] = "new"
               /\ request' = [request EXCEPT ![q] = "waiting"]
    BY <1>1 DEF Accept
  <1>2. ASSUME NEW q \in Requests, Deliver(q)
        PROVE  UNCHANGED <<main, cancelled, request>> /\ Running
               /\ \E f \in {"delivered", "failed"} :
                     event' = [event EXCEPT ![q] = f]
    BY <1>2 DEF Deliver
  <1>3. ASSUME NEW q \in Requests, Handler(q)
        PROVE  /\ UNCHANGED <<main, cancelled>> /\ Running
               /\ request[q] \in {"waiting"} \cup InHandler
               /\ \E a \in {"handling", "saving", "produce", "ok", "error"} :
                     request' = [request EXCEPT ![q] = a]
               /\ \/ event' = event
                  \/ /\ request[q] = "produce"
                     /\ \E f \in {"queued", "refused"} :
                           event' = [event EXCEPT ![q] = f]
    <2>1. CASE Enter(q) \/ Refuse(q)
      BY <2>1 DEF Enter, Refuse, Answer
    <2>2. CASE Begin(q) \/ Commit(q)
      BY <2>2 DEF Begin, Commit
    <2>3. CASE Produce(q)
      BY <2>3 DEF Produce, Answer
    <2> QED
      BY <1>3, <2>1, <2>2, <2>3 DEF Handler
  <1>4. ASSUME NEW c \in Consumers, Loop(c)
        PROVE  UNCHANGED <<main, cancelled, event, request>> /\ Running
    BY <1>4 DEF Loop, Poll, Handle, Save, CommitMessage, MoveLoop
  <1>5. CASE \E q \in Requests : Accept(q)
    BY <1>1, <1>5
  <1>6. CASE \E q \in Requests : Deliver(q)
    BY <1>2, <1>6
  <1>7. CASE \E q \in Requests : Handler(q)
    BY <1>3, <1>7
  <1>8. CASE \E c \in Consumers : Loop(c)
    BY <1>4, <1>8
  <1> QED
    BY <1>5, <1>6, <1>7, <1>8 DEF Beside

LEMMA BesideKeeps ==
    ASSUME LifeInv, Beside
    PROVE  LifeInv'
  <1>1. TypeOK'
    BY LifeTypePreserved DEF LifeInv, Beside, Next
  <1>2. UNCHANGED <<phase, forced, unflushed, open, cancelled>>
    BY BesideLeavesMain DEF LifeInv, main
  <1>3. (StoppedFirst /\ ConsumersWarned)'
    BY <1>2 DEF LifeInv, StoppedFirst, ConsumersWarned
  <1>4. RequestsAnswered'
    BY <1>2, BesideLeavesMain
       DEF LifeInv, RequestsAnswered, AfterDrain, InHandler, Ended
  <1>5. QueueFlushed'
    <2> SUFFICES ASSUME phase = "closingProducer", ~forced, ~unflushed,
                        NEW r \in Requests
                 PROVE  event'[r] # "queued"
      BY <1>2 DEF QueueFlushed
    <2>1. request[r] # "produce" /\ event[r] # "queued"
      BY DEF LifeInv, RequestsAnswered, QueueFlushed, AfterDrain, Ended
    <2> QED
      BY <2>1, BesideLeavesMain DEF LifeInv
  <1>6. EventsFlushed'
    BY <1>2, BesideLeavesMain DEF LifeInv, EventsFlushed
  <1> QED
    BY <1>1, <1>3, <1>4, <1>5, <1>6 DEF LifeInv
-----------------------------------------------------------------------------
\* The steps of main, each on the work of its predecessor.
LEMMA MainKeeps ==
    ASSUME LifeInv, Signal \/ Shutdown \/ Kill
    PROVE  LifeInv'
  <1>1. TypeOK'
    BY LifeTypePreserved DEF LifeInv, Next
  <1> USE DEF LifeInv, RequestsAnswered, QueueFlushed, StoppedFirst,
              EventsFlushed, ConsumersWarned, AfterDrain, main, work, Advance
  <1>2. CASE Signal
    BY <1>1, <1>2 DEF Signal
  <1>3. CASE Drained \/ DrainTimeout
    BY <1>1, <1>3 DEF Drained, DrainTimeout
  <1>4. CASE Flushed \/ FlushTimeout
    BY <1>1, <1>4 DEF Flushed, FlushTimeout, Queued
  <1>5. CASE CloseProducer
    <2>1. \A r \in Requests : event'[r] = "lost" =>
             event[r] \in {"lost", "queued"}
      BY <1>5 DEF CloseProducer, LoseQueue
    <2>2. EventsFlushed'
      BY <1>5, <2>1 DEF CloseProducer
    <2> QED
      BY <1>1, <1>5, <2>2 DEF CloseProducer
  <1>6. CASE \E c \in Consumers : Stop(c)
    BY <1>1, <1>6 DEF Stop, TypeOK
  <1>7. CASE StopAllReturns
    BY <1>1, <1>7 DEF StopAllReturns
  <1>8. CASE \E client \in {"redis", "db"} : CloseClient(client)
    BY <1>1, <1>8 DEF CloseClient
  <1>9. CASE Exit
    BY <1>1, <1>9 DEF Exit
  <1>10. CASE Kill
    BY <1>1, <1>10 DEF Kill
  <1> QED
    BY <1>2, <1>3, <1>4, <1>5, <1>6, <1>7, <1>8, <1>9, <1>10 DEF Shutdown

LEMMA LifePreserved == LifeInv /\ [Next]_vars => LifeInv'
  <1> SUFFICES ASSUME LifeInv, [Next]_vars PROVE LifeInv'
    OBVIOUS
  <1>1. CASE Stopped \/ UNCHANGED vars
    BY <1>1 DEF Stopped, vars, LifeInv, TypeOK, RequestsAnswered, QueueFlushed,
                StoppedFirst, EventsFlushed, ConsumersWarned
  <1> QED
    BY <1>1, BesideKeeps, MainKeeps DEF Next, Beside

LEMMA LifeInvariant == Spec => []LifeInv
  BY LifeInit, LifePreserved, PTL DEF Spec

\* Every variable keeps its type, and one request is in its handler at most.
THEOREM LifeTyped == Spec => []TypeOK
  BY LifeInvariant, PTL DEF LifeInv

\* A shutdown that did not give up has answered what it accepted before it
\* closes anything (server.Shutdown before Application.Shutdown).
THEOREM GracefulShutdownAnswers == Spec => []RequestsAnswered
  BY LifeInvariant, PTL DEF LifeInv

\* Only a kill or a timeout loses an event that was announced as done (Flush
\* after the last handler and before Close).
THEOREM LossHasACause == Spec => []EventsFlushed
  BY LifeInvariant, PTL DEF LifeInv

\* Consumers are told before Redis or the database goes (StopAll).
THEOREM ClientsCloseLast == Spec => []ConsumersWarned
  BY LifeInvariant, PTL DEF LifeInv
=============================================================================
