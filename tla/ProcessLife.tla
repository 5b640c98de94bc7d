---------------------------- MODULE ProcessLife ----------------------------
(***************************************************************************)
(* One process of the service from serving to its end: main waits for a    *)
(* signal, shuts the HTTP server down, and Application.Shutdown flushes    *)
(* and closes the producer, stops the consumers and closes the clients,    *)
(* while requests, consumer loops and the producer's thread run on.        *)
(*                                                                         *)
(* A request is what is left of a handler when only the order of its       *)
(* transaction, its event and its answer matters; at most one is in its    *)
(* handler (RequestTracker).  A handler need not ever return.  What a      *)
(* consumer does with offsets is in KafkaConsumer.                         *)
(***************************************************************************)
EXTENDS Integers, FiniteSets

CONSTANTS
    Requests,       \* requests of the life of the process
    Consumers,      \* one per topic with a handler
    QueueLimit      \* events the producer keeps at most

ASSUME LifeAssumption == QueueLimit \in Nat

VARIABLES
    phase,          \* how far main is
    forced,         \* server.Shutdown gave up waiting
    unflushed,      \* Flush gave up waiting
    open,           \* what Shutdown has not closed yet
    request,        \* where each request is
    event,          \* what became of the event of each request
    cancelled,      \* consumers the context of which is cancelled
    loop            \* where the loop of each consumer is

vars == <<phase, forced, unflushed, open, request, event, cancelled, loop>>

main == <<phase, forced, unflushed, open>>
work == <<request, event, cancelled, loop>>

Init ==
    /\ phase = "serving"
    /\ forced = FALSE
    /\ unflushed = FALSE
    /\ open = {"producer", "redis", "db"}
    /\ request = [r \in Requests |-> "new"]
    /\ event = [r \in Requests |-> "none"]
    /\ cancelled = {}
    /\ loop = [c \in Consumers |-> "poll"]

Running == phase \notin {"exited", "killed"}

InHandler == {"handling", "saving", "produce"}
Ended == {"ok", "error"}
-----------------------------------------------------------------------------
\* A connection the listener accepts; what it asks may come much later.
Accept(r) ==
    /\ phase = "serving"
    /\ request[r] = "new"
    /\ request' = [request EXCEPT ![r] = "waiting"]
    /\ UNCHANGED <<main, event, cancelled, loop>>

\* Variant: handlers of several requests at a time.
EnterUnlocked(r) ==
    /\ Running
    /\ request[r] = "waiting"
    /\ request' = [request EXCEPT ![r] = "handling"]
    /\ UNCHANGED <<main, event, cancelled, loop>>

\* The tracker's mutex.
Enter(r) ==
    /\ Running
    /\ request[r] = "waiting"
    /\ \A q \in Requests : request[q] \notin InHandler
    /\ request' = [request EXCEPT ![r] = "handling"]
    /\ UNCHANGED <<main, event, cancelled, loop>>

Answer(r, a) == request' = [request EXCEPT ![r] = a]

\* Nothing to write, or anything that goes wrong on the way to a commit.
Refuse(r) ==
    /\ Running
    /\ request[r] \in {"handling", "saving"}
    /\ Answer(r, "error")
    /\ UNCHANGED <<main, event, cancelled, loop>>

\* BeginTx of a closed database is an error; a transaction that had its
\* connection before may still commit.
Begin(r) ==
    /\ Running
    /\ request[r] = "handling"
    /\ "db" \in open
    /\ request' = [request EXCEPT ![r] = "saving"]
    /\ UNCHANGED <<main, event, cancelled, loop>>

Commit(r) ==
    /\ Running
    /\ request[r] = "saving"
    /\ request' = [request EXCEPT ![r] = "produce"]
    /\ UNCHANGED <<main, event, cancelled, loop>>

Queued == {r \in Requests : event[r] = "queued"}

\* Most handlers produce an event after the commit.  A closed producer and a
\* full queue refuse it, and the handler returns the error.
Produce(r) ==
    LET accepts == "producer" \in open /\ Cardinality(Queued) < QueueLimit IN
    /\ Running
    /\ request[r] = "produce"
    /\ \/ Answer(r, "ok") /\ UNCHANGED event
       \/ /\ accepts /\ Answer(r, "ok")
          /\ event' = [event EXCEPT ![r] = "queued"]
       \/ /\ ~accepts /\ Answer(r, "error")
          /\ event' = [event EXCEPT ![r] = "refused"]
    /\ UNCHANGED <<main, cancelled, loop>>

\* The producer's thread: a report, of a delivery or of its retries' failure.
Deliver(r) ==
    /\ Running /\ "producer" \in open
    /\ event[r] = "queued"
    /\ \E fate \in {"delivered", "failed"} :
          event' = [event EXCEPT ![r] = fate]
    /\ UNCHANGED <<main, request, cancelled, loop>>
-----------------------------------------------------------------------------
MoveLoop(c, from, to) ==
    /\ Running
    /\ loop[c] = from
    /\ loop' = [loop EXCEPT ![c] = to]
    /\ UNCHANGED <<main, request, event, cancelled>>

\* One round of select: a loop that was told to stop closes its consumer.
Poll(c) ==
    \/ c \notin cancelled /\ MoveLoop(c, "poll", "handle")
    \/ c \in cancelled /\ MoveLoop(c, "poll", "closed")

\* Handle fails, or has nothing to do with the message, or begins the
\* transaction that writes; with a cancelled context or a closed database it
\* cannot.
Handle(c) ==
    \/ MoveLoop(c, "handle", "poll")
    \/ MoveLoop(c, "handle", "commit")
    \/ /\ c \notin cancelled /\ "db" \in open
       /\ MoveLoop(c, "handle", "save")

\* The transaction commits and the message is committed, or it is rolled
\* back: a context cancelled meanwhile leaves both open.
Save(c) == MoveLoop(c, "save", "commit") \/ MoveLoop(c, "save", "poll")

CommitMessage(c) == MoveLoop(c, "commit", "poll")
-----------------------------------------------------------------------------
Advance(from, to) == phase = from /\ phase' = to

\* SIGINT or SIGTERM.  Later ones stay in the channel.
Signal ==
    /\ Advance("serving", "draining")
    /\ UNCHANGED <<forced, unflushed, open, work>>

\* Variant: connections that wait for the mutex are taken for idle ones.
DrainedOfHandlers ==
    /\ Advance("draining", "flushing")
    /\ \A r \in Requests : request[r] \notin InHandler
    /\ UNCHANGED <<forced, unflushed, open, work>>

\* server.Shutdown: no connection is busy any more ...
Drained ==
    /\ Advance("draining", "flushing")
    /\ \A r \in Requests : request[r] \in Ended \cup {"new"}
    /\ UNCHANGED <<forced, unflushed, open, work>>

\* Variant: a server that waits for its requests as long as it takes.
DrainTimeoutNever == FALSE /\ UNCHANGED vars

\* ... or twenty seconds are over.
DrainTimeout ==
    /\ Advance("draining", "flushing")
    /\ forced' = TRUE
    /\ UNCHANGED <<unflushed, open, work>>

\* Variant: Close without Flush.
FlushedNot ==
    /\ Advance("flushing", "closingProducer")
    /\ UNCHANGED <<forced, unflushed, open, work>>

\* Flush(10000): the queue is empty, or ten seconds are over.
Flushed ==
    /\ Advance("flushing", "closingProducer")
    /\ Queued = {}
    /\ UNCHANGED <<forced, unflushed, open, work>>

FlushTimeout ==
    /\ Advance("flushing", "closingProducer")
    /\ unflushed' = TRUE
    /\ UNCHANGED <<forced, open, work>>

\* What is still in the queue of a producer that goes is not sent.
LoseQueue ==
    event' = [r \in Requests |-> IF event[r] = "queued" THEN "lost"
                                 ELSE event[r]]

CloseProducer ==
    /\ Advance("closingProducer", "stopping")
    /\ open' = open \ {"producer"}
    /\ LoseQueue
    /\ UNCHANGED <<forced, unflushed, request, cancelled, loop>>

\* StopAll: one goroutine per consumer cancels its context ...
Stop(c) ==
    /\ phase = "stopping"
    /\ c \notin cancelled
    /\ cancelled' = cancelled \cup {c}
    /\ UNCHANGED <<main, request, event, loop>>

\* Variant: nobody waits for those goroutines.
StopAllWaitless ==
    /\ Advance("stopping", "closingClients")
    /\ UNCHANGED <<forced, unflushed, open, work>>

\* ... and StopAll waits for those goroutines, not for the loops.
StopAllReturns ==
    /\ Advance("stopping", "closingClients")
    /\ cancelled = Consumers
    /\ UNCHANGED <<forced, unflushed, open, work>>

\* Redis and the database are closed side by side; neither waits for those
\* who use them.
CloseClient(client) ==
    /\ phase = "closingClients"
    /\ client \in open
    /\ open' = open \ {client}
    /\ UNCHANGED <<phase, forced, unflushed, work>>

\* main returns; the goroutines that still run are cut off.
Exit ==
    /\ Advance("closingClients", "exited")
    /\ open = {}
    /\ UNCHANGED <<forced, unflushed, open, work>>

\* A crash, a SIGKILL, or logger.Fatal when the server cannot listen.
Kill ==
    /\ Running
    /\ phase' = "killed"
    /\ LoseQueue
    /\ UNCHANGED <<forced, unflushed, open, request, cancelled, loop>>

Stopped == ~Running /\ UNCHANGED vars
-----------------------------------------------------------------------------
Handler(r) ==
    Enter(r) \/ Refuse(r) \/ Begin(r) \/ Commit(r) \/ Produce(r)

Loop(c) == Poll(c) \/ Handle(c) \/ Save(c) \/ CommitMessage(c)

Shutdown ==
    \/ Drained \/ DrainTimeout
    \/ Flushed \/ FlushTimeout
    \/ CloseProducer
    \/ \E c \in Consumers : Stop(c)
    \/ StopAllReturns
    \/ \E client \in {"redis", "db"} : CloseClient(client)
    \/ Exit

Next ==
    \/ \E r \in Requests : Accept(r) \/ Handler(r) \/ Deliver(r)
    \/ \E c \in Consumers : Loop(c)
    \/ Signal \/ Shutdown \/ Kill \/ Stopped

Spec == Init /\ [][Next]_vars

\* main goes on, as every wait of it has a timeout or ends by itself.  Nothing
\* is assumed of requests, consumers or the producer's thread.
FairSpec == Spec /\ WF_vars(Shutdown)
-----------------------------------------------------------------------------
\* Every variable has its type, and one request is in its handler at most.
TypeOK ==
    /\ phase \in {"serving", "draining", "flushing", "closingProducer",
                  "stopping", "closingClients", "exited", "killed"}
    /\ forced \in BOOLEAN
    /\ unflushed \in BOOLEAN
    /\ open \subseteq {"producer", "redis", "db"}
    /\ request \in [Requests -> {"new", "waiting"} \cup InHandler \cup Ended]
    /\ event \in [Requests -> {"none", "queued", "refused", "delivered",
                               "failed", "lost"}]
    /\ cancelled \subseteq Consumers
    /\ loop \in [Consumers -> {"poll", "handle", "save", "commit", "closed"}]
    /\ \A q, r \in Requests :
          request[q] \in InHandler /\ request[r] \in InHandler => q = r

AfterDrain ==
    {"flushing", "closingProducer", "stopping", "closingClients", "exited"}

\* A shutdown that did not have to give up has answered every request it had
\* accepted, those that waited for the mutex too, before it closes anything
\* they use (main).
RequestsAnswered ==
    phase \in AfterDrain /\ ~forced =>
        \A r \in Requests : request[r] \in Ended \cup {"new"}

\* An event whose change is committed and announced as done is lost only with
\* a process that is killed or gives up waiting: between the last handler, the
\* flush and the close no event slips into a queue nobody empties (Shutdown).
EventsFlushed ==
    \A r \in Requests : event[r] = "lost" =>
        phase = "killed" \/ forced \/ unflushed

\* No consumer meets a closed client without having been told to stop
\* (StopAll, which waits before Shutdown goes on).
ConsumersWarned == open \cap {"redis", "db"} # {"redis", "db"} =>
                       cancelled = Consumers

\* A signal ends the process, although a handler may never return, a broker
\* never answer, and a consumer be in the middle of a message.
ShutdownEnds == (phase = "draining") ~> ~Running
=============================================================================
