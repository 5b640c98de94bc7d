-------------------------- MODULE WebSocketRequest --------------------------
(***************************************************************************)
(* handleWebSocketRequest: one request over a WebSocket.  The handler's    *)
(* goroutine reads it and calls the service, which reports progress into a *)
(* channel; a goroutine calls ForwardProgress, which starts another one    *)
(* and returns; that one writes what it receives to the connection.  The   *)
(* WaitGroup waits for the first of the two, not for the second.           *)
(*                                                                         *)
(* The service and the client are external: the service reports some       *)
(* messages and returns, the client may leave at any time.  Messages are   *)
(* numbered in the order of the reports.                                   *)
(***************************************************************************)
EXTENDS Integers, Sequences

CONSTANTS
    Capacity,       \* of the progress channel
    MaxReports      \* bound on the messages of a service call

ASSUME CapacityAssumption == Capacity \in Nat \ {0} /\ MaxReports \in Nat

VARIABLES
    pc,             \* where the handler is
    failed,         \* the service call returned an error
    reported,       \* messages the service has reported
    channel,        \* messages in the progress channel
    channelClosed,
    starter,        \* the goroutine that calls ForwardProgress
    forwarder,      \* the goroutine ForwardProgress starts
    sending,        \* messages it has received and is about to write
    received,       \* messages the client got, in this order
    conn,           \* open, stalled (the client reads no more), lost (it
                    \* left) or closed
    collided        \* two goroutines wrote to it at once (history)

vars == <<pc, failed, reported, channel, channelClosed, starter, forwarder,
          sending, received, conn, collided>>

service == <<failed, reported>>
wire == <<conn, collided>>
chan == <<channel, channelClosed>>
goroutines == <<starter, forwarder, sending, received>>

Messages == 1 .. MaxReports

Init ==
    /\ pc = "upgrade"
    /\ failed = FALSE
    /\ reported = 0
    /\ channel = <<>>
    /\ channelClosed = FALSE
    /\ starter = "none"
    /\ forwarder = "none"
    /\ sending = {}
    /\ received = <<>>
    /\ conn = "open"
    /\ collided = FALSE

Goto(from, to) == pc = from /\ pc' = to

\* There is no deadline: a write to a client that does not read waits.
WriteReturns == conn # "stalled"
-----------------------------------------------------------------------------
\* A connection that cannot be upgraded ends the handler.
Upgrade ==
    /\ Goto("upgrade", "read") \/ Goto("upgrade", "done")
    /\ UNCHANGED <<service, chan, goroutines, wire>>

\* ReadRequest: an error of the connection or of the JSON is answered with a
\* failure.  A message that is not text is not: it is complained about, and
\* the error returned with it is nil.
ReadRequest ==
    /\ Goto("read", "validate") \/ Goto("read", "refusing")
    /\ UNCHANGED <<service, chan, goroutines, wire>>

\* Valid, if the request has it; then the channel is made, and the starter.
Validate ==
    /\ \/ Goto("validate", "service") /\ starter' = "started"
       \/ Goto("validate", "refusing") /\ UNCHANGED starter
    /\ UNCHANGED <<service, chan, forwarder, sending, received, wire>>

\* RespondFailure before anything runs beside the handler.
RefuseRequest ==
    /\ Goto("refusing", "closing") /\ WriteReturns
    /\ UNCHANGED <<service, chan, goroutines, wire>>

\* The service calls the reporter ...
StartReport ==
    /\ Goto("service", "reporting")
    /\ reported < MaxReports
    /\ reported' = reported + 1
    /\ UNCHANGED <<failed, chan, goroutines, wire>>

\* ... which sends on the channel, and waits as long as it is full.
Report ==
    /\ Goto("reporting", "service")
    /\ Len(channel) < Capacity
    /\ channel' = Append(channel, reported)
    /\ UNCHANGED <<service, channelClosed, goroutines, wire>>

\* Variant: the success, too, is told by the handler.
ServiceReturnsTelling ==
    /\ Goto("service", "responding")
    /\ failed' \in BOOLEAN
    /\ UNCHANGED <<reported, chan, goroutines, wire>>

ServiceReturns ==
    /\ \/ Goto("service", "closeChannel") /\ UNCHANGED failed
       \/ Goto("service", "responding") /\ failed' = TRUE
    /\ UNCHANGED <<reported, chan, goroutines, wire>>

\* Variant: a failure returns at once.
RespondFailureReturning ==
    /\ Goto("responding", "closing") /\ WriteReturns
    /\ UNCHANGED <<service, chan, goroutines, wire>>

\* RespondFailure after an error of the service.
RespondFailure ==
    /\ Goto("responding", "closeChannel") /\ WriteReturns
    /\ UNCHANGED <<service, chan, goroutines, wire>>

CloseChannel ==
    /\ Goto("closeChannel", "wait")
    /\ channelClosed' = TRUE
    /\ UNCHANGED <<service, channel, goroutines, wire>>

\* wg.Wait
Wait ==
    /\ Goto("wait", "closing")
    /\ starter = "done"
    /\ UNCHANGED <<service, chan, goroutines, wire>>

\* The deferred ws.Conn.Close.
CloseConn ==
    /\ Goto("closing", "done")
    /\ conn' = "closed"
    /\ UNCHANGED <<service, chan, goroutines, collided>>
-----------------------------------------------------------------------------
\* ForwardProgress starts a goroutine and returns, and wg.Done follows.
ForwardProgress ==
    /\ starter = "started"
    /\ starter' = "done"
    /\ forwarder' = "ranging"
    /\ UNCHANGED <<pc, service, chan, sending, received, wire>>

\* Variant: a goroutine for each message.
ReceiveSpawning ==
    /\ forwarder = "ranging" /\ channel # <<>>
    /\ sending' = sending \cup {Head(channel)}
    /\ channel' = Tail(channel)
    /\ UNCHANGED <<pc, service, channelClosed, starter, forwarder, received,
                   wire>>

\* range over the channel: the next message, or the end of a closed one.
Receive ==
    /\ forwarder = "ranging" /\ sending = {}
    /\ channel # <<>>
    /\ sending' = {Head(channel)}
    /\ channel' = Tail(channel)
    /\ UNCHANGED <<pc, service, channelClosed, starter, forwarder, received,
                   wire>>

RangeEnds ==
    /\ forwarder = "ranging" /\ sending = {}
    /\ channel = <<>> /\ channelClosed
    /\ forwarder' = "done"
    /\ UNCHANGED <<pc, service, chan, starter, sending, received, wire>>

\* Variant: the loop ends with the first message that cannot be written.
SendMessageOrStop ==
    /\ WriteReturns
    /\ \E m \in sending :
          /\ sending' = sending \ {m}
          /\ received' = IF conn = "open" THEN Append(received, m) ELSE received
    /\ forwarder' = IF conn = "open" THEN forwarder ELSE "done"
    /\ UNCHANGED <<pc, service, chan, starter, wire>>

\* WriteJSON: an error of a connection that is no longer open is logged.
SendMessage ==
    /\ WriteReturns
    /\ \E m \in sending :
          /\ sending' = sending \ {m}
          /\ received' = IF conn = "open" THEN Append(received, m) ELSE received
    /\ UNCHANGED <<pc, service, chan, starter, forwarder, wire>>

PeerStalls ==
    /\ conn = "open"
    /\ conn' = "stalled"
    /\ UNCHANGED <<pc, service, chan, goroutines, collided>>

PeerLeaves ==
    /\ conn \in {"open", "stalled"}
    /\ conn' = "lost"
    /\ UNCHANGED <<pc, service, chan, goroutines, collided>>

\* Two goroutines write at once, of which the connection takes one only.  The
\* library panics in one of them: in the handler, where it is recovered after
\* the deferred Close, or in the forwarder, which ends the process.  If it
\* does not notice, the frames are mixed up and the client gives up.
Collide ==
    /\ pc = "responding" /\ sending # {}
    /\ collided' = TRUE
    /\ \/ pc' = "closing" /\ UNCHANGED conn
       \/ pc' = "crashed" /\ UNCHANGED conn
       \/ pc' = "closeChannel" /\ conn' = "lost"
    /\ UNCHANGED <<service, chan, goroutines>>
-----------------------------------------------------------------------------
Handler ==
    \/ Validate \/ RefuseRequest
    \/ Report \/ ServiceReturns \/ RespondFailure \/ Collide
    \/ CloseChannel \/ Wait \/ CloseConn

Forwarder ==
    /\ pc # "crashed"
    /\ ForwardProgress \/ Receive \/ RangeEnds \/ SendMessage

Next ==
    \/ Upgrade \/ ReadRequest
    \/ Handler \/ StartReport
    \/ Forwarder
    \/ PeerStalls \/ PeerLeaves

Spec == Init /\ [][Next]_vars

\* Goroutines go on if nothing blocks them, and the service call comes to an
\* end.  Nothing is assumed of the client: it need not send its request, read
\* what is written to it, or leave.
FairSpec == Spec /\ WF_vars(Handler) /\ WF_vars(Forwarder)
-----------------------------------------------------------------------------
\* Every variable has its type.
TypeOK ==
    /\ pc \in {"upgrade", "read", "validate", "refusing", "service",
               "reporting", "responding", "closeChannel", "wait", "closing",
               "done", "crashed"}
    /\ failed \in BOOLEAN
    /\ reported \in 0 .. MaxReports
    /\ channel \in Seq(Messages)
    /\ Len(channel) <= Capacity
    /\ channelClosed \in BOOLEAN
    /\ starter \in {"none", "started", "done"}
    /\ forwarder \in {"none", "ranging", "done"}
    /\ sending \subseteq Messages
    /\ received \in Seq(Messages)
    /\ conn \in {"open", "stalled", "lost", "closed"}
    /\ collided \in BOOLEAN

\* What the reports of the service are so far, but one it is still sending.
Handed == reported - (IF pc = "reporting" THEN 1 ELSE 0)

\* The client gets the messages in the order of the reports, none twice and
\* none left out; and as long as it is connected and the handler has not
\* closed the connection, what it has not got yet is on its way to it
\* (ProgressReporter, ForwardProgress).
ProgressInOrder ==
    /\ \A i \in DOMAIN received : received[i] = i
    /\ Len(received) <= Handed
    /\ conn = "open" =>
          /\ Len(received) + Len(channel) <= Handed
          /\ \A m \in Len(received) + 1 .. Handed :
                m \in sending \/ \E i \in DOMAIN channel : channel[i] = m

\* Handler and forwarder write to the connection at the same time, which may
\* end the process, only if the service call failed: RespondFailure does not
\* wait for the messages before it, and nothing else of the handler writes
\* once there is a forwarder.
TwoWritersOnlyOnFailure ==
    \/ pc \in {"refusing", "responding"} /\ sending # {}
    \/ collided \/ pc = "crashed"
    => failed

\* A request that was read comes to an end, however much more the service
\* reports than the channel holds and though the client left: what cannot be
\* written is thrown away.  Only a client that stays and reads nothing keeps
\* the forwarder, and with it the service and the handler.
HandlerReturns ==
    \/ <>[](conn = "stalled")
    \/ (pc \notin {"upgrade", "read"}) ~> (pc \in {"done", "crashed"})

\* No goroutine outlives its request for ever, unless a second writer made
\* the handler panic before it closed the channel.
ForwarderEnds ==
    \/ <>[](conn = "stalled")
    \/ (forwarder = "ranging") ~> (forwarder = "done" \/ collided)
=============================================================================
