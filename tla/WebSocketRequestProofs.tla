------------------------ MODULE WebSocketRequestProofs ------------------------
(***************************************************************************)
(* Proofs about handleWebSocketRequest, for any capacity of the progress   *)
(* channel and any number of reports: the client gets a prefix of what was *)
(* reported, and only a failed call lets two goroutines write at once.     *)
(***************************************************************************)
EXTENDS WebSocketRequest, TLAPS

\* Who may be running where the handler is.
Goroutines ==
    /\ pc \in {"upgrade", "read", "validate", "refusing"} => starter = "none"
    /\ starter = "none" => forwarder = "none"
    /\ forwarder = "none" => sending = {}
    /\ pc = "responding" \/ pc = "crashed" \/ collided => failed

\* The messages under way are consecutive: what the client got, the message
\* that is being written, and the channel, up to the last one handed over.
OnTheWay ==
    /\ pc = "reporting" => reported > 0
    /\ \A i \in DOMAIN channel : channel[i] = Handed - Len(channel) + i
    /\ Len(channel) <= Handed
    /\ sending \in {{}, {Handed - Len(channel)}}
    /\ sending # {} => Len(channel) < Handed
    /\ \A i \in DOMAIN received : received[i] = i
    /\ LET gone == Handed - Len(channel) - (IF sending = {} THEN 0 ELSE 1)
       IN  /\ Len(received) <= gone
           /\ conn = "open" => Len(received) = gone

SocketInv == TypeOK /\ Goroutines /\ OnTheWay
-----------------------------------------------------------------------------
LEMMA SocketInit == Init => SocketInv
  <1> SUFFICES ASSUME Init PROVE SocketInv
    OBVIOUS
  <1>1. /\ channel \in Seq(Messages) /\ received \in Seq(Messages)
        /\ Len(channel) = 0 /\ Len(received) = 0
        /\ DOMAIN channel = {} /\ DOMAIN received = {}
    BY DEF Init
  <1>2. /\ pc = "upgrade" /\ failed = FALSE /\ reported = 0
        /\ channelClosed = FALSE /\ starter = "none" /\ forwarder = "none"
        /\ sending = {} /\ conn = "open" /\ collided = FALSE
    BY DEF Init
  <1>3. Goroutines
    BY <1>2 DEF Goroutines
  <1>4. 0 \in 0 .. MaxReports /\ 0 <= Capacity
    BY CapacityAssumption
  <1>5. TypeOK
    BY <1>1, <1>2, <1>4 DEF TypeOK
  <1>6. Handed = 0
    BY <1>2 DEF Handed
  <1>7. OnTheWay
    BY <1>1, <1>2, <1>6 DEF OnTheWay
  <1> QED
    BY <1>3, <1>5, <1>7 DEF SocketInv

\* The steps of the handler that leave the messages where they are.
LEMMA QuietKeeps ==
    ASSUME SocketInv,
           \/ Upgrade \/ ReadRequest \/ Validate \/ RefuseRequest
           \/ ServiceReturns \/ RespondFailure \/ Collide
           \/ CloseChannel \/ Wait \/ CloseConn
           \/ ForwardProgress \/ RangeEnds \/ PeerStalls \/ PeerLeaves
    PROVE  SocketInv'
  <1>1. /\ UNCHANGED <<reported, channel, sending, received>>
        /\ pc # "reporting" => pc' # "reporting"
        /\ pc = "reporting" => pc' = "reporting"
        /\ conn' = "open" => conn = "open"
    BY DEF Upgrade, ReadRequest, Validate, RefuseRequest, ServiceReturns,
           RespondFailure, Collide, CloseChannel, Wait, CloseConn,
           ForwardProgress, RangeEnds, PeerStalls, PeerLeaves, Goto, service,
           chan, goroutines, wire
  <1> USE DEF SocketInv, Goto, service, chan, goroutines, wire
  <1>2. TypeOK'
    <2>1. /\ pc' \in {"upgrade", "read", "validate", "refusing", "service",
                     "reporting", "responding", "closeChannel", "wait",
                     "closing", "done", "crashed"}
          /\ failed' \in BOOLEAN /\ channelClosed' \in BOOLEAN
      BY DEF TypeOK, Upgrade, ReadRequest, Validate, RefuseRequest,
             ServiceReturns, RespondFailure, Collide, CloseChannel, Wait,
             CloseConn, ForwardProgress, RangeEnds, PeerStalls, PeerLeaves
    <2>2. /\ starter' \in {"none", "started", "done"}
          /\ forwarder' \in {"none", "ranging", "done"}
          /\ conn' \in {"open", "stalled", "lost", "closed"}
          /\ collided' \in BOOLEAN
      BY DEF TypeOK, Upgrade, ReadRequest, Validate, RefuseRequest,
             ServiceReturns, RespondFailure, Collide, CloseChannel, Wait,
             CloseConn, ForwardProgress, RangeEnds, PeerStalls, PeerLeaves
    <2> QED
      BY <1>1, <2>1, <2>2 DEF TypeOK
  <1>4. Goroutines'
    <2>1. CASE Upgrade \/ ReadRequest \/ Validate \/ RefuseRequest
      BY <2>1 DEF Goroutines, Upgrade, ReadRequest, Validate, RefuseRequest
    <2>2. CASE ServiceReturns \/ RespondFailure \/ Collide
      BY <2>2 DEF Goroutines, ServiceReturns, RespondFailure, Collide
    <2>3. CASE CloseChannel \/ Wait \/ CloseConn
      BY <2>3 DEF Goroutines, CloseChannel, Wait, CloseConn
    <2>4. CASE ForwardProgress \/ RangeEnds \/ PeerStalls \/ PeerLeaves
      BY <2>4 DEF Goroutines, ForwardProgress, RangeEnds, PeerStalls,
                  PeerLeaves
    <2> QED
      BY <2>1, <2>2, <2>3, <2>4
  <1>3. OnTheWay'
    BY <1>1 DEF SocketInv, OnTheWay, Handed
  <1> QED
    BY <1>2, <1>3, <1>4

LEMMA StartReportKeeps == SocketInv /\ StartReport => SocketInv'
  <1> SUFFICES ASSUME SocketInv, StartReport PROVE SocketInv'
    OBVIOUS
  <1> USE DEF SocketInv, StartReport, Goto, chan, goroutines, wire
  <1>1. TypeOK' /\ Goroutines'
    BY CapacityAssumption DEF TypeOK, Goroutines
  <1>2. Handed' = Handed /\ reported' > 0
    BY DEF TypeOK, Handed
  <1>3. OnTheWay'
    BY <1>2 DEF OnTheWay
  <1> QED
    BY <1>1, <1>3

LEMMA ReportKeeps == SocketInv /\ Report => SocketInv'
  <1> SUFFICES ASSUME SocketInv, Report PROVE SocketInv'
    OBVIOUS
  <1>1. /\ pc = "reporting" /\ pc' = "service"
        /\ channel' = Append(channel, reported) /\ Len(channel) < Capacity
        /\ UNCHANGED <<failed, reported, channelClosed, starter, forwarder,
                       sending, received, conn, collided>>
    BY DEF Report, Goto, service, goroutines, wire
  <1>2. /\ channel \in Seq(Messages) /\ Capacity \in Nat
        /\ reported \in Messages /\ received \in Seq(Messages)
    BY <1>1, CapacityAssumption DEF SocketInv, TypeOK, OnTheWay, Messages
  <1>3. channel' \in Seq(Messages) /\ Len(channel') = Len(channel) + 1
    BY <1>1, <1>2
  <1>4. TypeOK' /\ Goroutines'
    BY <1>1, <1>2, <1>3 DEF SocketInv, TypeOK, Goroutines
  <1>5. Handed = reported - 1 /\ Handed' = reported /\ reported \in Int
    BY <1>1, <1>2 DEF Handed, Messages
  <1>6. \A i \in DOMAIN channel' :
           channel'[i] = Handed' - Len(channel') + i
    <2> SUFFICES ASSUME NEW i \in DOMAIN channel'
                 PROVE  channel'[i] = reported - (Len(channel) + 1) + i
      BY <1>3, <1>5
    <2>1. i \in 1 .. Len(channel) + 1 /\ Len(channel) \in Nat
      BY <1>2, <1>3
    <2>2. CASE i = Len(channel) + 1
      <3>1. channel'[i] = reported
        BY <1>1, <1>2, <2>2
      <3> QED
        BY <1>5, <2>1, <2>2, <3>1
    <2>3. CASE i # Len(channel) + 1
      <3>1. i \in DOMAIN channel /\ channel'[i] = channel[i]
        BY <1>1, <1>2, <2>1, <2>3
      <3>2. channel[i] = reported - 1 - Len(channel) + i
        BY <1>5, <3>1 DEF SocketInv, OnTheWay
      <3> QED
        BY <1>5, <2>1, <3>1, <3>2
    <2> QED
      BY <2>2, <2>3
  <1>7. Handed' - Len(channel') = Handed - Len(channel)
    BY <1>2, <1>3, <1>5
  <1>8. OnTheWay'
    BY <1>1, <1>2, <1>3, <1>5, <1>6, <1>7 DEF SocketInv, OnTheWay
  <1> QED
    BY <1>4, <1>8 DEF SocketInv

LEMMA ReceiveKeeps == SocketInv /\ Receive => SocketInv'
  <1> SUFFICES ASSUME SocketInv, Receive PROVE SocketInv'
    OBVIOUS
  <1>1. /\ forwarder = "ranging" /\ sending = {} /\ channel # <<>>
        /\ sending' = {Head(channel)} /\ channel' = Tail(channel)
        /\ UNCHANGED <<pc, failed, reported, channelClosed, starter, forwarder,
                       received, conn, collided>>
    BY DEF Receive, service, wire
  <1>2. /\ channel \in Seq(Messages) /\ received \in Seq(Messages)
        /\ Len(channel) <= Capacity /\ Capacity \in Nat /\ reported \in Int
    BY CapacityAssumption DEF SocketInv, TypeOK
  <1>3. /\ Head(channel) = channel[1] /\ channel[1] \in Messages
        /\ Len(channel) > 0
        /\ channel' \in Seq(Messages) /\ Len(channel') = Len(channel) - 1
        /\ \A i \in DOMAIN channel' : channel'[i] = channel[i + 1]
    BY <1>1, <1>2
  <1>4. TypeOK' /\ Goroutines'
    BY <1>1, <1>2, <1>3 DEF SocketInv, TypeOK, Goroutines
  <1>5. Handed' = Handed /\ Handed \in Int
    BY <1>1, <1>2 DEF Handed
  <1>6. channel[1] = Handed - Len(channel')
    <2>1. 1 \in DOMAIN channel /\ Len(channel) \in Nat
      BY <1>2, <1>3
    <2>2. channel[1] = Handed - Len(channel) + 1
      BY <2>1 DEF SocketInv, OnTheWay
    <2> QED
      BY <1>3, <1>5, <2>1, <2>2
  <1>7. \A i \in DOMAIN channel' : channel'[i] = Handed' - Len(channel') + i
    <2> SUFFICES ASSUME NEW i \in DOMAIN channel'
                 PROVE  channel'[i] = Handed - Len(channel') + i
      BY <1>5
    <2>1. i \in Int /\ i + 1 \in DOMAIN channel
      BY <1>2, <1>3
    <2>2. channel[i + 1] = Handed - Len(channel) + (i + 1)
      BY <2>1 DEF SocketInv, OnTheWay
    <2> QED
      BY <1>2, <1>3, <1>5, <2>1, <2>2
  <1>8. OnTheWay'
    <2>1. /\ Len(channel) \in Nat /\ Len(received) \in Nat
          /\ Len(channel) <= Handed
      BY <1>2 DEF SocketInv, OnTheWay
    <2>2. /\ sending' = {Handed' - Len(channel')}
          /\ Len(channel') < Handed'
      BY <1>1, <1>3, <1>5, <1>6, <2>1
    <2>3. Handed' - Len(channel') - 1 = Handed - Len(channel) - 0
      BY <1>3, <1>5, <2>1
    <2>4. /\ pc' = "reporting" => reported' > 0
          /\ \A i \in DOMAIN received' : received'[i] = i
          /\ Len(received') <= Handed - Len(channel) - 0
          /\ conn' = "open" => Len(received') = Handed - Len(channel) - 0
      BY <1>1 DEF SocketInv, OnTheWay
    <2>5. Len(channel') <= Handed'
      BY <1>3, <1>5, <2>1, <2>2
    <2> QED
      BY <1>7, <2>2, <2>3, <2>4, <2>5 DEF OnTheWay
  <1> QED
    BY <1>4, <1>8 DEF SocketInv

LEMMA SendMessageKeeps == SocketInv /\ SendMessage => SocketInv'
  <1> SUFFICES ASSUME SocketInv, SendMessage PROVE SocketInv'
    OBVIOUS
  <1>1. PICK m \in sending :
           /\ sending' = sending \ {m}
           /\ received' = IF conn = "open" THEN Append(received, m)
                          ELSE received
    BY DEF SendMessage
  <1>2. /\ UNCHANGED <<pc, failed, reported, channel, channelClosed, starter,
                       forwarder, conn, collided>>
        /\ sending = {Handed - Len(channel)} /\ m = Handed - Len(channel)
        /\ sending' = {} /\ m \in Messages
    BY <1>1 DEF SendMessage, service, chan, wire, SocketInv, OnTheWay, TypeOK
  <1>3. /\ received \in Seq(Messages) /\ Handed' = Handed /\ Handed \in Int
        /\ Len(channel) \in Nat
    BY <1>2 DEF SocketInv, TypeOK, Handed
  <1>4. received' \in Seq(Messages)
    BY <1>1, <1>2, <1>3
  <1>5. TypeOK' /\ Goroutines'
    BY <1>1, <1>2, <1>4 DEF SocketInv, TypeOK, Goroutines
  <1>6. CASE conn = "open"
    <2>1. Len(received) = m - 1 /\ received' = Append(received, m)
      BY <1>1, <1>2, <1>3, <1>6 DEF SocketInv, OnTheWay
    <2>2. /\ Len(received') = m
          /\ \A i \in DOMAIN received' : received'[i] = i
      BY <1>2, <1>3, <2>1 DEF SocketInv, OnTheWay
    <2> QED
      BY <1>2, <1>3, <1>5, <1>6, <2>2 DEF SocketInv, OnTheWay
  <1>7. CASE conn # "open"
    <2>1. received' = received
      BY <1>1, <1>7
    <2>2. Len(received) <= Handed - Len(channel) - 1
      BY <1>2 DEF SocketInv, OnTheWay
    <2> QED
      BY <1>2, <1>3, <1>5, <1>7, <2>1, <2>2 DEF SocketInv, OnTheWay
  <1> QED
    BY <1>6, <1>7

LEMMA SocketPreserved == SocketInv /\ [Next]_vars => SocketInv'
  <1> SUFFICES ASSUME SocketInv, [Next]_vars PROVE SocketInv'
    OBVIOUS
  <1>1. CASE UNCHANGED vars
    BY <1>1 DEF vars, SocketInv, TypeOK, Goroutines, OnTheWay, Handed
  <1> QED
    BY <1>1, QuietKeeps, StartReportKeeps, ReportKeeps, ReceiveKeeps,
       SendMessageKeeps DEF Next, Handler, Forwarder

LEMMA SocketInvariant == Spec => []SocketInv
  BY SocketInit, SocketPreserved, PTL DEF Spec
-----------------------------------------------------------------------------
\* Every variable keeps its type, and the channel its bound.
THEOREM SocketTyped == Spec => []TypeOK
  BY SocketInvariant, PTL DEF SocketInv

\* Progress reaches the client in order, none twice, and while it reads along
\* none is missing (ForwardProgress, ProgressReporter).
THEOREM ProgressKeepsOrder == Spec => []ProgressInOrder
  <1>1. ASSUME SocketInv PROVE ProgressInOrder
    <2>1. /\ Handed \in Int /\ Len(channel) \in Nat /\ Len(received) \in Nat
      BY <1>1 DEF SocketInv, TypeOK, Handed
    <2>2. /\ \A i \in DOMAIN received : received[i] = i
          /\ Len(received) <= Handed
      BY <1>1, <2>1 DEF SocketInv, OnTheWay
    <2>3. ASSUME conn = "open"
          PROVE  Len(received) + Len(channel) <= Handed
      BY <1>1, <2>1, <2>3 DEF SocketInv, OnTheWay
    <2>4. ASSUME conn = "open", NEW m \in Len(received) + 1 .. Handed
          PROVE  m \in sending \/ \E i \in DOMAIN channel : channel[i] = m
      <3> DEFINE k == Handed - Len(channel)
      <3>1. CASE m > k
        <4>1. m - k \in DOMAIN channel
          BY <1>1, <2>1, <2>4, <3>1 DEF SocketInv, TypeOK
        <4>2. channel[m - k] = k + (m - k)
          BY <1>1, <4>1 DEF SocketInv, OnTheWay
        <4>3. channel[m - k] = m
          BY <2>1, <4>2
        <4> QED
          BY <4>1, <4>3
      <3>2. CASE m <= k
        <4>1. sending = {k} /\ m = k
          BY <1>1, <2>1, <2>4, <3>2 DEF SocketInv, OnTheWay
        <4> QED
          BY <4>1
      <3> QED
        BY <2>1, <3>1, <3>2
    <2> QED
      BY <2>2, <2>3, <2>4 DEF ProgressInOrder
  <1> QED
    BY <1>1, SocketInvariant, PTL

\* Two writers meet, and a process may end of it, only after the service call
\* failed (RespondFailure beside ForwardProgress).
THEOREM TwoWritersNeedFailure == Spec => []TwoWritersOnlyOnFailure
  <1>1. SocketInv => TwoWritersOnlyOnFailure
    BY DEF SocketInv, Goroutines, TwoWritersOnlyOnFailure
  <1> QED
    BY <1>1, SocketInvariant, PTL
=============================================================================
