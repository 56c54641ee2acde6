------------------------- MODULE UdpReceiverProofs --------------------------
(***************************************************************************)
(* Proofs about UdpReceiver: the start/stop protocol around the datagram   *)
(* handler, for any requests, peers and table size.  The argument is the   *)
(* invariant of DownloadProofs; here the steps of this server are shown to *)
(* be steps that it allows.                                                *)
(***************************************************************************)
EXTENDS UdpReceiver, UdpSessionProofs, DownloadProofs

\* The thread drives the session table as NextSession allows, or leaves it.
LEMMA SessionStep ==
  ASSUME [Next]_vars
  PROVE  [NextSession]_sessionVars
<1>1. CASE UNCHANGED vars
  BY <1>1 DEF vars
<1>2. CASE Client
  BY <1>2 DEF Client
<1>3. CASE Thread
  <2>1. CASE Recv
    <3>1. PICK src \in Senders(Current) : udp_received(src)
      BY <2>1 DEF Recv
    <3>2. src \in Addrs
      BY DEF Senders, Addrs
    <3> QED BY <3>1, <3>2 DEF NextSession
  <2>2. CASE SendReturns
    BY <2>2 DEF SendReturns, NextSession
  <2> QED BY <1>3, <2>1, <2>2 DEF Thread
<1> QED BY <1>1, <1>2, <1>3 DEF Next

\* Every run of the server is a run of the datagram handler, so what is proved
\* of SessionSpec (the counters, the losses, the jitter, the slots) holds of a
\* server that is started and stopped at any time.
THEOREM ServerRunsSessions == Spec => SessionSpec
<1>1. Init => InitSessions
  BY DEF Init
<1>2. [Next]_vars => [NextSession]_sessionVars
  BY SessionStep
<1> QED BY <1>1, <1>2, PTL DEF Spec, SessionSpec
-----------------------------------------------------------------------------
\* Every step of the thread is one that the protocol allows.
LEMMA ThreadShape ==
  ASSUME TypeOK, Thread
  PROVE  ThreadStep
<1>1. notice' \in {"none", "STARTED", "FINISHED", "ERROR"}
  BY NextTypeOK, SessionStep DEF TypeOK, Next, SessionTypeOK
<1>2. ClientWaits
  BY DEF Thread
<1>3. CASE Recv \/ SendReturns
  <2>1. InSession /\ InSession' /\ UNCHANGED <<sem, running, stop, cb, req>>
    BY <1>3 DEF Recv, SendReturns, InSession, Continue, sharedVars
  <2>2. PICK e : /\ e = IF notice' = "none" THEN {} ELSE {notice'}
                 /\ call' = Invoked(e)
    BY <1>3 DEF Recv, SendReturns, Notify
  <2>3. e \in SUBSET Events
    BY <1>1, <2>2 DEF Events
  <2> QED BY <1>2, <2>1, <2>2, <2>3 DEF ThreadStep, ThreadMoves, Calls
<1>4. CASE ServerStep
  <2>1. CASE Setup
    BY <1>2, <2>1, CommonSteps DEF Setup
  <2>2. CASE SetupFails \/ RecvFails
    BY <1>2, <2>2, CommonSteps DEF SetupFails, RecvFails, InSession
  <2> QED BY <1>2, <1>4, <2>1, <2>2, CommonSteps DEF ServerStep
<1> QED BY <1>3, <1>4 DEF Thread

\* The thread's own state stays well typed.
LEMMA ThreadTypes ==
  ASSUME TypeOK, Thread
  PROVE  /\ pc' \in ThreadPoints
         /\ open' \in SUBSET Socks
         /\ revents' \in [Socks -> {"none", "in", "err"}]
<1> USE DEF ThreadPoints, Socks
<1>1. /\ open \in SUBSET Socks
      /\ revents \in [Socks -> {"none", "in", "err"}]
      /\ pc \in ThreadPoints
  BY DEF TypeOK
<1>2. NoEvents \in [Socks -> {"none", "in", "err"}]
  BY <1>1 DEF NoEvents
<1>3. CASE Recv
  <2>1. revents' \in [Socks -> {"none", "in", "err"}]
    BY <1>1, <1>3 DEF Recv
  <2> QED BY <1>1, <1>3, <2>1 DEF Recv, Continue
<1>4. CASE SendReturns
  BY <1>1, <1>4 DEF SendReturns, Continue
<1>5. CASE Setup
  BY <1>1, <1>5 DEF Setup, OpenSocket, BindSocket
<1>6. CASE SetupFails \/ PollFails \/ RecvFails
  BY <1>1, <1>2, <1>6 DEF SetupFails, PollFails, RecvFails, Error
<1>7. CASE PollReady(Socks)
  <2>1. PICK ready \in [Socks -> {"none", "in", "err"}] :
          revents' = [i \in DOMAIN revents |-> IF i \in Socks THEN ready[i] ELSE "none"]
    BY <1>7 DEF PollReady
  <2>2. revents' \in [Socks -> {"none", "in", "err"}]
    BY <1>1, <2>1
  <2> QED BY <1>1, <1>7, <2>2 DEF PollReady
<1>8. CASE ThreadStart \/ TakeSem \/ PollStopped \/ PollTimeout \/ Close \/ SessionReturns
  BY <1>1, <1>8 DEF ThreadStart, TakeSem, PollStopped, PollTimeout, Close, SessionReturns
<1> QED BY <1>3, <1>4, <1>5, <1>6, <1>7, <1>8 DEF Thread, ServerStep

\* The invariant: the protocol, and the types of what this server adds to it.
ServerInv == Protocol /\ TypeOK

LEMMA InitServer == Init => ServerInv
<1> SUFFICES ASSUME Init
             PROVE  ServerInv
  OBVIOUS
<1>1. SessionTypeOK
  BY InitTypeOK DEF Init
<1>2. Protocol
  BY InitProtocol DEF Init
<1> QED BY <1>1, <1>2 DEF Init, InitDownload, ServerInv, TypeOK, Protocol, ThreadPoints

LEMMA NextServer == ServerInv /\ [Next]_vars => ServerInv'
<1> SUFFICES ASSUME ServerInv, [Next]_vars
             PROVE  ServerInv'
  OBVIOUS
<1>1. SessionTypeOK'
  BY NextTypeOK, SessionStep DEF ServerInv, TypeOK
<1>2. CASE Thread
  BY <1>1, <1>2, ThreadShape, ThreadTypes, ThreadProtocol
     DEF ServerInv, TypeOK, Protocol
<1>3. CASE Client
  <2>1. Protocol'
    BY <1>3, ClientProtocol DEF Client, ServerInv
  <2> QED BY <1>1, <1>3, <2>1 DEF Client, ClientStep, ServerInv, TypeOK, Protocol
<1>4. CASE UNCHANGED vars
  <2>1. Protocol'
    BY <1>4, StutterProtocol DEF vars, ServerInv
  <2> QED BY <1>1, <1>4, <2>1 DEF vars, downloadVars, serverVars, ServerInv, TypeOK,
          Protocol
<1> QED BY <1>2, <1>3, <1>4 DEF Next

LEMMA AlwaysServer == Spec => []ServerInv
<1> QED BY InitServer, NextServer, PTL DEF Spec
-----------------------------------------------------------------------------
\* Type correctness of the server and of the task that uses it.
THEOREM TypeCorrect == Spec => []TypeOK
<1>1. ServerInv => TypeOK
  BY DEF ServerInv
<1> QED BY <1>1, AlwaysServer, PTL

\* The running flag is set exactly while there is a server: no later download
\* is refused for ever, and no two requests share a server.
THEOREM RunningAlwaysMeansServing == Spec => []RunningMeansServing
<1>1. ServerInv => RunningMeansServing
  BY ProtocolImplies DEF ServerInv
<1> QED BY <1>1, AlwaysServer, PTL

\* No start is lost in the semaphore.
THEOREM GiveNeverLost == Spec => []GiveNotLost
<1>1. ServerInv => GiveNotLost
  BY ProtocolImplies DEF ServerInv
<1> QED BY <1>1, AlwaysServer, PTL

\* A server has the parameters of one request.
THEOREM OneRequestAlways == Spec => []OneRequestPerServer
<1>1. ServerInv => OneRequestPerServer
  BY ProtocolImplies DEF ServerInv
<1> QED BY <1>1, AlwaysServer, PTL

\* No callback after zperf_udp_download_stop has returned.
THEOREM NeverCalledAfterStop == Spec => []NoCallAfterStop
<1>1. ServerInv => NoCallAfterStop
  BY ProtocolImplies DEF ServerInv
<1> QED BY <1>1, AlwaysServer, PTL

\* A server is ended by a stop of its own only.
THEOREM StopFlagAlwaysFresh == Spec => []StopFlagFresh
<1>1. ServerInv => StopFlagFresh
  BY ProtocolImplies DEF ServerInv
<1> QED BY <1>1, AlwaysServer, PTL

\* A server that has ended, by a stop or by an error, has closed its sockets.
THEOREM SocketsAlwaysReleased == Spec => []SocketsReleased
<1>1. ServerInv => SocketsReleased
  BY ProtocolImplies DEF ServerInv
<1> QED BY <1>1, AlwaysServer, PTL
-----------------------------------------------------------------------------
(***************************************************************************)
(* The UDP server implements the safety part of the abstract server: one   *)
(* request at a time, callbacks for the owner only until it stops, a new   *)
(* start only after the old server has released its sockets.               *)
(***************************************************************************)
THEOREM RefinesServer == Spec => Abstract!ServerSafety
<1> USE DEF absStatus, absOwner, Abstract!ServerNext, Abstract!serverVars
<1>1. Init => Abstract!ServerInit
  BY DEF Init, InitSessions, InitDownload, userStatus, userOwner, Abstract!ServerInit
<1>2. ASSUME ServerInv, [Next]_vars
      PROVE  [Abstract!ServerNext]_(Abstract!serverVars)
  <2>1. CASE UNCHANGED vars
    BY <2>1 DEF vars, sessionVars, downloadVars, serverVars, sharedVars, clientVars,
       userStatus, userOwner
  <2>2. CASE Thread
    <3>1. \/ UNCHANGED <<userStatus, userOwner>>
          \/ /\ userStatus \in {"running", "stopping"}
             /\ userStatus' = "idle" /\ userOwner' = NoReq
      BY <1>2, <2>2, ThreadShape, ThreadStatus DEF ServerInv
    <3>2. ~trapped
      BY <2>2 DEF Thread
    <3>3. userStatus # "dead"
      BY DEF userStatus
    <3> QED BY <3>1, <3>2, <3>3 DEF Abstract!End, Abstract!Die
  <2>3. CASE Client
    <3>1. \/ UNCHANGED <<userStatus, userOwner>>
          \/ /\ userStatus = "idle" /\ userStatus' = "running"
             /\ userOwner' \in Requests
          \/ /\ userStatus = "running" /\ userStatus' = "stopping"
             /\ userOwner' = NoReq
      BY <1>2, <2>3, ClientStatus DEF Client, ServerInv
    <3>2. ~trapped /\ ~trapped'
      BY <2>3 DEF Client, sessionVars
    <3> QED BY <3>1, <3>2 DEF Abstract!Start, Abstract!Stop
  <2> QED BY <1>2, <2>1, <2>2, <2>3 DEF Next
<1> QED BY <1>1, <1>2, AlwaysServer, PTL DEF Spec, Abstract!ServerSafety
=============================================================================
