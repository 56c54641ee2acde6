------------------------- MODULE TcpReceiverProofs --------------------------
(***************************************************************************)
(* Proofs about TcpReceiver, for any requests, peers, table size and       *)
(* lengths: the start/stop protocol (the invariant of DownloadProofs) and  *)
(* the abstract server; then, from the invariant TcpInv, its types, that   *)
(* connections find slots, that a session is a connection, and that no     *)
(* session loses its connection while the server serves.                   *)
(***************************************************************************)
EXTENDS TcpReceiver, DownloadProofs, WellFoundedInduction, FiniteSetTheorems

USE SessionMaxAssumption, AddrAssumption, DataAssumption

\* The steps of the thread at a socket whose event it handles.
Handling == Accept \/ Drop \/ (\E len \in Lens : RecvData(len)) \/ RecvEnd

\* tcp_received calls the callback, if at all, with events of its own.
LEMMA ReceivedCalls ==
  ASSUME NEW addr, NEW len, NEW before \in SUBSET Events,
         tcp_received(addr, len, before)
  PROVE  \E e \in SUBSET Events : call' = Invoked(e)
<1> DEFINE slot == get_session(sessions, addr)
           begun == IF sessions[slot].state = "ONGOING" THEN {} ELSE {"STARTED"}
           ended == IF len = 0 THEN {"FINISHED"} ELSE {}
<1>1. before \cup begun \cup ended \in SUBSET Events
  BY DEF Events
<1>2. call' = Invoked(before) \/ call' = Invoked(before \cup begun \cup ended)
  BY DEF tcp_received
<1> QED BY <1>1, <1>2

\* Every step of the thread is one that the protocol allows.
LEMMA ThreadShape ==
  ASSUME tcp_receiver_thread
  PROVE  ThreadStep
<1>1. CASE Handling
  <2>1. /\ InSession /\ InSession' /\ ClientWaits
        /\ UNCHANGED <<sem, running, stop, cb, req>>
    BY <1>1 DEF Handling, Accept, Drop, RecvData, RecvEnd, Handled, InSession, Continue,
       sharedVars
  <2>2. Calls
    <3>1. CASE Accept \/ Drop
      BY <3>1 DEF Accept, Drop, Calls
    <3>2. CASE \E len \in Lens : RecvData(len)
      <4>1. PICK len \in Lens : tcp_received(conn[Current], len, {})
        BY <3>2 DEF RecvData
      <4> QED BY <2>1, <4>1, ReceivedCalls DEF Calls
    <3>3. CASE RecvEnd
      <4>1. PICK before \in {{}, {"ERROR"}} : tcp_received(conn[Current], 0, before)
        BY <3>3 DEF RecvEnd
      <4>2. before \in SUBSET Events
        BY DEF Events
      <4> QED BY <2>1, <4>1, <4>2, ReceivedCalls DEF Calls
    <3> QED BY <1>1, <3>1, <3>2, <3>3 DEF Handling
  <2> QED BY <2>1, <2>2 DEF ThreadStep, ThreadMoves
<1>2. CASE ServerStep
  <2>1. ClientWaits
    BY <1>2 DEF ServerStep
  <2>2. CASE Setup
    BY <2>1, <2>2, CommonSteps DEF Setup, tcp_bind_listen_connection
  <2>3. CASE SetupFails \/ LoopFails
    BY <2>1, <2>3, CommonSteps DEF SetupFails, LoopFails, InSession
  <2> QED BY <1>2, <2>1, <2>2, <2>3, CommonSteps DEF ServerStep
<1>3. CASE CloseSocket
  BY <1>3, CommonSteps DEF CloseSocket
<1>4. CASE (ThreadStart \/ TakeSem \/ SessionReturns) /\ ClientWaits
  BY <1>4, CommonSteps
<1> QED BY <1>1, <1>2, <1>3, <1>4 DEF tcp_receiver_thread, tcp_server_session, Handling

\* The application's steps are those of the shared API.
LEMMA ClientShape ==
  ASSUME zperf_tcp_download \/ zperf_tcp_download_stop
  PROVE  ClientStep(DownloadCall \/ StopCall) /\ UNCHANGED tcpVars
  BY DEF zperf_tcp_download, zperf_tcp_download_stop, ClientStep
-----------------------------------------------------------------------------
LEMMA AlwaysProtocol == Spec => []Protocol
<1>1. Init => Protocol
  BY InitProtocol DEF Init
<1>2. Protocol /\ [Next]_vars => Protocol'
  <2> SUFFICES ASSUME Protocol, [Next]_vars
               PROVE  Protocol'
    OBVIOUS
  <2>1. CASE tcp_receiver_thread
    BY <2>1, ThreadShape, ThreadProtocol
  <2>2. CASE zperf_tcp_download \/ zperf_tcp_download_stop
    BY <2>2, ClientShape, ClientProtocol
  <2>3. CASE UNCHANGED vars
    BY <2>3, StutterProtocol DEF vars
  <2> QED BY <2>1, <2>2, <2>3 DEF Next
<1> QED BY <1>1, <1>2, PTL DEF Spec

(***************************************************************************)
(* What is checked of the UDP server's start and stop holds of the TCP     *)
(* server as well: the flag means what it says, no start is lost, a server *)
(* has one request's parameters, no callback follows a stop, sockets are   *)
(* released and a stop flag is never a stale one.                          *)
(***************************************************************************)
THEOREM TcpStartStop ==
  Spec => [](/\ RunningMeansServing /\ GiveNotLost /\ OneRequestPerServer
             /\ NoCallAfterStop /\ SocketsReleased /\ StopFlagFresh)
<1>1. Protocol => /\ RunningMeansServing /\ GiveNotLost /\ OneRequestPerServer
                  /\ NoCallAfterStop /\ SocketsReleased /\ StopFlagFresh
  BY ProtocolImplies
<1> QED BY <1>1, AlwaysProtocol, PTL

\* The TCP server implements the abstract server.
THEOREM TcpRefinesServer == Spec => TcpImplementsServer
<1> USE DEF Abstract!ServerNext, Abstract!serverVars
<1>1. Init => Abstract!ServerInit
  BY DEF Init, InitDownload, userStatus, userOwner, Abstract!ServerInit
<1>2. ASSUME Protocol, [Next]_vars
      PROVE  [Abstract!ServerNext]_(Abstract!serverVars)
  <2>1. CASE UNCHANGED vars
    BY <2>1 DEF vars, downloadVars, serverVars, sharedVars, clientVars, userStatus,
       userOwner
  <2>2. CASE tcp_receiver_thread
    BY <1>2, <2>2, ThreadShape, ThreadStatus DEF Abstract!End
  <2>3. CASE zperf_tcp_download \/ zperf_tcp_download_stop
    BY <1>2, <2>3, ClientShape, ClientStatus DEF Abstract!Start, Abstract!Stop
  <2> QED BY <1>2, <2>1, <2>2, <2>3 DEF Next
<1> QED BY <1>1, <1>2, AlwaysProtocol, PTL DEF Spec, TcpImplementsServer,
        Abstract!ServerSafety
-----------------------------------------------------------------------------
(***************************************************************************)
(* The connections and their sessions.  TcpInv is the inductive invariant: *)
(* besides the types it says that a peer has one slot, that an event the   *)
(* loop has still to handle is one of an open socket, that a peer is in    *)
(* two connections only between its reset and the end of the server, and   *)
(* that a connection accepted without orphans about meets none later.      *)
(***************************************************************************)

\* A slot belongs to one peer, and an ongoing session has a peer and has not
\* reached the bound yet.
PeerSlots ==
  /\ \A s, t \in Slots :
       sessions[s].addr = sessions[t].addr /\ sessions[s].addr # NoAddr => s = t
  /\ \A s \in Slots : sessions[s].state = "ONGOING" =>
       sessions[s].addr # NoAddr /\ sessions[s].counter <= MaxCount

\* Events are handled before the next zsock_poll, and are those of open sockets.
EventsAhead == \A i \in Socks : revents[i] # "none" => pc = "recv" /\ i \in open

\* Two connections of one peer: the older one has been reset, and the error is
\* still ahead of the loop, or has ended the server.
Reconnected ==
  \A i, j \in Conns :
    i # j /\ conn[i] = conn[j] /\ conn[i] # NoAddr =>
      \/ pc = "close"
      \/ /\ pc = "recv"
         /\ \/ revents[i] = "err" /\ revents[j] = "none"
            \/ revents[j] = "err" /\ revents[i] = "none"

\* While there is a connection that met no orphan, there is none.
CleanNoOrphans ==
  \A i \in Conns : conn[i] # NoAddr /\ got[i].clean => pc = "close" \/ Orphans = {}

TcpInv ==
  /\ TcpTypeOK
  /\ PeerSlots
  /\ EventsAhead
  /\ Reconnected
  /\ CleanNoOrphans
  /\ SessionIsConnection

\* The scan of a table finds the first entry of any non-empty set.
LEMMA FirstMember ==
  ASSUME NEW S \in SUBSET Nat, S # {}
  PROVE  First(S) \in S
<1> DEFINE R == OpToRel(<, Nat)
<1>1. \E x \in S : \A y \in S : ~(<<y, x>> \in R)
  <2>1. IsWellFoundedOn(R, Nat)
    BY NatLessThanWellFounded
  <2> HIDE DEF R
  <2> QED BY <2>1, WFMin, Zenon
<1>2. \A x, y \in Nat : <<y, x>> \in R <=> y < x
  BY DEF OpToRel
<1> HIDE DEF R
<1>3. PICK x \in S : \A y \in S : ~(<<y, x>> \in R)
  BY <1>1
<1>4. \A y \in S : ~(y < x)
  BY <1>2, <1>3, Zenon
<1>5. \A y \in S : x <= y
  BY <1>4
<1> QED BY <1>5 DEF First

\* get_session returns the slot of the peer, else one that is not ongoing, and
\* none only if every slot is another peer's and ongoing.
LEMMA Lookup ==
  ASSUME NEW addr, sessions \in [Slots -> TcpSessionSet]
  PROVE  LET g == get_session(sessions, addr)
         IN  \/ /\ g = NoSlot
                /\ \A s \in Slots : sessions[s].addr # addr /\ sessions[s].state = "ONGOING"
             \/ /\ g \in Slots
                /\ g # NoSlot
                /\ \/ sessions[g].addr = addr
                   \/ /\ \A s \in Slots : sessions[s].addr # addr
                      /\ sessions[g].state # "ONGOING"
<1>1. Matching(sessions, addr) \in SUBSET Nat /\ Free(sessions) \in SUBSET Nat
  BY DEF Matching, Free, Slots
<1>2. CASE Matching(sessions, addr) # {}
  <2>1. First(Matching(sessions, addr)) \in Matching(sessions, addr)
    BY <1>1, <1>2, FirstMember
  <2> QED BY <1>2, <2>1 DEF get_session, Matching, Slots, NoSlot
<1>3. CASE Matching(sessions, addr) = {} /\ Free(sessions) # {}
  <2>1. First(Free(sessions)) \in Free(sessions)
    BY <1>1, <1>3, FirstMember
  <2> QED BY <1>3, <2>1 DEF get_session, Matching, Free, Slots, NoSlot
<1>4. CASE Matching(sessions, addr) = {} /\ Free(sessions) = {}
  <2>1. \A s \in Slots : sessions[s].state \in {"NULL", "ONGOING", "COMPLETED"}
    BY DEF TcpSessionSet, States
  <2> QED BY <1>4, <2>1 DEF get_session, Matching, Free
<1> QED BY <1>2, <1>3, <1>4

\* The session in a slot after tcp_received for addr.
After(s, addr, len) == Counted(Begun([s EXCEPT !.addr = addr]), len)

LEMMA AfterFields ==
  ASSUME NEW s \in TcpSessionSet, NEW addr \in Addrs, NEW len \in Nat,
         s.state = "ONGOING" => s.counter <= MaxCount,
         s.state = "ONGOING" /\ len # 0 => s.counter < MaxCount
  PROVE  /\ After(s, addr, len) \in TcpSessionSet
         /\ After(s, addr, len).addr = addr
         /\ After(s, addr, len).state = IF len = 0 THEN "COMPLETED" ELSE "ONGOING"
         /\ After(s, addr, len).length
              = (IF s.state = "ONGOING" THEN s.length ELSE 0) + len
         /\ len # 0 => After(s, addr, len).counter <= MaxCount
<1> DEFINE c == [s EXCEPT !.addr = addr]
           b == Begun(c)
<1>1. c \in TcpSessionSet /\ c.addr = addr /\ c.state = s.state /\ c.length = s.length
      /\ c.counter = s.counter
  BY DEF TcpSessionSet
<1> HIDE DEF c
<1>2. /\ b \in TcpSessionSet /\ b.addr = addr /\ b.state = "ONGOING"
      /\ b.length = IF s.state = "ONGOING" THEN s.length ELSE 0
      /\ b.counter <= MaxCount
      /\ len # 0 => b.counter < MaxCount
  BY <1>1 DEF Begun, zperf_reset_session_stats, TcpSessionSet, States
<1> HIDE DEF b
<1>3. /\ Counted(b, len) \in TcpSessionSet
      /\ Counted(b, len).addr = b.addr
      /\ Counted(b, len).state = IF len = 0 THEN "COMPLETED" ELSE "ONGOING"
      /\ Counted(b, len).length = b.length + len
      /\ Counted(b, len).counter = b.counter + 1
      /\ b.counter \in Nat
  <2> DEFINE n == b.counter + 1
             l == b.length + len
             st == IF len = 0 THEN "COMPLETED" ELSE b.state
  <2>1. n \in 0 .. (MaxCount + 1) /\ l \in Nat /\ st \in States /\ b.counter \in Nat
    BY <1>2 DEF TcpSessionSet, States
  <2>2. Counted(b, len) = [b EXCEPT !.counter = n, !.length = l, !.state = st]
    BY DEF Counted
  <2> HIDE DEF n, l, st
  <2>3. /\ Counted(b, len) \in TcpSessionSet
        /\ Counted(b, len).addr = b.addr
        /\ Counted(b, len).state = st
        /\ Counted(b, len).length = l
        /\ Counted(b, len).counter = n
    BY <1>2, <2>1, <2>2 DEF TcpSessionSet
  <2> QED BY <1>2, <2>1, <2>3 DEF n, l, st
<1>4. After(s, addr, len) = Counted(b, len)
  BY DEF After, b, c
<1> QED BY <1>2, <1>3, <1>4

\* What tcp_received does to the table.
LEMMA Received ==
  ASSUME NEW addr, NEW len, NEW before, sessions \in [Slots -> TcpSessionSet],
         tcp_received(addr, len, before)
  PROVE  \/ /\ UNCHANGED sessions
            /\ \A s \in Slots : sessions[s].addr # addr /\ sessions[s].state = "ONGOING"
         \/ \E slot \in Slots :
              /\ \/ sessions[slot].addr = addr
                 \/ /\ \A s \in Slots : sessions[s].addr # addr
                    /\ sessions[slot].state # "ONGOING"
              /\ sessions' = [sessions EXCEPT ![slot] = After(sessions[slot], addr, len)]
<1> DEFINE g == get_session(sessions, addr)
<1>1. CASE g = NoSlot
  BY <1>1, Lookup DEF tcp_received
<1>2. CASE g # NoSlot
  <2>1. /\ g \in Slots
        /\ \/ sessions[g].addr = addr
           \/ /\ \A s \in Slots : sessions[s].addr # addr
              /\ sessions[g].state # "ONGOING"
    BY <1>2, Lookup
  <2>2. sessions' = [Claimed(sessions, addr) EXCEPT ![g] = Counted(Begun(@), len)]
    BY <1>2 DEF tcp_received
  <2>3. Claimed(sessions, addr) = [sessions EXCEPT ![g].addr = addr]
    BY <1>2 DEF Claimed
  <2> HIDE DEF g
  <2>4. sessions' = [sessions EXCEPT ![g] = After(sessions[g], addr, len)]
    BY <2>1, <2>2, <2>3 DEF After
  <2> QED BY <2>1, <2>4
<1> QED BY <1>1, <1>2
-----------------------------------------------------------------------------
(***************************************************************************)
(* What the steps do to the state that TcpInv is about.                    *)
(***************************************************************************)

\* Sessions and connections stay as they are.
Quiet ==
  /\ UNCHANGED tcpVars
  /\ pc' \in TcpPoints
  /\ \/ UNCHANGED <<pc, open, revents>>
     \/ /\ pc \notin {"recv", "close"} /\ pc' # "recv"
        /\ UNCHANGED revents
        /\ open' \in SUBSET Socks
        /\ \A i \in Conns : i \in open' <=> i \in open
        /\ open \subseteq open'
     \/ pc' = "close" /\ revents' = [i \in Socks |-> "none"] /\ UNCHANGED open
     \/ /\ pc = "poll" /\ pc' = "recv" /\ UNCHANGED open
        /\ revents' \in [Socks -> {"none", "in", "err"}]
        /\ \A i \in Socks : revents'[i] # "none" => i \in open
     \/ pc = "close" /\ open = {} /\ pc' = "take" /\ UNCHANGED <<open, revents>>
     \/ Drop

LEMMA SockSets ==
  /\ Listeners \subseteq Nat /\ Conns \subseteq Nat /\ Socks \subseteq Nat
  /\ \A i \in Listeners : i \notin Conns
  /\ Listeners \subseteq Socks /\ Conns \subseteq Socks
  /\ 0 \in Listeners /\ 1 \in Listeners
  BY DEF Listeners, Conns, Socks

LEMMA StepShape ==
  ASSUME TcpTypeOK, [Next]_vars
  PROVE  \/ Quiet \/ Accept \/ (\E len \in Lens : RecvData(len)) \/ RecvEnd
         \/ CloseSocket
<1> USE DEF Quiet
<1>0. pc \in TcpPoints /\ revents \in [Socks -> {"none", "in", "err"}]
      /\ open \in SUBSET Socks
  BY DEF TcpTypeOK
<1>1. CASE UNCHANGED vars
  BY <1>0, <1>1 DEF vars, downloadVars, serverVars
<1>2. CASE zperf_tcp_download \/ zperf_tcp_download_stop
  BY <1>0, <1>2 DEF zperf_tcp_download, zperf_tcp_download_stop, ClientStep
<1>3. CASE (ThreadStart \/ TakeSem \/ SessionReturns) /\ UNCHANGED tcpVars
  BY <1>0, <1>3 DEF ThreadStart, TakeSem, SessionReturns, TcpPoints
<1>4. CASE ServerStep
  <2>1. UNCHANGED tcpVars
    BY <1>4 DEF ServerStep
  <2>2. CASE Setup
    <3>1. /\ pc \notin {"recv", "close"} /\ pc' # "recv" /\ pc' \in TcpPoints
          /\ UNCHANGED revents
          /\ open' = open \/ \E i \in Listeners : open' = open \cup {i}
      BY <2>2, SockSets DEF Setup, tcp_bind_listen_connection, OpenSocket, BindSocket,
         TcpPoints
    <3>2. /\ open' \in SUBSET Socks /\ open \subseteq open'
          /\ \A i \in Conns : i \in open' <=> i \in open
      BY <1>0, <3>1, SockSets
    <3> QED BY <2>1, <3>1, <3>2
  <2>3. CASE SetupFails \/ PollFails \/ LoopFails
    <3>1. DOMAIN revents = Socks
      BY <1>0
    <3> QED BY <2>1, <2>3, <3>1 DEF SetupFails, PollFails, LoopFails, Error, NoEvents,
            TcpPoints
  <2>4. CASE PollStopped \/ PollTimeout
    BY <1>0, <2>1, <2>4 DEF PollStopped, PollTimeout, TcpPoints
  <2>5. CASE PollReady(open)
    <3>1. PICK ready \in [open -> {"none", "in", "err"}] :
            revents' = [i \in DOMAIN revents |-> IF i \in open THEN ready[i] ELSE "none"]
      BY <2>5 DEF PollReady
    <3>2. /\ revents' \in [Socks -> {"none", "in", "err"}]
          /\ \A i \in Socks : revents'[i] # "none" => i \in open
      BY <1>0, <3>1
    <3> QED BY <2>1, <2>5, <3>2 DEF PollReady, TcpPoints
  <2> QED BY <1>4, <2>2, <2>3, <2>4, <2>5 DEF ServerStep
<1>5. CASE Drop
  BY <1>0, <1>5 DEF Drop, Handled, Continue, TcpPoints
<1> QED BY <1>1, <1>2, <1>3, <1>4, <1>5 DEF Next, tcp_receiver_thread,
        tcp_server_session

\* An event has been handled; the loop leaves for zsock_poll only with none left.
LEMMA HandledShape ==
  ASSUME TcpTypeOK, Current \in Socks, Handled
  PROVE  /\ revents' = [revents EXCEPT ![Current] = "none"]
         /\ revents' \in [Socks -> {"none", "in", "err"}]
         /\ pc' \in {"poll", "recv"}
         /\ pc' \in TcpPoints
         /\ pc' = "poll" => \A i \in Socks : revents'[i] = "none"
<1>1. /\ revents' = [revents EXCEPT ![Current] = "none"]
      /\ pc' = Continue(revents')
  BY DEF Handled
<1>2. revents \in [Socks -> {"none", "in", "err"}]
  BY DEF TcpTypeOK
<1>3. revents' \in [Socks -> {"none", "in", "err"}]
  BY <1>1, <1>2
<1> QED BY <1>1, <1>3 DEF Continue, TcpPoints

\* A session without a connection before a step is one after it.
LEMMA NoNewOrphans ==
  ASSUME TcpTypeOK, PeerSlots, EventsAhead, Reconnected,
         Quiet \/ Accept \/ (\E len \in Lens : RecvData(len)) \/ RecvEnd
  PROVE  Orphans' \subseteq Orphans
<1>0. /\ sessions \in [Slots -> TcpSessionSet]
      /\ conn \in [Conns -> Addrs \cup {NoAddr}]
      /\ \A i \in Conns : i \in open <=> conn[i] # NoAddr
  BY DEF TcpTypeOK
<1>1. CASE Quiet
  BY <1>1 DEF Quiet, tcpVars, Orphans
<1>2. CASE Accept
  <2>1. PICK src : conn' = [conn EXCEPT ![First(Conns \ open)] = src]
    BY <1>2 DEF Accept
  <2>2. Conns \ open \in SUBSET Nat /\ Conns \ open # {}
    BY <1>2, SockSets DEF Accept
  <2>3. First(Conns \ open) \in Conns \ open
    BY <2>2, FirstMember
  <2>4. \A i \in Conns : conn[i] # NoAddr => conn'[i] = conn[i]
    BY <1>0, <2>1, <2>3
  <2>5. UNCHANGED sessions
    BY <1>2 DEF Accept
  <2> QED BY <2>4, <2>5 DEF Orphans, PeerSlots
<1>3. ASSUME NEW len \in Nat, NEW before, pc = "recv", Current \in Conns,
             revents[Current] = "in", tcp_received(conn[Current], len, before),
             \A s \in Slots : sessions[s].state = "ONGOING" /\ len # 0
                /\ sessions[s].addr = conn[Current] => sessions[s].counter < MaxCount,
             conn' = IF len = 0 THEN [conn EXCEPT ![Current] = NoAddr] ELSE conn
      PROVE  Orphans' \subseteq Orphans
  <2> DEFINE k == Current
             addr == conn[k]
  <2>1. addr \in Addrs /\ k \in Conns
    BY <1>0, <1>3, SockSets DEF EventsAhead
  <2> HIDE DEF k, addr
  <2>2. CASE /\ UNCHANGED sessions
             /\ \A s \in Slots : sessions[s].addr # addr /\ sessions[s].state = "ONGOING"
    BY <1>0, <1>3, <2>1, <2>2 DEF Orphans, k, addr
  <2>3. ASSUME NEW slot \in Slots,
               \/ sessions[slot].addr = addr
               \/ /\ \A s \in Slots : sessions[s].addr # addr
                  /\ sessions[slot].state # "ONGOING",
               sessions' = [sessions EXCEPT ![slot] = After(sessions[slot], addr, len)]
        PROVE  Orphans' \subseteq Orphans
    <3> DEFINE new == After(sessions[slot], addr, len)
    <3>1. new.addr = addr /\ new.state = IF len = 0 THEN "COMPLETED" ELSE "ONGOING"
      BY <1>0, <1>3, <2>1, <2>3, AfterFields DEF PeerSlots, addr, k
    <3> HIDE DEF new
    <3>2. slot \notin Orphans'
      <4>1. sessions'[slot] = new
        BY <1>0, <2>3 DEF new
      <4>2. len # 0 => conn'[k] = addr
        BY <1>3 DEF addr, k
      <4> QED BY <2>1, <3>1, <4>1, <4>2 DEF Orphans
    <3>3. \A s \in Slots : s # slot => sessions'[s] = sessions[s] /\ sessions[s].addr # addr
      <4>1. addr # NoAddr
        BY <2>1 DEF Addrs
      <4> QED BY <1>0, <2>3, <4>1 DEF PeerSlots
    <3>4. \A i \in Conns : conn'[i] = conn[i] \/ conn[i] = addr
      BY <1>0, <1>3 DEF addr, k
    <3>5. Orphans = {s \in Slots : sessions[s].state = "ONGOING"
                        /\ \A i \in Conns : conn[i] # sessions[s].addr}
          /\ Orphans' = {s \in Slots : sessions'[s].state = "ONGOING"
                        /\ \A i \in Conns : conn'[i] # sessions'[s].addr}
      BY DEF Orphans
    <3> QED BY <3>2, <3>3, <3>4, <3>5
  <2> QED BY <1>0, <1>3, <2>2, <2>3, Received DEF addr, k
<1>4. CASE \E len \in Lens : RecvData(len)
  <2>1. PICK len \in Lens : RecvData(len)
    BY <1>4
  <2>2. len \in Nat /\ len # 0
    OBVIOUS
  <2> QED BY <1>3, <2>1, <2>2 DEF RecvData
<1>5. CASE RecvEnd
  <2>1. PICK before \in {{}, {"ERROR"}} : tcp_received(conn[Current], 0, before)
    BY <1>5 DEF RecvEnd
  <2> QED BY <1>3, <1>5, <2>1 DEF RecvEnd
<1> QED BY <1>1, <1>2, <1>4, <1>5
-----------------------------------------------------------------------------
(***************************************************************************)
(* TcpInv is inductive.                                                    *)
(***************************************************************************)
LEMMA QuietInv ==
  ASSUME TcpInv, SocketsReleased, Quiet, DownloadTypeOK'
  PROVE  TcpInv'
<1>0. /\ TcpTypeOK /\ PeerSlots /\ EventsAhead /\ Reconnected /\ CleanNoOrphans
      /\ SessionIsConnection
  BY DEF TcpInv
<1>1. UNCHANGED <<sessions, conn, got>> /\ pc' \in TcpPoints
  BY DEF Quiet, tcpVars
<1>2. Orphans' = Orphans
  BY <1>1 DEF Orphans
<1>3. PeerSlots' /\ SessionIsConnection'
  BY <1>0, <1>1 DEF PeerSlots, SessionIsConnection
<1>4. CASE UNCHANGED <<pc, open, revents>>
  BY <1>0, <1>1, <1>2, <1>3, <1>4 DEF TcpInv, TcpTypeOK, EventsAhead, Reconnected,
     CleanNoOrphans
<1>5. CASE /\ pc \notin {"recv", "close"} /\ pc' # "recv"
           /\ UNCHANGED revents
           /\ open' \in SUBSET Socks
           /\ \A i \in Conns : i \in open' <=> i \in open
           /\ open \subseteq open'
  BY <1>0, <1>1, <1>2, <1>3, <1>5 DEF TcpInv, TcpTypeOK, EventsAhead, Reconnected,
     CleanNoOrphans
<1>6. CASE pc' = "close" /\ revents' = [i \in Socks |-> "none"] /\ UNCHANGED open
  BY <1>0, <1>1, <1>2, <1>3, <1>6 DEF TcpInv, TcpTypeOK, EventsAhead, Reconnected,
     CleanNoOrphans
<1>7. CASE /\ pc = "poll" /\ pc' = "recv" /\ UNCHANGED open
           /\ revents' \in [Socks -> {"none", "in", "err"}]
           /\ \A i \in Socks : revents'[i] # "none" => i \in open
  BY <1>0, <1>1, <1>2, <1>3, <1>7 DEF TcpInv, TcpTypeOK, EventsAhead, Reconnected,
     CleanNoOrphans
<1>8. CASE pc = "close" /\ open = {} /\ pc' = "take" /\ UNCHANGED <<open, revents>>
  BY <1>0, <1>1, <1>2, <1>3, <1>8 DEF TcpInv, TcpTypeOK, EventsAhead, Reconnected,
     CleanNoOrphans
<1>9. CASE Drop
  <2>1. /\ pc = "recv" /\ Current \in Listeners /\ Handled /\ UNCHANGED open
        /\ Current \in Socks
    BY <1>9, SockSets DEF Drop
  <2> DEFINE k == Current
  <2>2. /\ revents' = [revents EXCEPT ![k] = "none"]
        /\ revents' \in [Socks -> {"none", "in", "err"}]
        /\ pc' \in {"poll", "recv"}
        /\ pc' = "poll" => \A i \in Socks : revents'[i] = "none"
    BY <1>0, <2>1, HandledShape
  <2>3. k \in Socks /\ k \notin Conns
    BY <2>1, SockSets
  <2> HIDE DEF k
  <2>4. revents \in [Socks -> {"none", "in", "err"}]
    BY <1>0 DEF TcpTypeOK
  <2>5. \A i \in Conns : revents'[i] = revents[i]
    BY <2>2, <2>3, <2>4, SockSets
  <2>6. \A i \in Socks : revents'[i] # "none" => revents[i] # "none" /\ pc' = "recv"
    BY <2>2, <2>3, <2>4
  <2>7. TcpTypeOK' /\ EventsAhead'
    BY <1>0, <1>1, <2>1, <2>2, <2>6 DEF TcpTypeOK, EventsAhead
  <2>8. Reconnected'
    BY <1>0, <1>1, <2>1, <2>2, <2>5, <2>6, SockSets DEF Reconnected
  <2>9. CleanNoOrphans'
    BY <1>0, <1>1, <1>2, <2>1 DEF CleanNoOrphans
  <2> QED BY <1>3, <2>7, <2>8, <2>9 DEF TcpInv
<1> QED BY <1>4, <1>5, <1>6, <1>7, <1>8, <1>9 DEF Quiet

LEMMA CloseInv ==
  ASSUME TcpInv, CloseSocket, DownloadTypeOK'
  PROVE  TcpInv'
<1>0. /\ TcpTypeOK /\ PeerSlots /\ EventsAhead /\ Reconnected /\ CleanNoOrphans
      /\ SessionIsConnection
  BY DEF TcpInv
<1> DEFINE k == First(open)
<1>1. /\ pc = "close" /\ pc' = "close" /\ open # {} /\ UNCHANGED <<sessions, revents>>
      /\ open' = open \ {k}
      /\ conn' = [i \in Conns |-> IF i = k THEN NoAddr ELSE conn[i]]
      /\ got' = [i \in Conns |-> IF i = k THEN NoBytes ELSE got[i]]
  BY DEF CloseSocket, Close, sharedVars
<1>2. k \in open
  BY <1>0, <1>1, SockSets, FirstMember DEF TcpTypeOK
<1> HIDE DEF k
<1>3. TcpTypeOK'
  BY <1>0, <1>1, <1>2, SockSets DEF TcpTypeOK, NoBytes
<1>4. PeerSlots'
  BY <1>0, <1>1 DEF PeerSlots
<1>5. EventsAhead' /\ Reconnected' /\ CleanNoOrphans'
  BY <1>0, <1>1 DEF EventsAhead, Reconnected, CleanNoOrphans
<1>6. SessionIsConnection'
  <2>1. \A i \in Conns : conn'[i] # NoAddr => conn'[i] = conn[i] /\ got'[i] = got[i]
    BY <1>1
  <2> QED BY <1>0, <1>1, <2>1 DEF SessionIsConnection
<1> QED BY <1>3, <1>4, <1>5, <1>6 DEF TcpInv

LEMMA AcceptInv ==
  ASSUME TcpInv, Accept, DownloadTypeOK'
  PROVE  TcpInv'
<1>0. /\ TcpTypeOK /\ PeerSlots /\ EventsAhead /\ Reconnected /\ CleanNoOrphans
      /\ SessionIsConnection
  BY DEF TcpInv
<1> DEFINE j == First(Conns \ open)
           k == Current
<1>1. PICK src \in Connecting(k) :
        /\ open' = open \cup {j}
        /\ conn' = [conn EXCEPT ![j] = src]
        /\ got' = [got EXCEPT ![j] = [clean |-> Fresh(src), bytes |-> 0]]
  BY DEF Accept
<1>2. /\ pc = "recv" /\ k \in Listeners /\ Handled /\ UNCHANGED sessions
      /\ Conns \ open # {}
  BY DEF Accept
<1>3. j \in Conns /\ j \notin open
  <2>1. Conns \ open \in SUBSET Nat
    BY SockSets
  <2> QED BY <1>2, <2>1, FirstMember
<1>4. k \in Socks /\ k \notin Conns
  BY <1>2, SockSets
<1>5. /\ revents' = [revents EXCEPT ![k] = "none"]
      /\ revents' \in [Socks -> {"none", "in", "err"}]
      /\ pc' \in {"poll", "recv"}
      /\ pc' \in TcpPoints
      /\ pc' = "poll" => \A i \in Socks : revents'[i] = "none"
  BY <1>0, <1>2, <1>4, HandledShape
<1>6. /\ src \in Addrs /\ src # NoAddr
      /\ \A i \in Conns : conn[i] = src => revents[i] = "err"
  BY <1>1 DEF Connecting, Senders, Addrs
<1>7. Orphans' \subseteq Orphans
  BY <1>0, NoNewOrphans
<1> DEFINE entry == [clean |-> Fresh(src), bytes |-> 0]
<1>8. entry \in [clean : BOOLEAN, bytes : Nat] /\ entry.bytes = 0
  BY DEF Fresh
<1>9. entry.clean => Orphans = {} /\ \A i \in Conns : conn[i] # src
  BY Zenon DEF Fresh
<1> HIDE DEF entry, j, k
<1>10. /\ revents \in [Socks -> {"none", "in", "err"}]
       /\ conn \in [Conns -> Addrs \cup {NoAddr}]
       /\ got \in [Conns -> [clean : BOOLEAN, bytes : Nat]]
       /\ sessions \in [Slots -> TcpSessionSet]
       /\ open \in SUBSET Socks
       /\ \A i \in Conns : i \in open <=> conn[i] # NoAddr
  BY <1>0 DEF TcpTypeOK
<1>11. /\ \A i \in Conns : i # j => conn'[i] = conn[i] /\ got'[i] = got[i]
       /\ conn'[j] = src /\ got'[j] = entry
       /\ conn[j] = NoAddr
  BY <1>1, <1>3, <1>10 DEF entry
<1>12. \A i \in Conns : revents'[i] = revents[i]
  BY <1>4, <1>5, <1>10, SockSets
<1>13. \A i \in Socks : revents'[i] # "none" => revents[i] # "none" /\ pc' = "recv"
  BY <1>4, <1>5, <1>10
<1>14. revents[j] = "none"
  BY <1>0, <1>3, SockSets DEF EventsAhead
<1>15. TcpTypeOK'
  <2>1. conn' \in [Conns -> Addrs \cup {NoAddr}]
        /\ got' \in [Conns -> [clean : BOOLEAN, bytes : Nat]]
    <3>1. got' = [got EXCEPT ![j] = entry]
      BY <1>1 DEF entry
    <3>2. conn' \in [Conns -> Addrs \cup {NoAddr}]
      BY <1>1, <1>6, <1>10
    <3> DEFINE E == [clean : BOOLEAN, bytes : Nat]
    <3>3. got \in [Conns -> E] /\ entry \in E
      BY <1>8, <1>10
    <3> HIDE DEF E
    <3>4. got' \in [Conns -> E]
      BY <3>1, <3>3
    <3> QED BY <3>2, <3>4 DEF E
  <2>2. open' \in SUBSET Socks /\ \A i \in Conns : i \in open' <=> conn'[i] # NoAddr
    BY <1>1, <1>3, <1>6, <1>10, <1>11, SockSets
  <2> QED BY <1>2, <1>5, <1>10, <2>1, <2>2 DEF TcpTypeOK
<1>16. PeerSlots'
  BY <1>0, <1>2 DEF PeerSlots
<1>17. EventsAhead'
  BY <1>0, <1>1, <1>13 DEF EventsAhead
<1>18. Reconnected'
  <2> SUFFICES ASSUME NEW m \in Conns, NEW n \in Conns, m # n, conn'[m] = conn'[n],
                      conn'[m] # NoAddr
               PROVE  /\ pc' = "recv"
                      /\ \/ revents'[m] = "err" /\ revents'[n] = "none"
                         \/ revents'[n] = "err" /\ revents'[m] = "none"
    BY DEF Reconnected
  <2>1. CASE m = j
    BY <1>6, <1>11, <1>12, <1>13, <1>14, <2>1, SockSets
  <2>2. CASE n = j
    BY <1>6, <1>11, <1>12, <1>13, <1>14, <2>2, SockSets
  <2>3. CASE m # j /\ n # j
    BY <1>0, <1>2, <1>11, <1>12, <1>13, <2>3, SockSets DEF Reconnected
  <2> QED BY <2>1, <2>2, <2>3
<1>19. CleanNoOrphans'
  BY <1>0, <1>2, <1>7, <1>9, <1>11 DEF CleanNoOrphans
<1>20. SessionIsConnection'
  <2> SUFFICES ASSUME NEW i \in Conns, conn'[i] # NoAddr, got'[i].clean
               PROVE  LET own == {s \in Slots : /\ sessions[s].addr = conn'[i]
                                                /\ sessions[s].state = "ONGOING"}
                      IN  IF own = {} THEN got'[i].bytes = 0
                          ELSE \A s \in own : sessions[s].length = got'[i].bytes
    BY <1>2 DEF SessionIsConnection
  <2>1. CASE i # j
    BY <1>0, <1>11, <2>1 DEF SessionIsConnection
  <2>2. CASE i = j
    <3>1. {s \in Slots : sessions[s].addr = src /\ sessions[s].state = "ONGOING"} = {}
      BY <1>9, <1>11, <2>2 DEF Orphans
    <3> QED BY <1>8, <1>11, <2>2, <3>1
  <2> QED BY <2>1, <2>2
<1> QED BY <1>15, <1>16, <1>17, <1>18, <1>19, <1>20 DEF TcpInv

(***************************************************************************)
(* zsock_recv with data (len > 0) or at the end of a connection (len = 0). *)
(* The connection is the only one of its peer, since none of two would     *)
(* have been reported as readable; a session it has is in the slot that    *)
(* tcp_received finds, and a connection that met no orphan finds a slot.   *)
(***************************************************************************)

\* The connections and the sessions that have one are as many as fit in the
\* tables, so without orphans there is a slot for a connection without a session.
LEMMA SlotFound ==
  ASSUME TcpTypeOK, PeerSlots, NEW i \in Conns, conn[i] # NoAddr,
         Cardinality(Orphans) + Cardinality({c \in Conns : conn[c] # NoAddr}) <= SESSION_MAX
  PROVE  get_session(sessions, conn[i]) # NoSlot
<1> SUFFICES ASSUME get_session(sessions, conn[i]) = NoSlot
             PROVE  FALSE
  OBVIOUS
<1> DEFINE Connected == {c \in Conns : conn[c] # NoAddr}
           Served == Slots \ Orphans
           f == [s \in Served |-> CHOOSE c \in Conns : conn[c] = sessions[s].addr]
<1>1. \A s \in Slots : sessions[s].addr # conn[i] /\ sessions[s].state = "ONGOING"
  BY Lookup DEF TcpTypeOK
<1>2. \A s \in Served : f[s] \in Connected \ {i} /\ conn[f[s]] = sessions[s].addr
  <2> SUFFICES ASSUME NEW s \in Served
               PROVE  f[s] \in Connected \ {i} /\ conn[f[s]] = sessions[s].addr
    OBVIOUS
  <2>1. \E c \in Conns : conn[c] = sessions[s].addr
    BY <1>1 DEF Orphans
  <2>2. f[s] \in Conns /\ conn[f[s]] = sessions[s].addr
    BY <2>1
  <2> HIDE DEF f
  <2> QED BY <1>1, <2>2 DEF PeerSlots
<1> HIDE DEF f
<1>3. f \in [Served -> Connected \ {i}]
  <2>1. f = [s \in Served |-> f[s]]
    BY DEF f
  <2> QED BY <1>2, <2>1
<1>4. \A s, t \in Served : f[s] = f[t] => s = t
  BY <1>1, <1>2 DEF PeerSlots
<1>5. IsFiniteSet(Slots) /\ Cardinality(Slots) = SESSION_MAX
  <2>1. 1 \in Int /\ SESSION_MAX \in Int /\ ~(1 > SESSION_MAX)
    OBVIOUS
  <2>2. IsFiniteSet(1 .. SESSION_MAX)
        /\ Cardinality(1 .. SESSION_MAX)
             = IF 1 > SESSION_MAX THEN 0 ELSE SESSION_MAX - 1 + 1
    BY <2>1, FS_Interval, Zenon
  <2> QED BY <2>1, <2>2 DEF Slots
<1>6. IsFiniteSet(Conns)
  <2>1. 2 \in Int /\ SESSION_MAX + 1 \in Int
    OBVIOUS
  <2> QED BY <2>1, FS_Interval, Zenon DEF Conns
<1>7. IsFiniteSet(Connected)
  BY <1>6, FS_Subset
<1>8. /\ IsFiniteSet(Connected \ {i})
      /\ Cardinality(Connected \ {i}) = Cardinality(Connected) - 1
      /\ Cardinality(Connected) \in Nat
  BY <1>7, FS_RemoveElement, FS_CardinalityType
<1>9. Orphans \subseteq Slots
  BY DEF Orphans
<1>10. /\ IsFiniteSet(Orphans) /\ IsFiniteSet(Served)
       /\ Cardinality(Orphans) \in Nat /\ Cardinality(Served) \in Nat
  BY <1>5, <1>9, FS_Subset, FS_CardinalityType
<1>11. Cardinality(Served) = SESSION_MAX - Cardinality(Orphans)
  <2>1. Slots \cap Orphans = Orphans
    BY <1>9
  <2> QED BY <1>5, <2>1, FS_Difference
<1>12. Cardinality(Served) <= Cardinality(Connected \ {i})
  <2>1. ~(Cardinality(Connected \ {i}) < Cardinality(Served))
    <3> SUFFICES ASSUME Cardinality(Connected \ {i}) < Cardinality(Served)
                 PROVE  FALSE
      OBVIOUS
    <3> HIDE DEF Served, Connected
    <3>1. \E s, t \in Served : s # t /\ f[s] = f[t]
      BY <1>3, <1>8, <1>10, FS_PigeonHole
    <3> QED BY <1>4, <3>1
  <2> HIDE DEF Served, Connected
  <2> QED BY <1>8, <1>10, <2>1
<1>13. Cardinality(Orphans) + Cardinality(Connected) <= SESSION_MAX
  OBVIOUS
<1> HIDE DEF Served, Connected
<1> QED BY <1>8, <1>10, <1>11, <1>12, <1>13

\* There are no more connections than slots.
LEMMA ConnectedBound ==
  Cardinality({c \in Conns : conn[c] # NoAddr}) <= SESSION_MAX
<1> DEFINE Connected == {c \in Conns : conn[c] # NoAddr}
<1>1. 2 \in Int /\ SESSION_MAX + 1 \in Int /\ ~(2 > SESSION_MAX + 1)
  OBVIOUS
<1>2. IsFiniteSet(2 .. (SESSION_MAX + 1))
      /\ Cardinality(2 .. (SESSION_MAX + 1))
           = IF 2 > SESSION_MAX + 1 THEN 0 ELSE (SESSION_MAX + 1) - 2 + 1
  BY <1>1, FS_Interval, Zenon
<1>3. IsFiniteSet(Conns) /\ Cardinality(Conns) = SESSION_MAX
  BY <1>1, <1>2 DEF Conns
<1>4. Connected \subseteq Conns
  OBVIOUS
<1> HIDE DEF Connected
<1>5. Cardinality(Connected) <= Cardinality(Conns)
  BY <1>3, <1>4, FS_Subset
<1> QED BY <1>3, <1>5 DEF Connected

LEMMA RecvInv ==
  ASSUME TcpInv, NEW len \in Nat, NEW before, pc = "recv", Current \in Conns,
         revents[Current] = "in", tcp_received(conn[Current], len, before), Handled,
         \A s \in Slots : sessions[s].state = "ONGOING" /\ len # 0
            /\ sessions[s].addr = conn[Current] => sessions[s].counter < MaxCount,
         IF len = 0
           THEN /\ open' = open \ {Current}
                /\ conn' = [conn EXCEPT ![Current] = NoAddr]
                /\ got' = [got EXCEPT ![Current] = NoBytes]
           ELSE /\ got' = [got EXCEPT ![Current].bytes =
                             IF got[Current].clean THEN @ + len ELSE @]
                /\ UNCHANGED <<conn, open>>,
         Orphans' \subseteq Orphans,
         DownloadTypeOK'
  PROVE  TcpInv'
<1>0. /\ TcpTypeOK /\ PeerSlots /\ EventsAhead /\ Reconnected /\ CleanNoOrphans
      /\ SessionIsConnection
  BY DEF TcpInv
<1> DEFINE k == Current
           addr == conn[k]
<1>1. /\ revents \in [Socks -> {"none", "in", "err"}]
      /\ conn \in [Conns -> Addrs \cup {NoAddr}]
      /\ got \in [Conns -> [clean : BOOLEAN, bytes : Nat]]
      /\ sessions \in [Slots -> TcpSessionSet]
      /\ open \in SUBSET Socks
      /\ \A i \in Conns : i \in open <=> conn[i] # NoAddr
  BY <1>0 DEF TcpTypeOK
<1>2. k \in Conns /\ k \in Socks /\ k \in open /\ addr \in Addrs /\ addr # NoAddr
      /\ revents[k] = "in"
  BY <1>0, <1>1, SockSets DEF EventsAhead
<1>3. /\ revents' = [revents EXCEPT ![k] = "none"]
      /\ revents' \in [Socks -> {"none", "in", "err"}]
      /\ pc' \in {"poll", "recv"} /\ pc' \in TcpPoints
      /\ pc' = "poll" => \A i \in Socks : revents'[i] = "none"
  BY <1>0, <1>2, HandledShape
<1>4. \A i \in Conns : conn[i] = addr => i = k
  BY <1>0, <1>2 DEF Reconnected
<1>5. /\ \A i \in Conns : i # k => conn'[i] = conn[i] /\ got'[i] = got[i]
      /\ conn'[k] = IF len = 0 THEN NoAddr ELSE addr
      /\ conn' \in [Conns -> Addrs \cup {NoAddr}]
  BY <1>1, <1>2
<1>6. open' = IF len = 0 THEN open \ {k} ELSE open
  OBVIOUS
<1>7. /\ got' \in [Conns -> [clean : BOOLEAN, bytes : Nat]]
      /\ len # 0 => got'[k].clean = got[k].clean
      /\ len # 0 /\ got[k].clean => got'[k].bytes = got[k].bytes + len
  <2> DEFINE E == [clean : BOOLEAN, bytes : Nat]
             e == IF len = 0 THEN NoBytes
                  ELSE [got[k] EXCEPT !.bytes = IF got[k].clean THEN @ + len ELSE @]
  <2>1. got' = [got EXCEPT ![k] = e]
    OBVIOUS
  <2>2. got[k] \in E
    BY <1>1, <1>2
  <2>3. e \in E
    BY <2>2 DEF NoBytes
  <2>4. len # 0 => e.clean = got[k].clean
    BY <2>2
  <2>5. len # 0 /\ got[k].clean => e.bytes = got[k].bytes + len
    BY <2>2
  <2> HIDE DEF E, e
  <2>6. got \in [Conns -> E]
    BY <1>1 DEF E
  <2>7. got' \in [Conns -> E] /\ got'[k] = e
    BY <1>2, <2>1, <2>3, <2>6
  <2> QED BY <2>4, <2>5, <2>7 DEF E
<1>8. \A s \in Slots : /\ sessions[s].state = "ONGOING" => sessions[s].counter <= MaxCount
                       /\ sessions[s].state = "ONGOING" /\ len # 0 /\ sessions[s].addr = addr
                            => sessions[s].counter < MaxCount
  BY <1>0 DEF PeerSlots
<1>9. \/ /\ UNCHANGED sessions
         /\ \A s \in Slots : sessions[s].addr # addr /\ sessions[s].state = "ONGOING"
      \/ \E slot \in Slots :
           /\ \/ sessions[slot].addr = addr
              \/ /\ \A s \in Slots : sessions[s].addr # addr
                 /\ sessions[slot].state # "ONGOING"
           /\ sessions' = [sessions EXCEPT ![slot] = After(sessions[slot], addr, len)]
  BY <1>1, Received
<1>10. conn[k] # NoAddr /\ got[k].clean => get_session(sessions, addr) # NoSlot
  <2> SUFFICES ASSUME got[k].clean
               PROVE  get_session(sessions, addr) # NoSlot
    OBVIOUS
  <2>1. Orphans = {}
    BY <1>0, <1>2 DEF CleanNoOrphans
  <2>2. Cardinality(Orphans) + Cardinality({c \in Conns : conn[c] # NoAddr}) <= SESSION_MAX
    <3> DEFINE n == Cardinality({c \in Conns : conn[c] # NoAddr})
    <3>1. Cardinality(Orphans) = 0
      BY <2>1, FS_EmptySet
    <3>2. n <= SESSION_MAX
      BY ConnectedBound
    <3>3. n \in Nat
      <4>1. 2 \in Int /\ SESSION_MAX + 1 \in Int
        OBVIOUS
      <4>2. IsFiniteSet(Conns)
        BY <4>1, FS_Interval, Zenon DEF Conns
      <4> QED BY <4>2, FS_Subset, FS_CardinalityType
    <3> HIDE DEF n
    <3> QED BY <3>1, <3>2, <3>3 DEF n
  <2> QED BY <1>0, <1>2, <2>2, SlotFound
<1>11. ~(\A s \in Slots : sessions[s].addr # addr /\ sessions[s].state = "ONGOING")
         \/ ~got[k].clean
  <2> SUFFICES ASSUME got[k].clean,
                      \A s \in Slots : sessions[s].addr # addr /\ sessions[s].state = "ONGOING"
               PROVE  FALSE
    OBVIOUS
  <2>1. Matching(sessions, addr) = {} /\ Free(sessions) = {}
    BY DEF Matching, Free
  <2> QED BY <1>2, <1>10, <2>1 DEF get_session
<1> HIDE DEF k, addr
<1>12. \A i \in Socks : i # k => revents'[i] = revents[i]
  BY <1>1, <1>2, <1>3
<1>13. \A i \in Socks : revents'[i] # "none" => revents[i] # "none" /\ i # k /\ pc' = "recv"
  BY <1>1, <1>2, <1>3
<1>14. EventsAhead'
  BY <1>0, <1>6, <1>13 DEF EventsAhead
<1>15. Reconnected'
  <2> SUFFICES ASSUME NEW m \in Conns, NEW n \in Conns, m # n, conn'[m] = conn'[n],
                      conn'[m] # NoAddr
               PROVE  /\ pc' = "recv"
                      /\ \/ revents'[m] = "err" /\ revents'[n] = "none"
                         \/ revents'[n] = "err" /\ revents'[m] = "none"
    BY DEF Reconnected
  <2>1. m # k /\ n # k
    BY <1>2, <1>4, <1>5
  <2>2. conn[m] = conn[n] /\ conn[m] # NoAddr
    BY <1>5, <2>1
  <2>3. \/ revents[m] = "err" /\ revents[n] = "none"
        \/ revents[n] = "err" /\ revents[m] = "none"
    BY <1>0, <2>2 DEF Reconnected
  <2>4. revents'[m] = revents[m] /\ revents'[n] = revents[n]
    BY <1>12, <2>1, SockSets
  <2> QED BY <1>13, <2>3, <2>4, SockSets
<1>16. CleanNoOrphans'
  <2> SUFFICES ASSUME NEW i \in Conns, conn'[i] # NoAddr, got'[i].clean
               PROVE  Orphans' = {}
    BY DEF CleanNoOrphans
  <2>1. conn[i] # NoAddr /\ got[i].clean
    <3>1. CASE i = k
      BY <1>2, <1>5, <1>7, <3>1 DEF addr
    <3>2. CASE i # k
      BY <1>5, <3>2
    <3> QED BY <3>1, <3>2
  <2> QED BY <1>0, <2>1 DEF CleanNoOrphans
<1>17. open' \in SUBSET Socks /\ \A i \in Conns : i \in open' <=> conn'[i] # NoAddr
  BY <1>1, <1>2, <1>5, <1>6
<1>18. CASE /\ UNCHANGED sessions
            /\ \A s \in Slots : sessions[s].addr # addr /\ sessions[s].state = "ONGOING"
  <2>1. TcpTypeOK'
    BY <1>1, <1>3, <1>5, <1>7, <1>17, <1>18 DEF TcpTypeOK
  <2>2. PeerSlots'
    BY <1>0, <1>18 DEF PeerSlots
  <2>3. SessionIsConnection'
    <3> SUFFICES ASSUME NEW i \in Conns, conn'[i] # NoAddr, got'[i].clean
                 PROVE  LET own == {s \in Slots : /\ sessions[s].addr = conn'[i]
                                                  /\ sessions[s].state = "ONGOING"}
                        IN  IF own = {} THEN got'[i].bytes = 0
                            ELSE \A s \in own : sessions[s].length = got'[i].bytes
      BY <1>18 DEF SessionIsConnection
    <3>1. i # k
      BY <1>2, <1>5, <1>7, <1>11, <1>18
    <3> QED BY <1>0, <1>5, <3>1 DEF SessionIsConnection
  <2> QED BY <1>14, <1>15, <1>16, <2>1, <2>2, <2>3 DEF TcpInv
<1>19. ASSUME NEW slot \in Slots,
              \/ sessions[slot].addr = addr
              \/ /\ \A s \in Slots : sessions[s].addr # addr
                 /\ sessions[slot].state # "ONGOING",
              sessions' = [sessions EXCEPT ![slot] = After(sessions[slot], addr, len)]
       PROVE  TcpInv'
  <2> DEFINE old == sessions[slot]
             new == After(old, addr, len)
  <2>1. /\ new \in TcpSessionSet
        /\ new.addr = addr
        /\ new.state = IF len = 0 THEN "COMPLETED" ELSE "ONGOING"
        /\ new.length = (IF old.state = "ONGOING" THEN old.length ELSE 0) + len
        /\ len # 0 => new.counter <= MaxCount
    BY <1>1, <1>2, <1>8, <1>19, AfterFields
  <2>2. old \in TcpSessionSet /\ old.length \in Nat
    BY <1>1 DEF TcpSessionSet
  <2>3. sessions' = [sessions EXCEPT ![slot] = new]
    BY <1>19
  <2> HIDE DEF new, old
  <2>4. sessions' \in [Slots -> TcpSessionSet] /\ sessions'[slot] = new
        /\ \A s \in Slots : s # slot => sessions'[s] = sessions[s] /\ sessions[s].addr # addr
    BY <1>0, <1>1, <1>2, <1>19, <2>1, <2>3 DEF PeerSlots
  <2>5. TcpTypeOK'
    BY <1>3, <1>5, <1>7, <1>17, <2>4 DEF TcpTypeOK
  <2>6. PeerSlots'
    BY <1>0, <1>2, <2>1, <2>4 DEF PeerSlots
  <2>7. SessionIsConnection'
    <3> SUFFICES ASSUME NEW i \in Conns, conn'[i] # NoAddr, got'[i].clean
                 PROVE  LET own == {s \in Slots : /\ sessions'[s].addr = conn'[i]
                                                  /\ sessions'[s].state = "ONGOING"}
                        IN  IF own = {} THEN got'[i].bytes = 0
                            ELSE \A s \in own : sessions'[s].length = got'[i].bytes
      BY DEF SessionIsConnection
    <3>1. CASE i # k
      <4>1. /\ conn'[i] = conn[i] /\ got'[i] = got[i] /\ conn[i] # addr
        BY <1>4, <1>5, <3>1
      <4>2. \A s \in Slots : (sessions'[s].addr = conn'[i] /\ sessions'[s].state = "ONGOING")
              => sessions[s].addr = conn[i] /\ sessions[s].state = "ONGOING"
                 /\ sessions'[s] = sessions[s]
        BY <2>1, <2>4, <4>1
      <4>3. \A s \in Slots : (sessions[s].addr = conn[i] /\ sessions[s].state = "ONGOING")
              => sessions'[s] = sessions[s]
        BY <1>19, <2>4, <4>1 DEF old
      <4> QED BY <1>0, <4>1, <4>2, <4>3 DEF SessionIsConnection
    <3>2. CASE i = k
      <4>1. len # 0 /\ conn'[i] = addr /\ got[k].clean /\ got'[k].bytes = got[k].bytes + len
        BY <1>5, <1>7, <3>2
      <4>2. {s \in Slots : sessions'[s].addr = addr /\ sessions'[s].state = "ONGOING"} = {slot}
        BY <2>1, <2>4, <4>1
      <4>3. got[k].bytes \in Nat
        BY <1>1, <1>2
      <4>4. got[k].bytes = IF old.state = "ONGOING" THEN old.length ELSE 0
        <5> DEFINE own == {s \in Slots : sessions[s].addr = addr /\ sessions[s].state = "ONGOING"}
        <5>1. IF own = {} THEN got[k].bytes = 0
              ELSE \A s \in own : sessions[s].length = got[k].bytes
          BY <1>0, <1>2, <4>1 DEF SessionIsConnection, addr
        <5>2. CASE old.state = "ONGOING"
          <6>1. slot \in own
            BY <1>19, <5>2 DEF old
          <6> QED BY <5>1, <5>2, <6>1 DEF old
        <5>3. CASE old.state # "ONGOING"
          <6>1. own = {}
            BY <2>4, <5>3 DEF old
          <6> QED BY <5>1, <5>3, <6>1
        <5> QED BY <5>2, <5>3
      <4>5. sessions'[slot].length = got'[k].bytes
        BY <2>1, <2>4, <4>1, <4>3, <4>4
      <4> QED BY <3>2, <4>1, <4>2, <4>5
    <3> QED BY <3>1, <3>2
  <2> QED BY <1>14, <1>15, <1>16, <2>5, <2>6, <2>7 DEF TcpInv
<1> QED BY <1>9, <1>18, <1>19
-----------------------------------------------------------------------------
LEMMA InitTcpInv == Init => TcpInv
<1> SUFFICES ASSUME Init
             PROVE  TcpInv
  OBVIOUS
<1>1. DownloadTypeOK
  BY InitProtocol DEF Init, Protocol
<1>2. /\ sessions = [s \in Slots |-> InitSession]
      /\ conn = [i \in Conns |-> NoAddr]
      /\ got = [i \in Conns |-> NoBytes]
      /\ revents = [i \in Socks |-> "none"]
      /\ pc = "start" /\ open = {}
  BY DEF Init, InitDownload, zperf_session_init
<1>3. /\ InitSession \in TcpSessionSet
      /\ InitSession.state = "NULL" /\ InitSession.addr = NoAddr
  BY DEF InitSession, TcpSessionSet, States
<1>4. NoBytes \in [clean : BOOLEAN, bytes : Nat]
  BY DEF NoBytes
<1> DEFINE E == [clean : BOOLEAN, bytes : Nat]
<1> HIDE DEF E
<1>5. got \in [Conns -> [clean : BOOLEAN, bytes : Nat]]
  <2>1. got \in [Conns -> E]
    BY <1>2, <1>4 DEF E
  <2> QED BY <2>1 DEF E
<1>6. TcpTypeOK
  BY <1>1, <1>2, <1>3, <1>5 DEF TcpTypeOK, TcpPoints
<1>7. PeerSlots
  BY <1>2, <1>3 DEF PeerSlots
<1>8. EventsAhead /\ Reconnected /\ CleanNoOrphans /\ SessionIsConnection
  BY <1>2 DEF EventsAhead, Reconnected, CleanNoOrphans, SessionIsConnection
<1> QED BY <1>6, <1>7, <1>8 DEF TcpInv

LEMMA NextTcpInv ==
  ASSUME TcpInv, Protocol, Protocol', [Next]_vars
  PROVE  TcpInv'
<1>0. /\ TcpTypeOK /\ PeerSlots /\ EventsAhead /\ Reconnected
      /\ SocketsReleased /\ DownloadTypeOK'
  BY DEF TcpInv, Protocol
<1>1. CASE Quiet
  BY <1>0, <1>1, QuietInv
<1>2. CASE Accept
  BY <1>0, <1>2, AcceptInv
<1>3. CASE \E len \in Lens : RecvData(len)
  <2>1. PICK len \in Lens : RecvData(len)
    BY <1>3
  <2>2. len \in Nat /\ len # 0
    OBVIOUS
  <2>3. Orphans' \subseteq Orphans
    BY <1>0, <1>3, NoNewOrphans
  <2>4. /\ pc = "recv" /\ Current \in Conns /\ revents[Current] = "in"
        /\ tcp_received(conn[Current], len, {}) /\ Handled
        /\ \A s \in Slots : sessions[s].state = "ONGOING" /\ len # 0
             /\ sessions[s].addr = conn[Current] => sessions[s].counter < MaxCount
        /\ got' = [got EXCEPT ![Current].bytes =
                     IF got[Current].clean THEN @ + len ELSE @]
        /\ UNCHANGED <<conn, open>>
    BY <2>1 DEF RecvData
  <2> QED BY <1>0, <2>2, <2>3, <2>4, RecvInv
<1>4. CASE RecvEnd
  <2>1. PICK before \in {{}, {"ERROR"}} : tcp_received(conn[Current], 0, before)
    BY <1>4 DEF RecvEnd
  <2>2. Orphans' \subseteq Orphans
    BY <1>0, <1>4, NoNewOrphans
  <2>3. /\ pc = "recv" /\ Current \in Conns /\ revents[Current] = "in" /\ Handled
        /\ open' = open \ {Current}
        /\ conn' = [conn EXCEPT ![Current] = NoAddr]
        /\ got' = [got EXCEPT ![Current] = NoBytes]
    BY <1>4 DEF RecvEnd
  <2> QED BY <1>0, <2>1, <2>2, <2>3, RecvInv
<1>5. CASE CloseSocket
  BY <1>0, <1>5, CloseInv
<1> QED BY <1>0, <1>1, <1>2, <1>3, <1>4, <1>5, StepShape

LEMMA AlwaysTcpInv == Spec => []TcpInv
<1>1. TcpInv /\ Protocol /\ Protocol' /\ [Next]_vars => TcpInv'
  BY NextTcpInv
<1> QED BY <1>1, InitTcpInv, AlwaysProtocol, PTL DEF Spec

\* The types, and fds[] and sock_addr[] agree on which entries are in use.
THEOREM TcpTypeCorrect == Spec => []TcpTypeOK
<1>1. TcpInv => TcpTypeOK
  BY DEF TcpInv
<1> QED BY <1>1, AlwaysTcpInv, PTL

(***************************************************************************)
(* The session table is large enough, for any number of slots: with no     *)
(* more orphans and connections than slots, get_session has a slot for     *)
(* every connection.                                                       *)
(***************************************************************************)
THEOREM ConnectionAlwaysFindsSlot == Spec => []ConnectionFindsSlot
<1>1. TcpInv => ConnectionFindsSlot
  BY SlotFound DEF TcpInv, ConnectionFindsSlot
<1> QED BY <1>1, AlwaysTcpInv, PTL

(***************************************************************************)
(* A session that tcp_received keeps counts the bytes of one connection,   *)
(* all of them and no others, unless it was accepted while an orphan was   *)
(* about or its peer's last connection had just been reset.                *)
(***************************************************************************)
THEOREM SessionAlwaysConnection == Spec => []SessionIsConnection
<1>1. TcpInv => SessionIsConnection
  BY DEF TcpInv
<1> QED BY <1>1, AlwaysTcpInv, PTL

(***************************************************************************)
(* Outside the cleanup of tcp_server_session no step leaves an ongoing     *)
(* session without its connection.                                         *)
(***************************************************************************)
THEOREM OrphansByCleanupOnly == Spec => OrphanedByCleanupOnly
<1>1. ASSUME TcpInv, [Next]_vars
      PROVE  [pc # "close" => Orphans' \subseteq Orphans]_vars
  <2>1. /\ TcpTypeOK /\ PeerSlots /\ EventsAhead /\ Reconnected
    BY <1>1 DEF TcpInv
  <2>2. CASE CloseSocket
    BY <2>2 DEF CloseSocket, Close
  <2>3. CASE Quiet \/ Accept \/ (\E len \in Lens : RecvData(len)) \/ RecvEnd
    BY <2>1, <2>3, NoNewOrphans
  <2> QED BY <1>1, <2>1, <2>2, <2>3, StepShape
<1> QED BY <1>1, AlwaysTcpInv, PTL DEF Spec, OrphanedByCleanupOnly
=============================================================================
