--------------------------- MODULE DownloadProofs ---------------------------
(***************************************************************************)
(* Proofs about the start/stop protocol that both servers share, for any   *)
(* requests and whatever the server does with its data.                    *)
(*                                                                         *)
(* The protocol has no lock.  What makes it work is an argument about      *)
(* where the other task can be: an application that finds the running flag *)
(* clear knows, because it runs at all, that the thread waits for the      *)
(* semaphore and has no count to take; so nothing moves until it gives the *)
(* semaphore.  Protocol below is that argument as an inductive invariant.  *)
(* Of the thread only ThreadStep is used, which each server's own steps    *)
(* are shown to satisfy in its own module.                                 *)
(***************************************************************************)
EXTENDS Download, TLAPS

USE RequestAssumption

\* The statements of zperf_*_download after its test of the flag.
Downloading == cpc \in {"params", "running", "unstop", "addr", "give"}

\* A request the thread works for or will work for.
Engaged == InSession \/ sem = 1

\* The semaphore exists from the thread's first step on; a count is taken at
\* once; while a download is under way, the thread waits with nothing to take.
Waiting ==
  /\ sem = NoSem <=> pc = "start"
  /\ sem = 1 => pc = "take"
  /\ Downloading => pc = "take" /\ sem = 0
  /\ pc = "start" => cpc = "idle"

\* What each flag says at each statement of the application.
Flags ==
  /\ cpc \in {"params", "running"} => ~running
  /\ cpc \in {"unstop", "addr", "give"} => running
  /\ cpc \in {"addr", "give"} => ~stop
  /\ cpc \in {"idle", "nocb"} => (running <=> Engaged)
  /\ Engaged /\ stop => asked = "stop"
  /\ Downloading => asked = "start"
  /\ cpc = "nocb" => asked = "stop" /\ stop

\* Whose parameters the server has.
Parameters ==
  /\ Downloading => arg # NoReq /\ cb = arg
  /\ cpc \in {"running", "unstop", "addr", "give"} =>
       req.user_data = arg /\ req.port = arg
  /\ cpc = "give" => req.addr = arg
  /\ Engaged => /\ req.port = req.user_data
                /\ req.addr = req.user_data
                /\ req.user_data # NoReq
                /\ cb \in {req.user_data, NoReq}

\* A stop has removed the callback, and nothing is called without one.
Silent == asked = "stop" /\ cpc = "idle" => cb = NoReq /\ call = NoCall

Protocol ==
  /\ DownloadTypeOK
  /\ Waiting
  /\ Flags
  /\ Parameters
  /\ Silent
  /\ SocketsReleased
-----------------------------------------------------------------------------
\* A step that calls nobody, and one that reports an error.
LEMMA CallTypes ==
  /\ {"ERROR"} \in SUBSET Events
  /\ NoCall \in [events : SUBSET Events, cb : Requests \cup {NoReq},
                 user_data : Requests \cup {NoReq}]
  BY DEF NoCall, Events

LEMMA InitProtocol == InitDownload => Protocol
<1> SUFFICES ASSUME InitDownload
             PROVE  Protocol
  OBVIOUS
<1>1. DownloadTypeOK
  BY CallTypes DEF InitDownload, DownloadTypeOK, NoSem, ClientPoints
<1> QED BY <1>1 DEF InitDownload, Protocol, Waiting, Flags, Parameters, Silent,
        SocketsReleased, Downloading, Engaged, InSession, NoSem

\* A call of the callback is well typed.
LEMMA InvokedType ==
  ASSUME DownloadTypeOK, NEW events \in SUBSET Events
  PROVE  /\ Invoked(events) \in [events : SUBSET Events, cb : Requests \cup {NoReq},
                                 user_data : Requests \cup {NoReq}]
         /\ NoCall \in [events : SUBSET Events, cb : Requests \cup {NoReq},
                        user_data : Requests \cup {NoReq}]
         /\ cb = NoReq => Invoked(events) = NoCall
  BY CallTypes DEF DownloadTypeOK, Invoked, NoCall

\* A step of the application keeps the invariant.
LEMMA ClientProtocol ==
  ASSUME Protocol, ClientStep(DownloadCall \/ StopCall)
  PROVE  Protocol'
<1>2. NoCall \in [events : SUBSET Events, cb : Requests \cup {NoReq},
                  user_data : Requests \cup {NoReq}]
  BY CallTypes
<1>3. /\ call' = NoCall
      /\ UNCHANGED <<pc, open, revents>>
      /\ DownloadCall \/ StopCall
      /\ ThreadBlocked
  BY DEF ClientStep
<1> USE DEF Downloading, Engaged, InSession, ThreadBlocked, DownloadCall, StopCall,
            DownloadInvalid, DownloadRefused, DownloadCallback, DownloadParams,
            DownloadRunning, DownloadUnstop, DownloadAddr, DownloadGive,
            StopRefused, StopFlag, StopCallback
<1>4. DownloadTypeOK'
  <2>1. running' \in BOOLEAN /\ stop' \in BOOLEAN
    BY <1>3 DEF Protocol, DownloadTypeOK
  <2>2. sem' \in {NoSem, 0, 1} /\ cpc' \in ClientPoints
    BY <1>3 DEF Protocol, DownloadTypeOK, ClientPoints
  <2>3. cb' \in Requests \cup {NoReq} /\ arg' \in Requests \cup {NoReq}
    BY <1>3 DEF Protocol, DownloadTypeOK
  <2>4. req' \in [user_data : Requests \cup {NoReq}, port : Requests \cup {NoReq},
                  addr : Requests \cup {NoReq}]
    BY <1>3 DEF Protocol, DownloadTypeOK
  <2>5. asked' \in {"start", "stop"} /\ ret' \in {"none", "0", "EALREADY", "EINVAL"}
    BY <1>3 DEF Protocol, DownloadTypeOK
  <2> QED BY <1>2, <1>3, <2>1, <2>2, <2>3, <2>4, <2>5 DEF DownloadTypeOK
<1>5. Waiting'
  BY <1>3 DEF Protocol, DownloadTypeOK, Waiting, Flags, NoSem
<1>6. Flags'
  BY <1>3 DEF Protocol, DownloadTypeOK, Waiting, Flags, NoSem
<1>7. Parameters'
  BY <1>3 DEF Protocol, DownloadTypeOK, Waiting, Flags, Parameters, NoSem
<1>8. Silent'
  BY <1>3 DEF Protocol, Flags, Silent
<1>9. SocketsReleased'
  BY <1>3 DEF Protocol, SocketsReleased
<1> QED BY <1>4, <1>5, <1>6, <1>7, <1>8, <1>9 DEF Protocol

(***************************************************************************)
(* What every step of the thread has in common.  It leaves the parameters, *)
(* the stop flag and the application alone; it moves between the points of *)
(* a session, or takes the semaphore to begin one, or ends one with every  *)
(* socket closed and the running flag cleared.                             *)
(***************************************************************************)
ThreadMoves ==
  \/ /\ pc = "start" /\ pc' = "take" /\ sem' = 0
     /\ UNCHANGED <<running, open>>
  \/ /\ pc = "take" /\ pc' = "socket4" /\ sem = 1 /\ sem' = 0
     /\ UNCHANGED <<running, open>>
  \/ /\ InSession /\ InSession'
     /\ UNCHANGED <<sem, running>>
  \/ /\ pc = "close" /\ pc' = "take" /\ open = {} /\ running' = FALSE
     /\ UNCHANGED <<sem, open>>

\* The callback is called in a session only, if at all.
Calls ==
  \/ call' = NoCall
  \/ InSession /\ \E e \in SUBSET Events : call' = Invoked(e)

ThreadStep ==
  /\ ThreadMoves
  /\ Calls
  /\ UNCHANGED <<stop, cb, req>>
  /\ ClientWaits

\* The steps of the thread that both servers take are such steps.
LEMMA CommonSteps ==
  ASSUME ClientWaits,
         \/ ThreadStart \/ TakeSem \/ Close \/ SessionReturns
         \/ PollFails \/ PollStopped \/ PollTimeout
         \/ (\E socks : PollReady(socks))
         \/ (InSession /\ Error)
         \/ (\E a, b \in {"socket4", "bind4", "listen4", "socket6", "bind6",
                             "listen6", "poll"} :
               BindSocket(a, b) \/ (\E sock : OpenSocket(sock, a, b)))
  PROVE  ThreadStep
<1> USE DEF ThreadStep, ThreadMoves, Calls, InSession, sharedVars
<1>1. {"ERROR"} \in SUBSET Events
  BY CallTypes
<1>2. CASE ThreadStart \/ TakeSem \/ Close \/ SessionReturns
  BY <1>2 DEF ThreadStart, TakeSem, Close, SessionReturns
<1>3. CASE PollFails \/ (InSession /\ Error)
  BY <1>1, <1>3 DEF PollFails, Error
<1>4. CASE PollStopped \/ PollTimeout \/ (\E socks : PollReady(socks))
  BY <1>4 DEF PollStopped, PollTimeout, PollReady
<1>5. CASE \E a, b \in {"socket4", "bind4", "listen4", "socket6", "bind6",
                        "listen6", "poll"} :
             BindSocket(a, b) \/ (\E sock : OpenSocket(sock, a, b))
  BY <1>5 DEF BindSocket, OpenSocket
<1> HIDE DEF ThreadStep, ThreadMoves, Calls, InSession, sharedVars
<1> QED BY <1>2, <1>3, <1>4, <1>5, Zenon

\* A step of the thread keeps the invariant.
LEMMA ThreadProtocol ==
  ASSUME Protocol, ThreadStep
  PROVE  Protocol'
<1>2. /\ ThreadMoves
      /\ UNCHANGED <<stop, cb, req, cpc, arg, asked>>
      /\ ret' = "none"
      /\ Calls
  BY DEF ThreadStep, ClientWaits
<1>3. /\ call' \in [events : SUBSET Events, cb : Requests \cup {NoReq},
                     user_data : Requests \cup {NoReq}]
      /\ cb = NoReq => call' = NoCall
  <2>1. CASE call' = NoCall
    BY <2>1, CallTypes
  <2>2. CASE \E e \in SUBSET Events : call' = Invoked(e)
    <3>1. PICK e \in SUBSET Events : call' = Invoked(e)
      BY <2>2
    <3> QED BY <3>1, InvokedType DEF Protocol
  <2> QED BY <1>2, <2>1, <2>2 DEF Calls
<1> USE DEF Downloading, Engaged, InSession, ThreadMoves
<1>4. DownloadTypeOK'
  <2>1. running' \in BOOLEAN /\ stop' \in BOOLEAN
    BY <1>2 DEF Protocol, DownloadTypeOK
  <2>2. sem' \in {NoSem, 0, 1}
    BY <1>2 DEF Protocol, DownloadTypeOK
  <2> QED BY <1>2, <1>3, <2>1, <2>2 DEF Protocol, DownloadTypeOK
<1>5. Waiting'
  BY <1>2 DEF Protocol, DownloadTypeOK, Waiting, NoSem
<1>6. Flags'
  BY <1>2 DEF Protocol, DownloadTypeOK, Waiting, Flags, NoSem
<1>7. Parameters'
  BY <1>2 DEF Protocol, DownloadTypeOK, Waiting, Parameters
<1>8. Silent'
  BY <1>2, <1>3 DEF Protocol, Silent
<1>9. SocketsReleased'
  BY <1>2 DEF Protocol, SocketsReleased
<1> QED BY <1>4, <1>5, <1>6, <1>7, <1>8, <1>9 DEF Protocol

LEMMA StutterProtocol ==
  ASSUME Protocol, UNCHANGED downloadVars
  PROVE  Protocol'
  BY DEF downloadVars, serverVars, sharedVars, clientVars, Protocol, DownloadTypeOK,
     Waiting, Flags, Parameters, Silent, SocketsReleased, Downloading, Engaged,
     InSession

\* What the invariant is for.
LEMMA ProtocolImplies ==
  ASSUME Protocol
  PROVE  /\ RunningMeansServing
         /\ GiveNotLost
         /\ OneRequestPerServer
         /\ NoCallAfterStop
         /\ SocketsReleased
         /\ StopFlagFresh
  BY DEF Protocol, Waiting, Flags, Parameters, Silent, Downloading, Engaged,
     RunningMeansServing, GiveNotLost, OneRequestPerServer, NoCallAfterStop,
     StopFlagFresh
-----------------------------------------------------------------------------
(***************************************************************************)
(* The refinement: to its users, a step of the thread ends the server or   *)
(* is invisible; a step of the application starts it, tells it to stop, or *)
(* is invisible.                                                           *)
(***************************************************************************)
LEMMA ThreadStatus ==
  ASSUME Protocol, ThreadStep
  PROVE  \/ UNCHANGED <<userStatus, userOwner>>
         \/ /\ userStatus \in {"running", "stopping"}
            /\ userStatus' = "idle" /\ userOwner' = NoReq
<1>1. /\ ThreadMoves
      /\ UNCHANGED <<stop, cb, req, cpc, arg, asked>>
  BY DEF ThreadStep, ClientWaits
<1> USE DEF userStatus, userOwner
<1>4. CASE running' <=> running
  BY <1>1, <1>4
<1>5. CASE ~(running' <=> running)
  <2>1. pc = "close" /\ ~running'
    BY <1>1, <1>5 DEF ThreadMoves
  <2>2. running /\ cpc # "unstop"
    BY <1>5, <2>1 DEF Protocol, Waiting, Downloading
  <2> QED BY <1>1, <2>1, <2>2
<1> QED BY <1>4, <1>5

LEMMA ClientStatus ==
  ASSUME Protocol, ClientStep(DownloadCall \/ StopCall)
  PROVE  \/ UNCHANGED <<userStatus, userOwner>>
         \/ /\ userStatus = "idle" /\ userStatus' = "running"
            /\ userOwner' \in Requests
         \/ /\ userStatus = "running" /\ userStatus' = "stopping"
            /\ userOwner' = NoReq
<1>2. DownloadCall \/ StopCall
  BY DEF ClientStep
<1> USE DEF userStatus, userOwner
<1>3. CASE DownloadUnstop
  <2>1. userStatus = "idle" /\ userStatus' = "running" /\ userOwner' = arg
    BY <1>3 DEF DownloadUnstop, Protocol, Flags, Parameters, Downloading
  <2>2. arg \in Requests
    BY <1>3 DEF DownloadUnstop, Protocol, Parameters, Downloading, DownloadTypeOK
  <2> QED BY <2>1, <2>2
<1>4. CASE StopCallback
  BY <1>4 DEF StopCallback, Protocol, Flags
<1>5. CASE StopFlag
  BY <1>5 DEF StopFlag
<1>6. CASE DownloadRunning \/ (\E r \in Requests : DownloadCallback(r))
  BY <1>6 DEF DownloadRunning, DownloadCallback, Protocol, Flags
<1>7. CASE \/ DownloadInvalid \/ DownloadRefused \/ StopRefused
           \/ DownloadParams \/ DownloadAddr \/ DownloadGive
  BY <1>7 DEF DownloadInvalid, DownloadRefused, StopRefused, DownloadParams,
     DownloadAddr, DownloadGive
<1> QED BY <1>2, <1>3, <1>4, <1>5, <1>6, <1>7 DEF DownloadCall, StopCall
=============================================================================
