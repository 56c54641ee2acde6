---------------------------- MODULE UdpReceiver -----------------------------
(***************************************************************************)
(* The UDP server of zperf_udp_receiver.c: the thread and the API that     *)
(* Download describes, around the datagram handler of UdpSession.          *)
(***************************************************************************)
EXTENDS UdpSession, Download

vars == <<sessionVars, downloadVars>>

Socks == {0, 1}                 \* SOCK_ID_IPV4, SOCK_ID_IPV6
-----------------------------------------------------------------------------
Setup ==
  \/ OpenSocket(0, "socket4", "bind4")
  \/ BindSocket("bind4", "socket6")
  \/ OpenSocket(1, "socket6", "bind6")
  \/ BindSocket("bind6", "poll")

SetupFails == pc \in {"socket4", "bind4", "socket6", "bind6"} /\ Error

\* POLLERR or POLLNVAL on the socket, or zsock_recvfrom fails.
RecvFails == pc = "recv" /\ Error

\* if (udp_session_cb != NULL) udp_session_cb(notice, ..., udp_user_data)
Notify == call' = Invoked(IF notice' = "none" THEN {} ELSE {notice'})

\* zsock_recvfrom returns a datagram, handled up to the next blocking call.
Recv ==
  /\ pc = "recv"
  /\ revents[Current] = "in"
  /\ \E src \in Senders(Current) : udp_received(src)
  /\ revents' = [revents EXCEPT ![Current] = "none"]
  /\ pc' = IF handler' = NoHandler THEN Continue(revents') ELSE "send"
  /\ Notify
  /\ UNCHANGED <<sharedVars, open>>

\* zsock_sendto returns inside udp_received.
SendReturns ==
  /\ pc = "send"
  /\ StatSent
  /\ pc' = Continue(revents)
  /\ Notify
  /\ UNCHANGED <<sharedVars, open, revents>>

\* The steps that leave the session table alone.
ServerStep ==
  \/ ThreadStart \/ TakeSem \/ Setup \/ SetupFails
  \/ PollFails \/ PollStopped \/ PollTimeout \/ PollReady(Socks)
  \/ RecvFails \/ Close \/ SessionReturns

Thread ==
  /\ ~trapped
  /\ (ServerStep /\ UNCHANGED sessionVars) \/ Recv \/ SendReturns
  /\ ClientWaits

Client ==
  /\ ~trapped
  /\ ClientStep(DownloadCall \/ StopCall)
  /\ UNCHANGED sessionVars

Init == InitSessions /\ InitDownload /\ revents = [i \in Socks |-> "none"]

Next == Thread \/ Client

(***************************************************************************)
(* Every blocking call of the thread returns (zsock_poll after at most     *)
(* POLL_TIMEOUT_MS), and the thread has the higher priority, so it goes    *)
(* on.  Nothing is assumed of the application task: it need not call, and  *)
(* a busy thread may starve it.                                            *)
(***************************************************************************)
Fairness == WF_vars(Thread)

Spec == Init /\ [][Next]_vars /\ Fairness
-----------------------------------------------------------------------------
ThreadPoints ==
  {"start", "take", "socket4", "bind4", "socket6", "bind6", "poll", "recv",
   "send", "close"}

\* Types of the server's and the application's state.
TypeOK ==
  /\ SessionTypeOK
  /\ DownloadTypeOK
  /\ pc \in ThreadPoints
  /\ open \in SUBSET Socks
  /\ revents \in [Socks -> {"none", "in", "err"}]

(***************************************************************************)
(* A stop takes effect: the server ends.  (Unless the program dies of the  *)
(* division by zero first.)  The stop flag is only read after zsock_poll.  *)
(***************************************************************************)
StopTakesEffect == (cpc = "idle" /\ running /\ stop) ~> (~running \/ trapped)
-----------------------------------------------------------------------------
absStatus == IF trapped THEN "dead" ELSE userStatus

absOwner == IF trapped THEN NoReq ELSE userOwner

Abstract == INSTANCE Server WITH status <- absStatus, owner <- absOwner

\* The UDP server implements the server that zperf.h describes.
ImplementsServer == Abstract!ServerSpec
=============================================================================
