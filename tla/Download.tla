------------------------------ MODULE Download ------------------------------
(***************************************************************************)
(* What the two servers (zperf_udp_receiver.c, zperf_tcp_receiver.c) have  *)
(* in common, statement for statement: a receiver thread that waits for a  *)
(* semaphore, runs one session of the server and waits again, and the two  *)
(* API functions that start and stop it, which an application task calls.  *)
(* In the names below * is udp or tcp.                                     *)
(*                                                                         *)
(* The tasks share *_session_cb, *_user_data, the two flags, the port, the *)
(* address and a semaphore, without a lock.  FreeRTOS schedules by strict  *)
(* priority and the application task has the lower one: it runs only while *)
(* the thread is blocked, and the thread may preempt it between any two    *)
(* statements.  So a step of the thread is the code from one blocking call *)
(* to the next, and a step of the application is one access to the shared  *)
(* state (neighbouring accesses to data that only a running server reads   *)
(* are one step).                                                          *)
(***************************************************************************)
EXTENDS Sessions

CONSTANTS
  Requests,  \* calls of zperf_*_download, told apart by their parameters
  NoReq      \* NULL, for the callback, and the value of unset parameters

ASSUME RequestAssumption == NoReq \notin Requests

VARIABLES
  pc,       \* the blocking call the receiver thread is in or about to make
  sem,      \* *_server_run: its count, NoSem before k_sem_init
  running,  \* *_server_running
  stop,     \* *_server_stop
  cb,       \* *_session_cb, as the request that passed it
  req,      \* *_user_data, *_server_port and *_server_addr, likewise
  open,     \* the sockets of fds[] that are open
  revents,  \* revents of the sockets that the loop has not reached yet
  call,     \* the calls of *_session_cb made by the last step, if any
  cpc,      \* the statement the application task is at
  arg,      \* the request of the zperf_*_download it is in
  asked,    \* what it last asked for successfully
  ret       \* what the API call returned that ended with the last step, if any

sharedVars == <<sem, running, stop, cb, req>>
serverVars == <<pc, sharedVars, open, revents, call>>
clientVars == <<cpc, arg, asked, ret>>
downloadVars == <<serverVars, clientVars>>

NoSem == -1

\* revents when the loop over fds[] has nothing left to handle.
NoEvents == [i \in DOMAIN revents |-> "none"]

NoCall == [events |-> {}, cb |-> NoReq, user_data |-> NoReq]

\* if (*_session_cb != NULL) *_session_cb(event, ..., *_user_data), for each
\* event that the step reports
Invoked(events) ==
  IF events # {} /\ cb # NoReq
    THEN [events |-> events, cb |-> cb, user_data |-> req.user_data]
    ELSE NoCall
\* The application task stays where it is.
ClientWaits == ret' = "none" /\ UNCHANGED <<cpc, arg, asked>>
-----------------------------------------------------------------------------
(***************************************************************************)
(* The receiver thread, outside what it does with data.                    *)
(***************************************************************************)

\* *_receiver_thread up to its first k_sem_take.
ThreadStart ==
  /\ pc = "start"
  /\ sem' = 0
  /\ pc' = "take"
  /\ call' = NoCall
  /\ UNCHANGED <<running, stop, cb, req, open, revents>>

\* k_sem_take returns and *_server_session begins.
TakeSem ==
  /\ pc = "take"
  /\ sem = 1
  /\ sem' = 0
  /\ pc' = "socket4"
  /\ call' = NoCall
  /\ UNCHANGED <<running, stop, cb, req, open, revents>>

\* goto error: tell the application and fall through to cleanup.
Error ==
  /\ call' = Invoked({"ERROR"})
  /\ pc' = "close"
  /\ revents' = NoEvents
  /\ UNCHANGED <<sharedVars, open>>

\* zsock_socket succeeds for one family.
OpenSocket(sock, at, next) ==
  /\ pc = at
  /\ open' = open \cup {sock}
  /\ pc' = next
  /\ call' = NoCall
  /\ UNCHANGED <<sharedVars, revents>>

\* zsock_bind, or zsock_listen, succeeds for one family.
BindSocket(at, next) ==
  /\ pc = at
  /\ pc' = next
  /\ call' = NoCall
  /\ UNCHANGED <<sharedVars, open, revents>>

PollFails == pc = "poll" /\ Error

\* zsock_poll returns, for whatever reason, and the stop flag is set.
PollStopped ==
  /\ pc = "poll"
  /\ stop
  /\ pc' = "close"
  /\ call' = NoCall
  /\ UNCHANGED <<sharedVars, open, revents>>

PollTimeout ==
  /\ pc = "poll"
  /\ ~stop
  /\ call' = NoCall
  /\ UNCHANGED <<pc, sharedVars, open, revents>>

\* Mutant of PollReady: the stop flag is not tested when data is there.
PollReadyFirst(socks) ==
  /\ pc = "poll"
  /\ \E ready \in [socks -> {"none", "in", "err"}] :
       revents' = [i \in DOMAIN revents |-> IF i \in socks THEN ready[i] ELSE "none"]
  /\ revents' # NoEvents
  /\ pc' = "recv"
  /\ call' = NoCall
  /\ UNCHANGED <<sharedVars, open>>

\* zsock_poll reports events of open sockets and the stop flag is not set.
PollReady(socks) ==
  /\ pc = "poll"
  /\ ~stop
  /\ \E ready \in [socks -> {"none", "in", "err"}] :
       revents' = [i \in DOMAIN revents |-> IF i \in socks THEN ready[i] ELSE "none"]
  /\ revents' # NoEvents
  /\ pc' = "recv"
  /\ call' = NoCall
  /\ UNCHANGED <<sharedVars, open>>

\* The peers that reach a socket: fds[0] is the IPv4 one, fds[1] the IPv6 one.
Senders(sock) == IF sock = 0 THEN V4Addrs ELSE V6High \X V6Low

\* The socket the loop over fds[] handles next.
Current == First({i \in DOMAIN revents : revents[i] # "none"})

\* Where the loop continues once the given events are left.
Continue(events) ==
  IF \A i \in DOMAIN events : events[i] = "none" THEN "poll" ELSE "recv"

\* cleanup: one zsock_close.
Close ==
  /\ pc = "close"
  /\ open # {}
  /\ open' = open \ {First(open)}
  /\ call' = NoCall
  /\ UNCHANGED <<pc, sharedVars, revents>>

\* Mutants of SessionReturns: the flag stays set; sockets stay open.
SessionReturnsRunning ==
  /\ pc = "close"
  /\ open = {}
  /\ pc' = "take"
  /\ call' = NoCall
  /\ UNCHANGED <<sharedVars, open, revents>>
SessionReturnsEarly ==
  /\ pc = "close"
  /\ running' = FALSE
  /\ pc' = "take"
  /\ call' = NoCall
  /\ UNCHANGED <<sem, stop, cb, req, open, revents>>

\* *_server_session returns to the thread.
SessionReturns ==
  /\ pc = "close"
  /\ open = {}
  /\ running' = FALSE
  /\ pc' = "take"
  /\ call' = NoCall
  /\ UNCHANGED <<sem, stop, cb, req, open, revents>>
-----------------------------------------------------------------------------
(***************************************************************************)
(* The application task.                                                   *)
(***************************************************************************)

\* Mutant of ThreadBlocked: the application task has the higher priority.
AppFirst == TRUE

\* The thread waits, so the scheduler may run a task of lower priority.
ThreadBlocked ==
  /\ pc # "start"
  /\ pc = "take" => sem # 1
  /\ pc = "close" => open # {}

\* zperf_*_download without parameters or callback.
DownloadInvalid ==
  /\ cpc = "idle"
  /\ ret' = "EINVAL"
  /\ UNCHANGED <<running, stop, cb, req, sem, cpc, arg, asked>>

DownloadRefused ==
  /\ cpc = "idle"
  /\ running
  /\ ret' = "EALREADY"
  /\ UNCHANGED <<running, stop, cb, req, sem, cpc, arg, asked>>

\* Mutant of DownloadCallback: *_server_running is not tested.
DownloadUntested(r) ==
  /\ cpc = "idle"
  /\ cb' = r
  /\ arg' = r
  /\ asked' = "start"
  /\ cpc' = "params"
  /\ ret' = "none"
  /\ UNCHANGED <<running, stop, req, sem>>

\* zperf_*_download, statement by statement.
DownloadCallback(r) ==
  /\ cpc = "idle"
  /\ ~running
  /\ cb' = r
  /\ arg' = r
  /\ asked' = "start"
  /\ cpc' = "params"
  /\ ret' = "none"
  /\ UNCHANGED <<running, stop, req, sem>>

DownloadParams ==
  /\ cpc = "params"
  /\ req' = [req EXCEPT !.user_data = arg, !.port = arg]
  /\ cpc' = "running"
  /\ ret' = "none"
  /\ UNCHANGED <<running, stop, cb, sem, arg, asked>>

DownloadRunning ==
  /\ cpc = "running"
  /\ running' = TRUE
  /\ cpc' = "unstop"
  /\ ret' = "none"
  /\ UNCHANGED <<stop, cb, req, sem, arg, asked>>

\* Mutant of DownloadUnstop: the flag of an earlier stop is left set.
DownloadStillStopped ==
  /\ cpc = "unstop"
  /\ cpc' = "addr"
  /\ ret' = "none"
  /\ UNCHANGED <<running, stop, cb, req, sem, arg, asked>>

DownloadUnstop ==
  /\ cpc = "unstop"
  /\ stop' = FALSE
  /\ cpc' = "addr"
  /\ ret' = "none"
  /\ UNCHANGED <<running, cb, req, sem, arg, asked>>

DownloadAddr ==
  /\ cpc = "addr"
  /\ req' = [req EXCEPT !.addr = arg]
  /\ cpc' = "give"
  /\ ret' = "none"
  /\ UNCHANGED <<running, stop, cb, sem, arg, asked>>

\* k_sem_give on a semaphore with a maximal count of 1, and return 0.
DownloadGive ==
  /\ cpc = "give"
  /\ sem' = 1
  /\ ret' = "0"
  /\ cpc' = "idle"
  /\ UNCHANGED <<running, stop, cb, req, arg, asked>>

\* zperf_*_download_stop, statement by statement.
StopRefused ==
  /\ cpc = "idle"
  /\ ~running
  /\ ret' = "EALREADY"
  /\ UNCHANGED <<running, stop, cb, req, sem, cpc, arg, asked>>

StopFlag ==
  /\ cpc = "idle"
  /\ running
  /\ stop' = TRUE
  /\ asked' = "stop"
  /\ cpc' = "nocb"
  /\ ret' = "none"
  /\ UNCHANGED <<running, cb, req, sem, arg>>

\* Mutant of StopCallback: the callback is left in place.
StopKeepsCallback ==
  /\ cpc = "nocb"
  /\ ret' = "0"
  /\ cpc' = "idle"
  /\ UNCHANGED <<running, stop, cb, req, sem, arg, asked>>

StopCallback ==
  /\ cpc = "nocb"
  /\ cb' = NoReq
  /\ ret' = "0"
  /\ cpc' = "idle"
  /\ UNCHANGED <<running, stop, req, sem, arg, asked>>

\* zperf_*_download and zperf_*_download_stop: a call, and the statements of
\* one that is under way.
DownloadCall ==
  \/ DownloadInvalid \/ DownloadRefused
  \/ (\E r \in Requests : DownloadCallback(r))
  \/ DownloadParams \/ DownloadRunning \/ DownloadUnstop
  \/ DownloadAddr \/ DownloadGive

StopCall == StopRefused \/ StopFlag \/ StopCallback

ClientStep(A) ==
  /\ ThreadBlocked
  /\ A
  /\ call' = NoCall
  /\ UNCHANGED <<pc, open, revents>>

InitDownload ==
  /\ pc = "start"
  /\ sem = NoSem
  /\ running = FALSE
  /\ stop = FALSE
  /\ cb = NoReq
  /\ req = [user_data |-> NoReq, port |-> NoReq, addr |-> NoReq]
  /\ open = {}
  /\ call = NoCall
  /\ cpc = "idle"
  /\ arg = NoReq
  /\ asked = "stop"
  /\ ret = "none"
-----------------------------------------------------------------------------
\* What a step of the thread can report: an error first, then a session's
\* start, then its end.
Events == {"STARTED", "FINISHED", "ERROR"}

ClientPoints ==
  {"idle", "params", "running", "unstop", "addr", "give", "nocb"}

\* Types of the state that the servers have in common; the points, the
\* sockets and the events of the thread are for each server to add.
DownloadTypeOK ==
  /\ sem \in {NoSem, 0, 1}
  /\ running \in BOOLEAN
  /\ stop \in BOOLEAN
  /\ cb \in Requests \cup {NoReq}
  /\ req \in [user_data : Requests \cup {NoReq}, port : Requests \cup {NoReq},
              addr : Requests \cup {NoReq}]
  /\ call \in [events : SUBSET Events,
               cb : Requests \cup {NoReq}, user_data : Requests \cup {NoReq}]
  /\ cpc \in ClientPoints
  /\ arg \in Requests \cup {NoReq}
  /\ asked \in {"start", "stop"}
  /\ ret \in {"none", "0", "EALREADY", "EINVAL"}

\* The thread is between k_sem_take and the end of *_server_session.
InSession == pc \notin {"start", "take"}

(***************************************************************************)
(* *_server_running means what the API takes it for: outside an API call *)
(* it is set if and only if a server is running or about to run.  A stale  *)
(* TRUE would refuse every later download, a stale FALSE would let two     *)
(* requests share one server.                                              *)
(***************************************************************************)
RunningMeansServing ==
  cpc \in {"idle", "nocb"} => (running <=> (InSession \/ sem = 1))

(***************************************************************************)
(* No start is lost: when zperf_*_download gives the semaphore, it has   *)
(* been created and its count is 0, so the give is not swallowed by the    *)
(* maximal count of 1.                                                     *)
(***************************************************************************)
GiveNotLost == cpc = "give" => sem = 0

(***************************************************************************)
(* A server works for one request: while it runs, its port, address and    *)
(* user data all come from the download that started it, and its callback  *)
(* too unless a stop has removed it.  There is no lock, only the order of  *)
(* the statements and the test of *_server_running.                      *)
(***************************************************************************)
OneRequestPerServer ==
  InSession =>
    /\ req.port = req.user_data
    /\ req.addr = req.user_data
    /\ req.user_data # NoReq
    /\ cb \in {req.user_data, NoReq}

(***************************************************************************)
(* Once zperf_*_download_stop has returned 0, the callback is not called *)
(* again until a new download.  The thread may be anywhere in its loop,    *)
(* even inside the zsock_sendto that precedes a callback.                  *)
(***************************************************************************)
NoCallAfterStop == asked = "stop" /\ cpc = "idle" => call = NoCall

(***************************************************************************)
(* Sockets are open only while a session runs, and every path out of       *)
(* *_server_session, the error paths included, closes them all.          *)
(***************************************************************************)
SocketsReleased == ~InSession => open = {}

(***************************************************************************)
(* A server ends through the stop flag only if it was asked to: the flag   *)
(* that stopped the previous server is not what the next one finds.        *)
(***************************************************************************)
StopFlagFresh == InSession /\ stop => asked = "stop"
-----------------------------------------------------------------------------
(***************************************************************************)
(* The server as its users see it: a download is accepted when the last of *)
(* its flags is written, a stop when it removes the callback.              *)
(***************************************************************************)
userStatus ==
  IF ~running \/ cpc = "unstop" THEN "idle"
  ELSE IF stop /\ cb = NoReq THEN "stopping"
  ELSE "running"

userOwner == IF userStatus = "running" THEN cb ELSE NoReq
=============================================================================
