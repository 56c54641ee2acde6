---------------------------- MODULE TcpReceiver -----------------------------
(***************************************************************************)
(* The TCP server of zperf_tcp_receiver.c: the thread and the API that     *)
(* Download describes, around two listening sockets, as many connections   *)
(* as there are session slots, and tcp_received.                           *)
(*                                                                         *)
(* fds[] and sock_addr[] are one array of sockets, listeners first; the    *)
(* peer of a connection is a whole address (sockaddr_storage), unlike the  *)
(* one the UDP server keeps.  The session table outlives the connections:  *)
(* nothing but the end of a connection ends a session, so a server that is *)
(* stopped, or fails, leaves the sessions of its open connections behind,  *)
(* ongoing.  Those are the orphans below.                                  *)
(*                                                                         *)
(* The zsock_close of a single connection is part of the step that makes   *)
(* the call: what follows it touches nothing another task reads.  Time,    *)
(* and with it the duration in the results, is left out.                   *)
(***************************************************************************)
EXTENDS Download

CONSTANTS
  Lens,      \* what one zsock_recv returns, in bytes
  MaxCount   \* bound: zsock_recv calls that return data, per session

ASSUME DataAssumption == Lens \subseteq Nat \ {0} /\ MaxCount \in Nat \ {0}

VARIABLES
  sessions,  \* the row of the session table for SESSION_TCP
  conn,      \* sock_addr[] of the connections, NoAddr where fds[] is free
  got        \* history, read by the properties only: for each connection,
             \* whether it met nothing of an earlier one when it was accepted,
             \* and if so the bytes received on it

tcpVars == <<sessions, conn, got>>
vars == <<tcpVars, downloadVars>>

Listeners == {0, 1}                \* SOCK_ID_IPV4_LISTEN, SOCK_ID_IPV6_LISTEN
Conns == 2 .. (SESSION_MAX + 1)    \* up to SOCK_ID_MAX - 1
Socks == Listeners \cup Conns

NoBytes == [clean |-> FALSE, bytes |-> 0]

\* Ongoing sessions without a connection.
Orphans ==
  {s \in Slots : /\ sessions[s].state = "ONGOING"
                 /\ \A i \in Conns : conn[i] # sessions[s].addr}

\* For the history: a connection from src meets nothing of an earlier one.
Fresh(src) == Orphans = {} /\ \A i \in Conns : conn[i] # src
-----------------------------------------------------------------------------
(***************************************************************************)
(* tcp_received.                                                           *)
(***************************************************************************)

\* Mutant of Begun: the length of the slot's last session is kept.
BegunKept(s) ==
  IF s.state = "ONGOING" THEN s
  ELSE [zperf_reset_session_stats(s) EXCEPT !.state = "ONGOING", !.length = s.length]

\* A session before it counts: a new one starts from zero.
Begun(s) ==
  IF s.state = "ONGOING" THEN s
  ELSE [zperf_reset_session_stats(s) EXCEPT !.state = "ONGOING"]

\* len is 0 at the end of the connection, which counts as a packet too.
Counted(s, len) ==
  [s EXCEPT !.counter = @ + 1,
            !.length = @ + len,
            !.state = IF len = 0 THEN "COMPLETED" ELSE @]

\* tcp_received(addr, len), and the callbacks it makes after those before it.
tcp_received(addr, len, before) ==
  LET slot == get_session(sessions, addr)
  IN  IF slot = NoSlot
        THEN call' = Invoked(before) /\ UNCHANGED sessions
        ELSE /\ sessions' = [Claimed(sessions, addr) EXCEPT ![slot] = Counted(Begun(@), len)]
             /\ call' = Invoked(before \cup
                          (IF sessions[slot].state = "ONGOING" THEN {} ELSE {"STARTED"}) \cup
                          (IF len = 0 THEN {"FINISHED"} ELSE {}))
-----------------------------------------------------------------------------
(***************************************************************************)
(* tcp_server_session.                                                     *)
(***************************************************************************)

\* tcp_bind_listen_connection, once per family.
tcp_bind_listen_connection(bind, listen, next) ==
  BindSocket(bind, listen) \/ BindSocket(listen, next)

Setup ==
  \/ OpenSocket(0, "socket4", "bind4")
  \/ tcp_bind_listen_connection("bind4", "listen4", "socket6")
  \/ OpenSocket(1, "socket6", "bind6")
  \/ tcp_bind_listen_connection("bind6", "listen6", "poll")

SetupFails ==
  /\ pc \in {"socket4", "bind4", "listen4", "socket6", "bind6", "listen6"}
  /\ Error

\* POLLERR or POLLNVAL on a socket, a listener's or a connection's, or
\* zsock_accept fails: the server ends, whichever peer it was.
LoopFails ==
  /\ pc = "recv"
  /\ revents[Current] = "err" \/ Current \in Listeners
  /\ Error

\* The socket has been handled and the loop goes on.
Handled ==
  /\ revents' = [revents EXCEPT ![Current] = "none"]
  /\ pc' = Continue(revents')
  /\ UNCHANGED sharedVars
  /\ ClientWaits

\* Peers that can connect: TCP keeps one connection per peer, but a peer that
\* has reset one may be back before the loop reaches the error.
Connecting(sock) ==
  {src \in Senders(sock) : \A i \in Conns : conn[i] = src => revents[i] = "err"}

\* zsock_accept returns a connection, which takes the first free entry.
Accept ==
  /\ pc = "recv"
  /\ Current \in Listeners
  /\ revents[Current] = "in"
  /\ Conns \ open # {}
  /\ LET j == First(Conns \ open)
     IN  \E src \in Connecting(Current) :
           /\ open' = open \cup {j}
           /\ conn' = [conn EXCEPT ![j] = src]
           /\ got' = [got EXCEPT ![j] = [clean |-> Fresh(src), bytes |-> 0]]
  /\ Handled
  /\ call' = NoCall
  /\ UNCHANGED sessions

\* zsock_accept returns a connection too many, which is closed.
Drop ==
  /\ pc = "recv"
  /\ Current \in Listeners
  /\ revents[Current] = "in"
  /\ Conns \ open = {}
  /\ Handled
  /\ call' = NoCall
  /\ UNCHANGED <<tcpVars, open>>

\* zsock_recv returns data.
RecvData(len) ==
  /\ pc = "recv"
  /\ Current \in Conns
  /\ revents[Current] = "in"
  /\ \A s \in Slots : sessions[s].addr = conn[Current] /\ sessions[s].state = "ONGOING"
                        => sessions[s].counter < MaxCount
  /\ tcp_received(conn[Current], len, {})
  /\ got' = [got EXCEPT ![Current].bytes = IF got[Current].clean THEN @ + len ELSE @]
  /\ Handled
  /\ UNCHANGED <<conn, open>>

\* Mutants of RecvEnd: an error closes the connection and not the session;
\* the address of the closed connection is kept.
RecvEndSilently ==
  /\ pc = "recv"
  /\ Current \in Conns
  /\ revents[Current] = "in"
  /\ \/ tcp_received(conn[Current], 0, {})
     \/ call' = Invoked({"ERROR"}) /\ UNCHANGED sessions
  /\ open' = open \ {Current}
  /\ conn' = [conn EXCEPT ![Current] = NoAddr]
  /\ got' = [got EXCEPT ![Current] = NoBytes]
  /\ Handled

RecvEndKept ==
  /\ pc = "recv"
  /\ Current \in Conns
  /\ revents[Current] = "in"
  /\ \E before \in {{}, {"ERROR"}} : tcp_received(conn[Current], 0, before)
  /\ open' = open \ {Current}
  /\ got' = [got EXCEPT ![Current] = NoBytes]
  /\ UNCHANGED conn
  /\ Handled

\* zsock_recv returns 0, or fails, which is reported and then treated alike.
RecvEnd ==
  /\ pc = "recv"
  /\ Current \in Conns
  /\ revents[Current] = "in"
  /\ \E before \in {{}, {"ERROR"}} : tcp_received(conn[Current], 0, before)
  /\ open' = open \ {Current}
  /\ conn' = [conn EXCEPT ![Current] = NoAddr]
  /\ got' = [got EXCEPT ![Current] = NoBytes]
  /\ Handled

\* cleanup of one socket: zsock_close, and sock_addr[] is cleared.
CloseSocket ==
  /\ Close
  /\ conn' = [i \in Conns |-> IF i = First(open) THEN NoAddr ELSE conn[i]]
  /\ got' = [i \in Conns |-> IF i = First(open) THEN NoBytes ELSE got[i]]
  /\ UNCHANGED sessions
  /\ ClientWaits

\* The steps that leave sessions and connections alone.
ServerStep ==
  /\ \/ Setup \/ SetupFails
     \/ PollFails \/ PollStopped \/ PollTimeout \/ PollReady(open) \/ LoopFails
  /\ UNCHANGED tcpVars
  /\ ClientWaits

tcp_server_session ==
  \/ ServerStep \/ Accept \/ Drop \/ (\E len \in Lens : RecvData(len))
  \/ RecvEnd \/ CloseSocket

tcp_receiver_thread ==
  \/ tcp_server_session
  \/ /\ ThreadStart \/ TakeSem \/ SessionReturns
     /\ UNCHANGED tcpVars
  /\ ClientWaits
-----------------------------------------------------------------------------
zperf_tcp_download == ClientStep(DownloadCall) /\ UNCHANGED tcpVars

zperf_tcp_download_stop == ClientStep(StopCall) /\ UNCHANGED tcpVars

Init ==
  /\ sessions = zperf_session_init
  /\ conn = [i \in Conns |-> NoAddr]
  /\ got = [i \in Conns |-> NoBytes]
  /\ revents = [i \in Socks |-> "none"]
  /\ InitDownload

Next == tcp_receiver_thread \/ zperf_tcp_download \/ zperf_tcp_download_stop

Spec == Init /\ [][Next]_vars
-----------------------------------------------------------------------------
TcpPoints ==
  {"start", "take", "socket4", "bind4", "listen4", "socket6", "bind6",
   "listen6", "poll", "recv", "close"}

TcpSessionSet ==
  [addr : Addrs \cup {NoAddr}, state : States, counter : 0 .. (MaxCount + 1),
   next_id : {1}, outorder : {0}, error : {0}, length : Nat, jitter : {0},
   last_transit_time : {0}, stat : {ZeroStat}]

\* Types, and that fds[] and sock_addr[] agree on which entries are in use.
TcpTypeOK ==
  /\ DownloadTypeOK
  /\ pc \in TcpPoints
  /\ open \in SUBSET Socks
  /\ revents \in [Socks -> {"none", "in", "err"}]
  /\ sessions \in [Slots -> TcpSessionSet]
  /\ conn \in [Conns -> Addrs \cup {NoAddr}]
  /\ got \in [Conns -> [clean : BOOLEAN, bytes : Nat]]
  /\ \A i \in Conns : i \in open <=> conn[i] # NoAddr

(***************************************************************************)
(* The table is large enough: a connection finds a session slot ("Cannot   *)
(* get a session!" is not reached) as long as the orphans left by earlier  *)
(* servers and the open connections are not more than the slots.  The two  *)
(* tables are of the same size, so without orphans this always holds.      *)
(***************************************************************************)
ConnectionFindsSlot ==
  LET connected == {i \in Conns : conn[i] # NoAddr}
  IN  Cardinality(Orphans) + Cardinality(connected) <= SESSION_MAX =>
        \A i \in connected : get_session(sessions, conn[i]) # NoSlot

(***************************************************************************)
(* A session is one connection: what it has counted is what was received   *)
(* on the connection of its peer, all of it and nothing of an earlier      *)
(* connection or of another peer, and a connection without a session has   *)
(* received nothing yet.  Excepted are connections accepted while an       *)
(* orphan was about, which may take over its counts or find no slot, and   *)
(* those of a peer whose earlier connection was reset a moment ago.        *)
(***************************************************************************)
SessionIsConnection ==
  \A i \in Conns :
    conn[i] # NoAddr /\ got[i].clean =>
      LET own == {s \in Slots : /\ sessions[s].addr = conn[i]
                                /\ sessions[s].state = "ONGOING"}
      IN  IF own = {} THEN got[i].bytes = 0
          ELSE \A s \in own : sessions[s].length = got[i].bytes

(***************************************************************************)
(* As long as it serves, the server leaves no session without its          *)
(* connection: every way a connection leaves fds[], a failed zsock_recv    *)
(* included ("This will close the zperf session"), ends the session in the *)
(* same step.  Only the cleanup of the whole server makes orphans.         *)
(***************************************************************************)
OrphanedByCleanupOnly == [][pc # "close" => Orphans' \subseteq Orphans]_vars

-----------------------------------------------------------------------------
Abstract == INSTANCE Server WITH status <- userStatus, owner <- userOwner

(***************************************************************************)
(* The TCP server implements the server that zperf.h describes: one        *)
(* request at a time, which a stop or an error ends, sockets released      *)
(* before the next.  (That a stop takes effect is checked of the UDP       *)
(* server, whose thread and API are the same code.)                        *)
(***************************************************************************)
TcpImplementsServer == Abstract!ServerSafety
=============================================================================
