----------------------------- MODULE UdpSession -----------------------------
(***************************************************************************)
(* The datagram handler of the UDP server: udp_received and the functions  *)
(* it calls (zperf_udp_receiver.c, zperf_session.c).  Datagrams arrive     *)
(* from any peer in any order, repeated or not: UDP promises nothing.      *)
(*                                                                         *)
(* The handler runs without interruption by any task that shares its       *)
(* state, except inside zsock_sendto, where the receiver thread may block. *)
(* A datagram that makes the handler send a report is therefore two steps: *)
(* up to the call of zsock_sendto, and StatSent from its return on.        *)
(*                                                                         *)
(* Time is left out, and with it start_time and the two duration fields of *)
(* the report; a datagram carries its transit time, which is all the       *)
(* jitter estimate reads.  Logging is left out.                            *)
(***************************************************************************)
EXTENDS Sessions

CONSTANTS
  Ids,           \* datagram ids that clients use for data: int32_t, not negative
  Lens,          \* sizes of data datagrams in bytes
  TransitTimes,  \* time_delta(arrival, sent) in us, an int32_t
  WORD,          \* 2^32 in the code: int32_t holds WORD values, half of them negative
  MaxCount       \* bound: datagrams counted in one session

ASSUME DatagramAssumption ==
  /\ WORD \in Nat /\ WORD > 1
  /\ Ids \subseteq 0 .. (WORD \div 2 - 2)
  /\ Lens \subseteq Nat
  /\ TransitTimes \subseteq -(WORD \div 2) .. (WORD - WORD \div 2 - 1)
  /\ MaxCount \in Nat

VARIABLES
  sessions,  \* the row of the session table for SESSION_UDP
  handler,   \* the call of zsock_sendto the handler is in, if any
  reply,     \* the report handed to zsock_sendto by the last step, if any
  notice,    \* the event the last step reports to udp_session_cb, if any
  trapped,   \* the process was killed by a division by zero
  hist       \* history, read by the properties only: for each slot, the ids
             \* that arrived in its session, the one that started it included,
             \* the largest variation between the transit times of datagrams
             \* counted in succession, and the sender its report is about

sessionVars == <<sessions, handler, reply, notice, trapped, hist>>

NoHandler == [pending |-> "none", slot |-> NoSlot]
NoReply   == [to |-> NoAddr, from |-> NoAddr, about |-> NoAddr, stat |-> ZeroStat]
-----------------------------------------------------------------------------
(***************************************************************************)
(* What recvfrom stores about the sender.  `struct sockaddr addr` has 16   *)
(* bytes: of an IPv6 sender it receives everything but the last half of    *)
(* the IP.  The casts to sockaddr_in6 then read that half from the stack   *)
(* behind it, which may hold anything.                                     *)
(***************************************************************************)
Observed(src) == IF src \in V4Addrs THEN {src} ELSE {src[1]} \X V6Low

\* Division of C: towards zero.
Quotient(x, n) == IF x >= 0 THEN x \div n ELSE -((-x) \div n)

Abs(x) == IF x < 0 THEN -x ELSE x

\* What int32_t keeps of an integer.  Overflow of a signed type is undefined in
\* C; this build is compiled without a trap on it and wraps around.
Int32(x) == ((x + WORD \div 2) % WORD) - WORD \div 2

\* Mutant of Jitter: the sign of the difference is kept.
SignedJitter(s, transit) ==
  LET delta == Int32(transit - s.last_transit_time)
  IN  IF s.last_transit_time = 0 THEN s.jitter
      ELSE Int32(s.jitter + Quotient(Int32(delta - s.jitter), 16))

\* The smoothed jitter after a datagram with the given transit time.  The most
\* negative difference has no opposite in int32_t and stays negative.
Jitter(s, transit) ==
  LET delta == Int32(Abs(Int32(transit - s.last_transit_time)))
  IN  IF s.last_transit_time = 0 THEN s.jitter
      ELSE Int32(s.jitter + Quotient(Int32(delta - s.jitter), 16))

\* Mutants of Counted: the test for a late id is dropped; a late id moves
\* next_id back; the gap is one too small; a late id is not counted as such.
CountedNoLateTest(s, id, len, transit) ==
  [s EXCEPT !.counter = @ + 1, !.error = @ + (id - s.next_id), !.next_id = id + 1]
CountedBackwards(s, id, len, transit) ==
  [s EXCEPT !.counter = @ + 1,
            !.outorder = IF id < s.next_id THEN @ + 1 ELSE @,
            !.error = IF id > s.next_id THEN @ + (id - s.next_id) ELSE @,
            !.next_id = id + 1]
CountedGapOff(s, id, len, transit) ==
  [s EXCEPT !.counter = @ + 1,
            !.outorder = IF id < s.next_id THEN @ + 1 ELSE @,
            !.error = IF id > s.next_id THEN @ + (id - s.next_id - 1) ELSE @,
            !.next_id = IF id < @ THEN @ ELSE id + 1]
CountedLateUnnoticed(s, id, len, transit) ==
  [s EXCEPT !.counter = @ + 1,
            !.error = IF id > s.next_id THEN @ + (id - s.next_id) ELSE @,
            !.next_id = IF id < @ THEN @ ELSE id + 1]

\* The session after a data datagram that it counts.
Counted(s, id, len, transit) ==
  [addr |-> s.addr, state |-> s.state, stat |-> s.stat,
   counter |-> s.counter + 1,
   length |-> s.length + len,
   jitter |-> Jitter(s, transit),
   last_transit_time |-> transit,
   outorder |-> IF id < s.next_id THEN s.outorder + 1 ELSE s.outorder,
   error |-> IF id > s.next_id THEN s.error + (id - s.next_id) ELSE s.error,
   next_id |-> IF id < s.next_id THEN s.next_id ELSE id + 1]

\* The report on a session.
Stat(s) ==
  [flags |-> 1,
   total_len1 |-> s.length \div WORD,
   total_len2 |-> s.length % (WORD - 1),
   error_cnt |-> s.error,
   outorder_cnt |-> s.outorder,
   datagrams |-> s.counter,
   jitter2 |-> s.jitter]

Started(s)  == [zperf_reset_session_stats(s) EXCEPT !.state = "ONGOING"]
Finished(s) == [s EXCEPT !.state = "COMPLETED", !.stat = Stat(s)]

\* For the history: the largest variation of the transit time so far, and what
\* the first and the later datagrams of a session leave.
Spread(spread, s, transit) ==
  LET variation == Abs(Int32(transit - s.last_transit_time))
  IN  IF s.last_transit_time = 0 \/ variation <= spread THEN spread ELSE variation
FirstArrival(h, id) == [seen |-> {id}, spread |-> 0, about |-> h.about]
Arrival(h, s, id, transit) ==
  [seen |-> h.seen \cup {id}, spread |-> Spread(h.spread, s, transit), about |-> h.about]
-----------------------------------------------------------------------------
(***************************************************************************)
(* zperf_receiver_send_stat up to the call of zsock_sendto.  The result of *)
(* the call is only logged, so whether it fails makes no difference here.  *)
(***************************************************************************)
zperf_receiver_send_stat(src, addr, slot, stat, about, why) ==
  /\ reply' = [to |-> addr, from |-> src, about |-> about, stat |-> stat]
  /\ handler' = [pending |-> why, slot |-> slot]

\* A datagram too short to hold the header.
ShortDatagram ==
  /\ reply' = NoReply
  /\ notice' = "none"
  /\ UNCHANGED <<sessions, handler, trapped, hist>>

\* Every slot belongs to another peer whose session is ongoing.
NoSession(addr) ==
  /\ get_session(sessions, addr) = NoSlot
  /\ reply' = NoReply
  /\ notice' = "none"
  /\ UNCHANGED <<sessions, handler, trapped, hist>>

\* A negative id without an ongoing session: send the slot's report (again).
ResendStat(src, addr) ==
  LET slot == get_session(sessions, addr)
  IN  /\ slot # NoSlot
      /\ sessions[slot].state # "ONGOING"
      /\ sessions' = Claimed(sessions, addr)
      /\ zperf_receiver_send_stat(src, addr, slot, sessions[slot].stat,
                                  hist[slot].about, "resend")
      /\ notice' = "none"
      /\ UNCHANGED <<trapped, hist>>

\* The first datagram of a session starts it and is not counted in it: its id
\* is not even looked at.
StartSession(addr, id) ==
  LET slot == get_session(sessions, addr)
  IN  /\ slot # NoSlot
      /\ sessions[slot].state # "ONGOING"
      /\ sessions' = [Claimed(sessions, addr) EXCEPT ![slot] = Started(@)]
      /\ hist' = [hist EXCEPT ![slot] = FirstArrival(@, id)]
      /\ notice' = "STARTED"
      /\ reply' = NoReply
      /\ UNCHANGED <<handler, trapped>>

\* A negative id in an ongoing session ends it.
FinishSession(src, addr) ==
  LET slot == get_session(sessions, addr)
  IN  /\ slot # NoSlot
      /\ sessions[slot].state = "ONGOING"
      /\ sessions' = [Claimed(sessions, addr) EXCEPT ![slot] = Finished(@)]
      /\ hist' = [hist EXCEPT ![slot].about = src]
      /\ zperf_receiver_send_stat(src, addr, slot, Stat(sessions[slot]), src,
                                  "finish")
      /\ notice' = "none"
      /\ UNCHANGED trapped

\* A data datagram in an ongoing session.
CountDatagram(addr, id, len, transit) ==
  LET slot == get_session(sessions, addr)
  IN  /\ slot # NoSlot
      /\ sessions[slot].state = "ONGOING"
      /\ sessions[slot].counter < MaxCount
      /\ sessions' = [Claimed(sessions, addr) EXCEPT ![slot] = Counted(@, id, len, transit)]
      /\ hist' = [hist EXCEPT ![slot] = Arrival(@, sessions[slot], id, transit)]
      /\ reply' = NoReply
      /\ notice' = "none"
      /\ UNCHANGED <<handler, trapped>>

\* The handler of one datagram from src, up to its return or to zsock_sendto.
udp_received(src) ==
  /\ ~trapped
  /\ handler = NoHandler
  /\ \/ ShortDatagram
     \/ \E addr \in Observed(src) :
          \/ NoSession(addr)
          \/ ResendStat(src, addr)
          \/ \E id \in Ids : StartSession(addr, id)
          \/ FinishSession(src, addr)
          \/ \E id \in Ids, len \in Lens, transit \in TransitTimes :
               CountDatagram(addr, id, len, transit)

(***************************************************************************)
(* The rest of the handler, once zsock_sendto has returned.  After a       *)
(* session has ended the mean packet size is computed for the callback:    *)
(* session->length / session->counter, and counter counts from the second  *)
(* datagram on.  A zero divisor raises SIGFPE in this (x86) build.         *)
(***************************************************************************)
StatSent ==
  /\ ~trapped
  /\ handler # NoHandler
  /\ handler' = NoHandler
  /\ reply' = NoReply
  /\ IF handler.pending = "finish"
       THEN IF sessions[handler.slot].counter = 0
              THEN trapped' = TRUE /\ notice' = "none"
              ELSE notice' = "FINISHED" /\ UNCHANGED trapped
       ELSE notice' = "none" /\ UNCHANGED trapped
  /\ UNCHANGED <<sessions, hist>>

InitSessions ==
  /\ sessions = zperf_session_init
  /\ handler = NoHandler
  /\ reply = NoReply
  /\ notice = "none"
  /\ trapped = FALSE
  /\ hist = [i \in Slots |-> [seen |-> {}, spread |-> 0, about |-> NoAddr]]

NextSession == (\E src \in Addrs : udp_received(src)) \/ StatSent

\* The sessions of a server that is never stopped.
SessionSpec == InitSessions /\ [][NextSession]_sessionVars
-----------------------------------------------------------------------------
StatSet ==
  [flags : {0, 1}, total_len1 : Nat, total_len2 : Nat, error_cnt : Nat,
   outorder_cnt : Nat, datagrams : Nat, jitter2 : Int]

SessionSet ==
  [addr : Addrs \cup {NoAddr}, state : States, counter : 0 .. MaxCount,
   next_id : Nat \ {0}, outorder : Nat, error : Nat, length : Nat,
   jitter : Int, last_transit_time : Int, stat : StatSet]

\* Types of the handler's state: the table, the pending call, the outputs.
SessionTypeOK ==
  /\ sessions \in [Slots -> SessionSet]
  /\ handler \in [pending : {"none", "resend", "finish"}, slot : Slots \cup {NoSlot}]
  /\ reply \in [to : Addrs \cup {NoAddr}, from : Addrs \cup {NoAddr},
                about : Addrs \cup {NoAddr}, stat : StatSet]
  /\ notice \in {"none", "STARTED", "FINISHED", "ERROR"}
  /\ trapped \in BOOLEAN
  /\ hist \in [Slots -> [seen : SUBSET Ids, spread : Nat, about : Addrs \cup {NoAddr}]]

(***************************************************************************)
(* The bookkeeping of udp_received balances: whatever order, loss or       *)
(* duplication the datagrams meet, each counted datagram either moved      *)
(* next_id by one plus the gap it revealed (added to error), or was late   *)
(* (added to outorder).  The four counters are updated in four places.     *)
(***************************************************************************)
CountersBalance ==
  \A i \in Slots :
    sessions[i].next_id + sessions[i].outorder
      = 1 + sessions[i].counter + sessions[i].error

(***************************************************************************)
(* What the reported loss is worth.  Of the ids below next_id, the number  *)
(* of which no datagram arrived is at least `error - outorder`: the code   *)
(* never recognises a late datagram as one it has called lost, and a       *)
(* duplicate is also counted as out of order.  And it is at most `error`   *)
(* when id 0 has arrived, `error + 1` when not: the code takes the         *)
(* datagram that starts the session for id 0, whatever its id is, so a     *)
(* lost id 0 is never reported.                                            *)
(***************************************************************************)
LossIsBracketed ==
  \A i \in Slots :
    LET s == sessions[i]
        missing == Cardinality((0 .. (s.next_id - 1)) \ hist[i].seen)
    IN  /\ s.error - s.outorder <= missing
        /\ missing <= s.error + (IF 0 \in hist[i].seen THEN 0 ELSE 1)

(***************************************************************************)
(* No two slots carry the same peer: get_session looks for the peer in the *)
(* whole table, completed sessions included, before it takes a free slot.  *)
(***************************************************************************)
OneSlotPerPeer ==
  \A i, j \in Slots :
    sessions[i].addr = sessions[j].addr /\ sessions[i].addr # NoAddr => i = j

(***************************************************************************)
(* The report kept for retransmitted FINs is the one of the slot's last    *)
(* completed session, even after another peer has taken the slot over: the *)
(* counters of a completed session do not move until a new one starts.     *)
(***************************************************************************)
ReportMatchesSession ==
  \A i \in Slots :
    sessions[i].state = "COMPLETED" => sessions[i].stat = Stat(sessions[i])

(***************************************************************************)
(* The jitter estimate, smoothed in int32_t with C's division towards      *)
(* zero, is never negative and never exceeds the largest variation between *)
(* the transit times of two datagrams counted in succession.  The one      *)
(* exception is a session in which two of them lie exactly 2^31 us apart:  *)
(* the negation of that difference overflows and the estimate may become   *)
(* negative.                                                               *)
(***************************************************************************)
JitterBounded ==
  \A i \in Slots :
    hist[i].spread < WORD \div 2 => sessions[i].jitter \in 0 .. hist[i].spread

(***************************************************************************)
(* Between its first and its last datagram a session belongs to one peer   *)
(* and only grows: no other peer takes its slot, no counter goes back, and *)
(* it ends in a completed session with the counters it had.                *)
(***************************************************************************)
OngoingOnlyGrows ==
  [][\A i \in Slots :
       sessions[i].state = "ONGOING" =>
         /\ sessions'[i].addr = sessions[i].addr
         /\ sessions'[i].state \in {"ONGOING", "COMPLETED"}
         /\ sessions'[i].next_id >= sessions[i].next_id
         /\ sessions'[i].counter >= sessions[i].counter
         /\ sessions'[i].error >= sessions[i].error
         /\ sessions'[i].state = "COMPLETED" =>
              sessions'[i].counter = sessions[i].counter]_sessionVars

(***************************************************************************)
(* Stated by the comment on zperf_receiver_send_stat ("Send statistics to  *)
(* the remote client"): a report goes to the sender of the datagram that   *)
(* asked for it.                                                           *)
(***************************************************************************)
ReportGoesToSender == reply # NoReply => reply.to = reply.from

(***************************************************************************)
(* Stated by the comment in udp_received ("Session is already completed:   *)
(* Resend the stat packet"): a report that describes a session describes   *)
(* one of the peer it is sent for, never another peer's.                   *)
(***************************************************************************)
ReportIsAboutSender ==
  reply # NoReply => reply.about \in {NoAddr, reply.from}

(***************************************************************************)
(* Stated by the comment in udp_received ("Negative id means session       *)
(* end."): the datagram ends the session, not the program.                 *)
(***************************************************************************)
SessionEndSurvives == ~trapped
=============================================================================
