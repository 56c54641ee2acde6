------------------------------ MODULE Sessions ------------------------------
(***************************************************************************)
(* The session table of zperf_session.c: one row per protocol, SESSION_MAX *)
(* slots, looked up by the address of the peer.  The two receivers share   *)
(* this code, each with its own row, so the table is a value here and the  *)
(* functions of zperf_session.c are operators on it.                       *)
(*                                                                         *)
(* An address is a whole sockaddr: family, port and IP.  IPv4 addresses    *)
(* are atoms.  An IPv6 address is a pair <<high, low>>: the family, the    *)
(* port and the first 8 bytes of the IP on one side, the last 8 bytes on   *)
(* the other, because `struct sockaddr` (16 bytes) ends between them.      *)
(***************************************************************************)
EXTENDS Integers, FiniteSets

CONSTANTS
  SESSION_MAX,  \* CONFIG_NET_ZPERF_MAX_SESSIONS
  V4Addrs,      \* IPv4 peers
  V6High,       \* family, port and first half of the IPv6 peers
  V6Low,        \* last half of the IPv6 peers
  NoAddr        \* the address of a slot nobody has used: family AF_UNSPEC

ASSUME SessionMaxAssumption == SESSION_MAX \in Nat \ {0}
ASSUME AddrAssumption == NoAddr \notin V4Addrs \cup (V6High \X V6Low)

Addrs == V4Addrs \cup (V6High \X V6Low)

Slots == 1 .. SESSION_MAX

\* What get_session returns when it returns NULL.
NoSlot == 0

States == {"NULL", "ONGOING", "COMPLETED"}

\* The lowest member of a non-empty set of slots: the loop over the table
\* goes from slot 0 upwards and keeps the first one it finds.
First(S) == CHOOSE i \in S : \A j \in S : i <= j

\* Mutant of Matching: completed sessions are not looked at.
MatchingOngoing(tbl, addr) ==
  {i \in Slots : tbl[i].addr = addr /\ tbl[i].state = "ONGOING"}

\* Slots that already carry the address, whatever the state of the session.
Matching(tbl, addr) == {i \in Slots : tbl[i].addr = addr}

\* Mutants of Free: the state of the slot is not tested; completed sessions
\* keep their slot.
FreeAny(tbl) == Slots
FreeNull(tbl) == {i \in Slots : tbl[i].state = "NULL"}

\* Slots a new peer may take over.
Free(tbl) == {i \in Slots : tbl[i].state \in {"NULL", "COMPLETED"}}

\* The slot get_session returns.
get_session(tbl, addr) ==
  IF Matching(tbl, addr) # {} THEN First(Matching(tbl, addr))
  ELSE IF Free(tbl) # {} THEN First(Free(tbl))
  ELSE NoSlot

\* Mutant of Claimed: a takeover also clears the counters.
ClaimedAndReset(tbl, addr) ==
  IF get_session(tbl, addr) = NoSlot THEN tbl
  ELSE [tbl EXCEPT ![get_session(tbl, addr)].addr = addr,
                   ![get_session(tbl, addr)].counter =
                     IF tbl[get_session(tbl, addr)].addr = addr THEN @ ELSE 0]

\* The table get_session leaves behind: a slot that is taken over gets the
\* address of the new peer and keeps its state, its counters and its report.
Claimed(tbl, addr) ==
  IF get_session(tbl, addr) = NoSlot THEN tbl
  ELSE [tbl EXCEPT ![get_session(tbl, addr)].addr = addr]

\* The report before any session has completed in a slot (static storage).
ZeroStat ==
  [flags |-> 0, total_len1 |-> 0, total_len2 |-> 0, error_cnt |-> 0,
   outorder_cnt |-> 0, datagrams |-> 0, jitter2 |-> 0]

\* A slot after zperf_session_init.
InitSession ==
  [addr |-> NoAddr, state |-> "NULL", counter |-> 0, next_id |-> 1,
   outorder |-> 0, error |-> 0, length |-> 0, jitter |-> 0,
   last_transit_time |-> 0, stat |-> ZeroStat]

\* zperf_reset_session_stats.  The address, the state and the report of the
\* slot's last session are the fields it does not reset.
zperf_reset_session_stats(s) ==
  [addr |-> s.addr, state |-> s.state, stat |-> s.stat, counter |-> 0,
   next_id |-> 1, outorder |-> 0, error |-> 0, length |-> 0, jitter |-> 0,
   last_transit_time |-> 0]

\* zperf_session_init, for the row of one protocol.
zperf_session_init == [i \in Slots |-> InitSession]

=============================================================================
