-------------------------- MODULE UdpSessionProofs --------------------------
(***************************************************************************)
(* Proofs about UdpSession, for any number of slots, any set of peers and  *)
(* any datagrams.                                                          *)
(*                                                                         *)
(* A step touches at most one slot.  StepShape says so once, with the four *)
(* things a step can do to that slot; each invariant then follows from     *)
(* what the four operators do to one session.                              *)
(***************************************************************************)
EXTENDS UdpSession, TLAPS, WellFoundedInduction, FiniteSetTheorems

USE SessionMaxAssumption, AddrAssumption, DatagramAssumption

\* The scan of the table finds the first slot of any non-empty set.
LEMMA FirstIsLeast ==
  ASSUME NEW S \in SUBSET Nat, S # {}
  PROVE  First(S) \in S /\ \A j \in S : First(S) <= j
<1> DEFINE R == OpToRel(<, Nat)
<1>1. IsWellFoundedOn(R, Nat)
  BY NatLessThanWellFounded
<1>2. \E x \in S : \A y \in S : ~(<<y, x>> \in R)
  <2> HIDE DEF R
  <2> QED BY <1>1, WFMin, Zenon
<1>3. \A x, y \in Nat : <<y, x>> \in R <=> y < x
  BY DEF OpToRel
<1> HIDE DEF R
<1>4. PICK x \in S : \A y \in S : ~(<<y, x>> \in R)
  BY <1>2
<1>5. \A y \in S : ~(y < x)
  BY <1>3, <1>4, Zenon
<1>6. \A y \in S : x <= y
  BY <1>5
<1> QED BY <1>6 DEF First

\* get_session returns a slot of the peer, else a slot that is not ongoing.
LEMMA GetSession ==
  ASSUME NEW tbl, NEW addr
  PROVE  LET g == get_session(tbl, addr)
         IN  g # NoSlot =>
               /\ g \in Slots
               /\ \/ tbl[g].addr = addr
                  \/ /\ \A i \in Slots : tbl[i].addr # addr
                     /\ tbl[g].state \in {"NULL", "COMPLETED"}
<1>1. Matching(tbl, addr) \in SUBSET Nat /\ Free(tbl) \in SUBSET Nat
  BY DEF Matching, Free, Slots
<1>2. CASE Matching(tbl, addr) # {}
  <2>1. First(Matching(tbl, addr)) \in Matching(tbl, addr)
    BY <1>1, <1>2, FirstIsLeast
  <2> QED BY <1>2, <2>1 DEF get_session, Matching
<1>3. CASE Matching(tbl, addr) = {} /\ Free(tbl) # {}
  <2>1. First(Free(tbl)) \in Free(tbl)
    BY <1>1, <1>3, FirstIsLeast
  <2> QED BY <1>3, <2>1 DEF get_session, Matching, Free
<1>4. CASE Matching(tbl, addr) = {} /\ Free(tbl) = {}
  BY <1>4 DEF get_session
<1> QED BY <1>2, <1>3, <1>4

\* Whatever recvfrom leaves in the address is an address.
LEMMA ObservedAddrs == \A src \in Addrs : Observed(src) \subseteq Addrs
  BY DEF Observed, Addrs
-----------------------------------------------------------------------------
(***************************************************************************)
(* What the operators on one session return.                               *)
(***************************************************************************)
Claim(s, addr) == [s EXCEPT !.addr = addr]

LEMMA DivNat ==
  ASSUME NEW a \in Nat, NEW b \in Nat, b > 0
  PROVE  a \div b \in Nat /\ a % b \in Nat
  OBVIOUS

LEMMA ClaimType ==
  ASSUME NEW s \in SessionSet, NEW addr \in Addrs
  PROVE  /\ Claim(s, addr) \in SessionSet
         /\ Claim(s, addr).addr = addr
  BY DEF Claim, SessionSet

LEMMA StartedType ==
  ASSUME NEW s \in SessionSet
  PROVE  Started(s) \in SessionSet
  BY DEF Started, zperf_reset_session_stats, SessionSet, States

LEMMA StatType ==
  ASSUME NEW s \in SessionSet
  PROVE  Stat(s) \in StatSet
<1>1. s.length \in Nat /\ s.error \in Nat /\ s.outorder \in Nat
      /\ s.counter \in Nat /\ s.jitter \in Int
  BY DEF SessionSet
<1>2. s.length \div WORD \in Nat
  BY <1>1, DivNat
<1>3. s.length % (WORD - 1) \in Nat
  BY <1>1, DivNat
<1> QED BY <1>1, <1>2, <1>3 DEF Stat, StatSet

LEMMA FinishedType ==
  ASSUME NEW s \in SessionSet
  PROVE  Finished(s) \in SessionSet
  BY StatType DEF Finished, SessionSet, States

LEMMA QuotientType ==
  ASSUME NEW x \in Int
  PROVE  Quotient(x, 16) \in Int
  BY DEF Quotient

LEMMA HalfWord ==
  /\ WORD \div 2 \in Nat
  /\ 2 * (WORD \div 2) <= WORD
  OBVIOUS

\* int32_t holds small integers as they are.
LEMMA Int32Exact ==
  ASSUME NEW x \in Int, -(WORD \div 2) <= x, x < WORD \div 2
  PROVE  Int32(x) = x
<1> DEFINE h == WORD \div 2
<1>1. h \in Nat /\ 2 * h <= WORD
  BY HalfWord
<1> HIDE DEF h
<1>2. -h <= x /\ x < h
  BY DEF h
<1>3. x + h \in Nat /\ x + h < WORD
  BY <1>1, <1>2
<1>4. \A a \in Nat : a < WORD => a % WORD = a
  OBVIOUS
<1>5. (x + h) % WORD = x + h
  BY <1>3, <1>4
<1>6. ((x + h) % WORD) - h = x
  BY <1>1, <1>5
<1> QED BY <1>6 DEF Int32, h

LEMMA Int32Type ==
  ASSUME NEW x \in Int
  PROVE  Int32(x) \in Int
<1>1. WORD \div 2 \in Nat
  BY HalfWord
<1>2. (x + WORD \div 2) % WORD \in Int
  BY <1>1
<1> QED BY <1>1, <1>2 DEF Int32

LEMMA AbsType ==
  ASSUME NEW x \in Int
  PROVE  Abs(x) \in Nat
  BY DEF Abs

LEMMA JitterType ==
  ASSUME NEW s \in SessionSet, NEW transit \in TransitTimes
  PROVE  Jitter(s, transit) \in Int
<1> DEFINE delta == Int32(Abs(Int32(transit - s.last_transit_time)))
<1>1. s.jitter \in Int /\ s.last_transit_time \in Int /\ transit \in Int
  BY HalfWord DEF SessionSet
<1>2. delta \in Int
  BY <1>1, Int32Type, AbsType
<1> HIDE DEF delta
<1>3. Int32(delta - s.jitter) \in Int
  BY <1>1, <1>2, Int32Type
<1>4. Quotient(Int32(delta - s.jitter), 16) \in Int
  BY <1>3, QuotientType
<1>5. Int32(s.jitter + Quotient(Int32(delta - s.jitter), 16)) \in Int
  BY <1>1, <1>4, Int32Type
<1> QED BY <1>1, <1>5 DEF Jitter, delta

LEMMA SpreadType ==
  ASSUME NEW s \in SessionSet, NEW transit \in TransitTimes, NEW spread \in Nat
  PROVE  Spread(spread, s, transit) \in Nat
<1>1. s.last_transit_time \in Int /\ transit \in Int
  BY HalfWord DEF SessionSet
<1>2. Abs(Int32(transit - s.last_transit_time)) \in Nat
  BY <1>1, Int32Type, AbsType
<1> QED BY <1>2 DEF Spread

LEMMA CountedType ==
  ASSUME NEW s \in SessionSet, s.counter < MaxCount,
         NEW id \in Ids, NEW len \in Lens, NEW transit \in TransitTimes
  PROVE  Counted(s, id, len, transit) \in SessionSet
<1>1. /\ s.jitter \in Int /\ s.last_transit_time \in Int
      /\ s.counter \in Nat /\ s.length \in Nat
      /\ s.outorder \in Nat /\ s.error \in Nat /\ s.next_id \in Nat \ {0}
  BY DEF SessionSet
<1>2. id \in Nat /\ len \in Nat /\ transit \in Int
  BY HalfWord
<1>4. Jitter(s, transit) \in Int
  BY JitterType
<1>5. s.counter + 1 \in 0 .. MaxCount
  BY <1>1
<1> QED BY <1>1, <1>2, <1>4, <1>5 DEF Counted, SessionSet
-----------------------------------------------------------------------------
(***************************************************************************)
(* What a step does to the table: nothing, or one of four things to the    *)
(* slot get_session returns for the observed address of the sender.        *)
(***************************************************************************)
Touched(slot, addr) ==
  LET s == sessions[slot]
  IN  \/ /\ s.state # "ONGOING"
         /\ sessions' = [sessions EXCEPT ![slot] = Claim(s, addr)]
         /\ UNCHANGED hist
      \/ /\ s.state # "ONGOING"
         /\ sessions' = [sessions EXCEPT ![slot] = Started(Claim(s, addr))]
         /\ \E id \in Ids : hist' = [hist EXCEPT ![slot] = FirstArrival(@, id)]
      \/ /\ s.state = "ONGOING"
         /\ sessions' = [sessions EXCEPT ![slot] = Finished(s)]
         /\ \E src \in Addrs : hist' = [hist EXCEPT ![slot].about = src]
      \/ /\ s.state = "ONGOING"
         /\ s.counter < MaxCount
         /\ \E id \in Ids, len \in Lens, transit \in TransitTimes :
              /\ sessions' = [sessions EXCEPT ![slot] = Counted(s, id, len, transit)]
              /\ hist' = [hist EXCEPT ![slot] = Arrival(@, s, id, transit)]

LEMMA ClaimedTable ==
  ASSUME NEW addr, get_session(sessions, addr) \in Slots,
         sessions \in [Slots -> SessionSet]
  PROVE  LET slot == get_session(sessions, addr)
         IN  /\ Claimed(sessions, addr)
                  = [sessions EXCEPT ![slot] = Claim(sessions[slot], addr)]
             /\ [Claimed(sessions, addr) EXCEPT ![slot] = Started(@)]
                  = [sessions EXCEPT ![slot] = Started(Claim(sessions[slot], addr))]
<1> DEFINE slot == get_session(sessions, addr)
<1>1. slot # NoSlot
  BY DEF Slots, NoSlot
<1>2. Claimed(sessions, addr) = [sessions EXCEPT ![slot] = Claim(sessions[slot], addr)]
  BY <1>1 DEF Claimed, Claim
<1> HIDE DEF slot
<1>3. [Claimed(sessions, addr) EXCEPT ![slot] = Started(@)]
        = [sessions EXCEPT ![slot] = Started(Claim(sessions[slot], addr))]
  BY <1>2 DEF slot
<1> QED BY <1>2, <1>3 DEF slot

\* A slot whose session is ongoing is only returned to its own peer.
LEMMA ClaimedOngoing ==
  ASSUME NEW addr, get_session(sessions, addr) \in Slots,
         sessions \in [Slots -> SessionSet],
         sessions[get_session(sessions, addr)].state = "ONGOING"
  PROVE  Claimed(sessions, addr) = sessions
<1> DEFINE slot == get_session(sessions, addr)
<1>1. slot # NoSlot
  BY DEF Slots, NoSlot
<1>2. sessions[slot].addr = addr
  BY <1>1, GetSession
<1>3. [sessions EXCEPT ![slot].addr = addr] = sessions
  <2> HIDE DEF slot
  <2>1. slot \in Slots /\ sessions[slot] \in SessionSet
    BY DEF slot
  <2>2. [sessions[slot] EXCEPT !.addr = addr] = sessions[slot]
    BY <1>2, <2>1 DEF SessionSet
  <2> QED BY <2>1, <2>2
<1> QED BY <1>1, <1>3 DEF Claimed

LEMMA StepShape ==
  ASSUME SessionTypeOK, NextSession
  PROVE  \/ UNCHANGED <<sessions, hist>>
         \/ \E slot \in Slots, addr \in Addrs :
              slot = get_session(sessions, addr) /\ Touched(slot, addr)
<1>1. CASE StatSent
  BY <1>1 DEF StatSent
<1>2. ASSUME NEW src \in Addrs, udp_received(src)
      PROVE  \/ UNCHANGED <<sessions, hist>>
             \/ \E slot \in Slots, addr \in Addrs :
                  slot = get_session(sessions, addr) /\ Touched(slot, addr)
  <2>1. CASE ShortDatagram
    BY <2>1 DEF ShortDatagram
  <2>2. ASSUME NEW addr \in Observed(src),
               \/ NoSession(addr)
               \/ ResendStat(src, addr)
               \/ \E id \in Ids : StartSession(addr, id)
               \/ FinishSession(src, addr)
               \/ \E id \in Ids, len \in Lens, transit \in TransitTimes :
                    CountDatagram(addr, id, len, transit)
        PROVE  \/ UNCHANGED <<sessions, hist>>
               \/ \E slot \in Slots, a \in Addrs :
                    slot = get_session(sessions, a) /\ Touched(slot, a)
    <3> DEFINE slot == get_session(sessions, addr)
    <3>1. addr \in Addrs
      BY ObservedAddrs
    <3>2. slot # NoSlot => slot \in Slots
      BY GetSession
    <3>3. sessions \in [Slots -> SessionSet]
      BY DEF SessionTypeOK
    <3>4. CASE NoSession(addr)
      BY <3>4 DEF NoSession
    <3>5. CASE ResendStat(src, addr)
      BY <3>1, <3>2, <3>3, <3>5, ClaimedTable DEF ResendStat, Touched
    <3>6. ASSUME NEW id \in Ids, StartSession(addr, id)
          PROVE  slot \in Slots /\ Touched(slot, addr)
      BY <3>1, <3>2, <3>3, <3>6, ClaimedTable DEF StartSession, Touched
    <3>7. CASE FinishSession(src, addr)
      BY <3>1, <3>2, <3>3, <3>7, ClaimedOngoing DEF FinishSession, Touched
    <3>8. ASSUME NEW id \in Ids, NEW len \in Lens, NEW transit \in TransitTimes,
                 CountDatagram(addr, id, len, transit)
          PROVE  slot \in Slots /\ Touched(slot, addr)
      BY <3>1, <3>2, <3>3, <3>8, ClaimedOngoing DEF CountDatagram, Touched
    <3> QED BY <2>2, <3>1, <3>4, <3>5, <3>6, <3>7, <3>8
  <2> QED BY <1>2, <2>1, <2>2 DEF udp_received
<1> QED BY <1>1, <1>2 DEF NextSession

\* The table stays well typed.
LEMMA TableType ==
  ASSUME SessionTypeOK, NextSession
  PROVE  sessions' \in [Slots -> SessionSet]
<1>1. sessions \in [Slots -> SessionSet]
  BY DEF SessionTypeOK
<1>2. ASSUME NEW slot \in Slots, NEW addr \in Addrs, Touched(slot, addr)
      PROVE  sessions' \in [Slots -> SessionSet]
  <2>1. sessions[slot] \in SessionSet /\ Claim(sessions[slot], addr) \in SessionSet
    BY <1>1, ClaimType
  <2>2. Started(Claim(sessions[slot], addr)) \in SessionSet
    BY <2>1, StartedType
  <2>3. Finished(sessions[slot]) \in SessionSet
    BY <2>1, FinishedType
  <2>4. sessions[slot].counter < MaxCount =>
          \A id \in Ids, len \in Lens, transit \in TransitTimes :
            Counted(sessions[slot], id, len, transit) \in SessionSet
    BY <2>1, CountedType
  <2> QED BY <1>1, <1>2, <2>1, <2>2, <2>3, <2>4 DEF Touched
<1> QED BY <1>1, <1>2, StepShape

LEMMA ReportType ==
  ASSUME SessionTypeOK, NEW slot \in Slots
  PROVE  sessions[slot].stat \in StatSet /\ Stat(sessions[slot]) \in StatSet
<1>1. sessions[slot] \in SessionSet
  BY DEF SessionTypeOK
<1> QED BY <1>1, StatType DEF SessionSet

\* Initially no slot is used and nothing is pending.
LEMMA InitTypeOK == InitSessions => SessionTypeOK
<1>1. ZeroStat \in StatSet
  BY DEF ZeroStat, StatSet
<1>2. InitSession \in SessionSet
  BY <1>1 DEF InitSession, SessionSet, States
<1>3. zperf_session_init \in [Slots -> SessionSet]
  BY <1>2 DEF zperf_session_init
<1>4. NoReply \in [to : Addrs \cup {NoAddr}, from : Addrs \cup {NoAddr},
                   about : Addrs \cup {NoAddr}, stat : StatSet]
  BY <1>1 DEF NoReply
<1>5. NoHandler \in [pending : {"none", "resend", "finish"}, slot : Slots \cup {NoSlot}]
  BY DEF NoHandler
<1>6. [i \in Slots |-> [seen |-> {}, spread |-> 0, about |-> NoAddr]]
        \in [Slots -> [seen : SUBSET Ids, spread : Nat, about : Addrs \cup {NoAddr}]]
  OBVIOUS
<1> QED BY <1>3, <1>4, <1>5, <1>6 DEF InitSessions, SessionTypeOK

LEMMA NextTypeOK == SessionTypeOK /\ [NextSession]_sessionVars => SessionTypeOK'
<1> SUFFICES ASSUME SessionTypeOK, [NextSession]_sessionVars
             PROVE  SessionTypeOK'
  OBVIOUS
<1>1. CASE UNCHANGED sessionVars
  BY <1>1 DEF SessionTypeOK, sessionVars
<1>2. CASE StatSent
  <2>1. sessions' \in [Slots -> SessionSet]
    BY <1>2, TableType DEF NextSession
  <2>2. ZeroStat \in StatSet
    BY DEF ZeroStat, StatSet
  <2> QED BY <1>2, <2>1, <2>2
          DEF StatSent, SessionTypeOK, NoHandler, NoReply, NoSlot
<1>3. ASSUME NEW src \in Addrs, udp_received(src)
      PROVE  SessionTypeOK'
  <2>1. sessions' \in [Slots -> SessionSet]
    BY <1>3, TableType DEF NextSession
  <2>2. NoReply \in [to : Addrs \cup {NoAddr}, from : Addrs \cup {NoAddr},
                     about : Addrs \cup {NoAddr}, stat : StatSet]
    BY DEF NoReply, ZeroStat, StatSet
  <2>3. CASE ShortDatagram
    BY <2>1, <2>2, <2>3 DEF ShortDatagram, SessionTypeOK
  <2>4. ASSUME NEW addr \in Observed(src), NoSession(addr)
        PROVE  SessionTypeOK'
    BY <2>1, <2>2, <2>4 DEF NoSession, SessionTypeOK
  <2>5. ASSUME NEW addr \in Observed(src), ResendStat(src, addr)
        PROVE  SessionTypeOK'
    <3> DEFINE slot == get_session(sessions, addr)
    <3>1. slot \in Slots /\ addr \in Addrs
      BY <2>5, GetSession, ObservedAddrs DEF ResendStat
    <3>2. sessions[slot].stat \in StatSet
      BY <3>1, ReportType
    <3> QED BY <2>1, <2>5, <3>1, <3>2
            DEF ResendStat, zperf_receiver_send_stat, SessionTypeOK
  <2>6. ASSUME NEW addr \in Observed(src), NEW id \in Ids, StartSession(addr, id)
        PROVE  SessionTypeOK'
    <3>1. get_session(sessions, addr) \in Slots
      BY <2>6, GetSession DEF StartSession
    <3> QED BY <2>1, <2>2, <2>6, <3>1 DEF StartSession, FirstArrival, SessionTypeOK
  <2>7. ASSUME NEW addr \in Observed(src), FinishSession(src, addr)
        PROVE  SessionTypeOK'
    <3> DEFINE slot == get_session(sessions, addr)
    <3>1. slot \in Slots /\ addr \in Addrs
      BY <2>7, GetSession, ObservedAddrs DEF FinishSession
    <3>2. Stat(sessions[slot]) \in StatSet
      BY <3>1, ReportType
    <3> QED BY <2>1, <2>7, <3>1, <3>2
            DEF FinishSession, zperf_receiver_send_stat, SessionTypeOK
  <2>8. ASSUME NEW addr \in Observed(src), NEW id \in Ids, NEW len \in Lens,
               NEW transit \in TransitTimes, CountDatagram(addr, id, len, transit)
        PROVE  SessionTypeOK'
    <3> DEFINE slot == get_session(sessions, addr)
    <3>1. slot \in Slots
      BY <2>8, GetSession DEF CountDatagram
    <3>2. Spread(hist[slot].spread, sessions[slot], transit) \in Nat
      BY <3>1, SpreadType DEF SessionTypeOK
    <3> QED BY <2>1, <2>2, <2>8, <3>1, <3>2 DEF CountDatagram, Arrival, SessionTypeOK
  <2> QED BY <1>3, <2>3, <2>4, <2>5, <2>6, <2>7, <2>8 DEF udp_received
<1> QED BY <1>1, <1>2, <1>3 DEF NextSession

\* Type correctness of the datagram handler and its session table.
THEOREM SessionTypeCorrect == SessionSpec => []SessionTypeOK
<1> QED BY InitTypeOK, NextTypeOK, PTL DEF SessionSpec
-----------------------------------------------------------------------------
(***************************************************************************)
(* Invariants of one session: the counters balance, and the report of a    *)
(* completed session is the one its counters give.                         *)
(***************************************************************************)
Sound(s) ==
  /\ s.next_id + s.outorder = 1 + s.counter + s.error
  /\ s.state = "COMPLETED" => s.stat = Stat(s)

AllSound == \A i \in Slots : Sound(sessions[i])

LEMMA ClaimSound ==
  ASSUME NEW s \in SessionSet, Sound(s), NEW addr \in Addrs
  PROVE  Sound(Claim(s, addr))
  BY DEF Sound, Claim, Stat, SessionSet

LEMMA StartedSound ==
  ASSUME NEW s \in SessionSet
  PROVE  Sound(Started(s))
  BY DEF Sound, Started, zperf_reset_session_stats

LEMMA FinishedSound ==
  ASSUME NEW s \in SessionSet, Sound(s)
  PROVE  Sound(Finished(s))
  BY DEF Sound, Finished, Stat, SessionSet

LEMMA CountedSound ==
  ASSUME NEW s \in SessionSet, Sound(s), s.state = "ONGOING",
         NEW id \in Ids, NEW len \in Lens, NEW transit \in TransitTimes
  PROVE  Sound(Counted(s, id, len, transit))
<1> DEFINE c == Counted(s, id, len, transit)
<1>1. /\ s.counter \in Nat /\ s.outorder \in Nat /\ s.error \in Nat
      /\ s.next_id \in Nat /\ id \in Nat
  BY DEF SessionSet
<1>2. c.next_id + c.outorder = 1 + c.counter + c.error
  BY <1>1 DEF Counted, Sound
<1>3. c.state # "COMPLETED"
  BY DEF Counted
<1> QED BY <1>2, <1>3 DEF Sound

LEMMA InitSound == InitSessions => AllSound
<1> SUFFICES ASSUME InitSessions, NEW i \in Slots
             PROVE  Sound(sessions[i])
  BY DEF AllSound
<1>1. sessions[i] = InitSession
  BY DEF InitSessions, zperf_session_init
<1> QED BY <1>1 DEF Sound, InitSession

LEMMA NextSound ==
  SessionTypeOK /\ AllSound /\ [NextSession]_sessionVars => AllSound'
<1> SUFFICES ASSUME SessionTypeOK, AllSound, [NextSession]_sessionVars,
                    NEW i \in Slots
             PROVE  Sound(sessions'[i])
  BY DEF AllSound
<1>1. CASE UNCHANGED sessions
  BY <1>1 DEF AllSound
<1>2. ASSUME NEW slot \in Slots, NEW addr \in Addrs, Touched(slot, addr)
      PROVE  Sound(sessions'[i])
  <2>1. sessions \in [Slots -> SessionSet]
    BY DEF SessionTypeOK
  <2>2. sessions[slot] \in SessionSet /\ Sound(sessions[slot]) /\ Sound(sessions[i])
    BY <2>1 DEF AllSound
  <2>3. CASE i # slot
    BY <1>2, <2>1, <2>2, <2>3 DEF Touched
  <2>4. CASE i = slot
    <3>1. Sound(Claim(sessions[slot], addr))
      BY <2>2, ClaimSound
    <3>2. Sound(Started(Claim(sessions[slot], addr)))
      BY <2>2, ClaimType, StartedSound
    <3>3. Sound(Finished(sessions[slot]))
      BY <2>2, FinishedSound
    <3>4. sessions[slot].state = "ONGOING" =>
            \A id \in Ids, len \in Lens, transit \in TransitTimes :
              Sound(Counted(sessions[slot], id, len, transit))
      BY <2>2, CountedSound
    <3> QED BY <1>2, <2>1, <2>4, <3>1, <3>2, <3>3, <3>4 DEF Touched
  <2> QED BY <2>3, <2>4
<1> QED BY <1>1, <1>2, StepShape DEF sessionVars

LEMMA AlwaysSound == SessionSpec => []AllSound
<1>1. SessionTypeOK /\ AllSound /\ [NextSession]_sessionVars
        => SessionTypeOK' /\ AllSound'
  BY NextTypeOK, NextSound
<1> QED BY <1>1, InitTypeOK, InitSound, PTL DEF SessionSpec

\* The counters of every session balance, for every arrival order, loss and
\* duplication of datagrams.
THEOREM CountersAlwaysBalance == SessionSpec => []CountersBalance
<1>1. AllSound => CountersBalance
  BY DEF AllSound, Sound, CountersBalance
<1> QED BY <1>1, AlwaysSound, PTL

\* The report a completed session keeps for retransmitted FINs is its own.
THEOREM ReportAlwaysMatches == SessionSpec => []ReportMatchesSession
<1>1. AllSound => ReportMatchesSession
  BY DEF AllSound, Sound, ReportMatchesSession
<1> QED BY <1>1, AlwaysSound, PTL
-----------------------------------------------------------------------------
(***************************************************************************)
(* The jitter.  As long as no variation of the transit time reaches 2^31,  *)
(* no operation of the filter overflows and its value stays between the    *)
(* old estimate and the new variation.  JitterBounded is inductive.        *)
(***************************************************************************)
\* One step of the smoothing filter stays between the old value and the input.
LEMMA SmoothingBounded ==
  ASSUME NEW m \in Nat, NEW j \in 0 .. m, NEW a \in 0 .. m
  PROVE  j + Quotient(a - j, 16) \in 0 .. m
<1>1. CASE a >= j
  <2>1. (a - j) \div 16 \in 0 .. (a - j)
    BY <1>1
  <2> QED BY <1>1, <2>1 DEF Quotient
<1>2. CASE a < j
  <2>1. (-(a - j)) \div 16 \in 0 .. (j - a)
    BY <1>2
  <2> QED BY <1>2, <2>1 DEF Quotient
<1> QED BY <1>1, <1>2

LEMMA CountedJitter ==
  ASSUME NEW s \in SessionSet, NEW transit \in TransitTimes, NEW spread \in Nat,
         spread < WORD \div 2 => s.jitter \in 0 .. spread,
         Spread(spread, s, transit) < WORD \div 2
  PROVE  Jitter(s, transit) \in 0 .. Spread(spread, s, transit)
<1> DEFINE m == Spread(spread, s, transit)
           v == Abs(Int32(transit - s.last_transit_time))
           h == WORD \div 2
<1>1. s.last_transit_time \in Int /\ transit \in Int /\ h \in Nat
  BY HalfWord DEF SessionSet
<1>2. m \in Nat /\ v \in Nat
  BY <1>1, SpreadType, Int32Type, AbsType
<1>3. spread <= m /\ (s.last_transit_time # 0 => v <= m)
  BY <1>2 DEF Spread
<1>4. m < h
  OBVIOUS
<1>5. s.jitter \in 0 .. spread
  BY <1>1, <1>2, <1>3, <1>4
<1>6. CASE s.last_transit_time = 0
  <2>1. Jitter(s, transit) = s.jitter
    BY <1>6 DEF Jitter
  <2> HIDE DEF m
  <2>2. s.jitter \in 0 .. m
    BY <1>2, <1>3, <1>5
  <2> QED BY <2>1, <2>2 DEF m
<1>7. CASE s.last_transit_time # 0
  <2> DEFINE n == s.jitter + Quotient(v - s.jitter, 16)
  <2>1. Jitter(s, transit)
          = Int32(s.jitter + Quotient(Int32(Int32(v) - s.jitter), 16))
    BY <1>7 DEF Jitter
  <2> HIDE DEF m, v, h
  <2>2. s.jitter \in 0 .. m /\ v \in 0 .. m
    BY <1>2, <1>3, <1>5, <1>7
  <2>3. Int32(v) = v
    BY <1>1, <1>2, <1>4, <2>2, Int32Exact DEF h
  <2>4. Int32(v - s.jitter) = v - s.jitter
    <3>1. v - s.jitter \in Int /\ -h <= v - s.jitter /\ v - s.jitter < h
      BY <1>1, <1>2, <1>4, <2>2
    <3> QED BY <3>1, Int32Exact DEF h
  <2>5. n \in 0 .. m
    BY <1>2, <2>2, SmoothingBounded
  <2>6. Int32(n) = n
    <3> HIDE DEF n
    <3>1. n \in Int /\ -h <= n /\ n < h
      BY <1>1, <1>2, <1>4, <2>5
    <3> QED BY <3>1, Int32Exact DEF h
  <2>7. Jitter(s, transit) = n
    BY <2>1, <2>3, <2>4, <2>6
  <2> QED BY <2>5, <2>7 DEF m
<1> QED BY <1>6, <1>7

LEMMA InitJitter == InitSessions => JitterBounded
<1> SUFFICES ASSUME InitSessions, NEW i \in Slots
             PROVE  sessions[i].jitter \in 0 .. hist[i].spread
  BY DEF JitterBounded
<1> QED BY DEF InitSessions, zperf_session_init, InitSession

LEMMA NextJitter ==
  SessionTypeOK /\ JitterBounded /\ [NextSession]_sessionVars => JitterBounded'
<1> SUFFICES ASSUME SessionTypeOK, JitterBounded, [NextSession]_sessionVars,
                    NEW i \in Slots, hist'[i].spread < WORD \div 2
             PROVE  sessions'[i].jitter \in 0 .. hist'[i].spread
  BY DEF JitterBounded
<1>1. CASE UNCHANGED <<sessions, hist>>
  BY <1>1 DEF JitterBounded
<1>2. ASSUME NEW slot \in Slots, NEW addr \in Addrs, Touched(slot, addr)
      PROVE  sessions'[i].jitter \in 0 .. hist'[i].spread
  <2> DEFINE s == sessions[slot]
             spread == hist[slot].spread
  <2>1. /\ sessions \in [Slots -> SessionSet]
        /\ hist \in [Slots -> [seen : SUBSET Ids, spread : Nat, about : Addrs \cup {NoAddr}]]
    BY DEF SessionTypeOK
  <2>2. /\ s \in SessionSet /\ spread \in Nat
        /\ spread < WORD \div 2 => s.jitter \in 0 .. spread
    BY <2>1 DEF JitterBounded
  <2>3. CASE i # slot
    <3>1. sessions'[i] = sessions[i] /\ hist'[i] = hist[i]
      BY <1>2, <2>1, <2>3 DEF Touched
    <3> QED BY <3>1 DEF JitterBounded
  <2>4. CASE i = slot
    <3>1. CASE sessions' = [sessions EXCEPT ![slot] = Claim(s, addr)] /\ UNCHANGED hist
      <4>1. sessions'[i].jitter = s.jitter /\ hist'[i].spread = spread
        BY <2>1, <2>2, <2>4, <3>1 DEF Claim, SessionSet
      <4> QED BY <2>2, <4>1
    <3>2. ASSUME sessions' = [sessions EXCEPT ![slot] = Started(Claim(s, addr))],
                 NEW id \in Ids,
                 hist' = [hist EXCEPT ![slot] = FirstArrival(@, id)]
          PROVE  sessions'[i].jitter \in 0 .. hist'[i].spread
      <4>1. sessions'[i] = Started(Claim(s, addr)) /\ hist'[i].spread = 0
        BY <2>1, <2>4, <3>2 DEF FirstArrival
      <4>2. \A x : Started(x).jitter = 0
        BY DEF Started, zperf_reset_session_stats
      <4> QED BY <4>1, <4>2
    <3>3. ASSUME sessions' = [sessions EXCEPT ![slot] = Finished(s)],
                 NEW src \in Addrs, hist' = [hist EXCEPT ![slot].about = src]
          PROVE  sessions'[i].jitter \in 0 .. hist'[i].spread
      <4>1. sessions'[i].jitter = s.jitter /\ hist'[i].spread = spread
        BY <2>1, <2>2, <2>4, <3>3 DEF Finished, SessionSet
      <4> QED BY <2>2, <4>1
    <3>4. ASSUME NEW id \in Ids, NEW len \in Lens, NEW transit \in TransitTimes,
                 sessions' = [sessions EXCEPT ![slot] = Counted(s, id, len, transit)],
                 hist' = [hist EXCEPT ![slot] = Arrival(@, s, id, transit)]
          PROVE  sessions'[i].jitter \in 0 .. hist'[i].spread
      <4>1. sessions'[i].jitter = Jitter(s, transit)
        BY <2>1, <2>4, <3>4 DEF Counted
      <4>2. hist'[i].spread = Spread(spread, s, transit)
        BY <2>1, <2>4, <3>4 DEF Arrival
      <4> HIDE DEF s, spread
      <4> QED BY <2>2, <4>1, <4>2, CountedJitter
    <3> QED BY <1>2, <3>1, <3>2, <3>3, <3>4 DEF Touched
  <2> QED BY <2>3, <2>4
<1> QED BY <1>1, <1>2, StepShape DEF sessionVars

\* The jitter estimate, computed in int32_t with a division that truncates, is
\* never negative and never above the largest variation between the transit
\* times of successive datagrams, unless two of them lie 2^31 us apart.
THEOREM JitterAlwaysBounded == SessionSpec => []JitterBounded
<1>1. SessionTypeOK /\ JitterBounded /\ [NextSession]_sessionVars
        => SessionTypeOK' /\ JitterBounded'
  BY NextTypeOK, NextJitter
<1> QED BY <1>1, InitTypeOK, InitJitter, PTL DEF SessionSpec
-----------------------------------------------------------------------------
LEMMA InitOneSlot == InitSessions => OneSlotPerPeer
<1> SUFFICES ASSUME InitSessions, NEW i \in Slots
             PROVE  sessions[i].addr = NoAddr
  BY DEF OneSlotPerPeer
<1> QED BY DEF InitSessions, zperf_session_init, InitSession

\* Only a claim changes an address, to one that no other slot carries.
LEMMA NextOneSlot ==
  SessionTypeOK /\ OneSlotPerPeer /\ [NextSession]_sessionVars => OneSlotPerPeer'
<1> SUFFICES ASSUME SessionTypeOK, OneSlotPerPeer, [NextSession]_sessionVars
             PROVE  OneSlotPerPeer'
  OBVIOUS
<1>1. CASE UNCHANGED sessions
  BY <1>1 DEF OneSlotPerPeer
<1>2. ASSUME NEW slot \in Slots, NEW addr \in Addrs,
             slot = get_session(sessions, addr), Touched(slot, addr)
      PROVE  OneSlotPerPeer'
  <2>1. sessions \in [Slots -> SessionSet]
    BY DEF SessionTypeOK
  <2>2. \A j \in Slots : j # slot => sessions'[j] = sessions[j]
    BY <1>2, <2>1 DEF Touched
  <2>3. \/ sessions[slot].addr = addr
        \/ \A j \in Slots : sessions[j].addr # addr
    <3>1. slot # NoSlot
      BY DEF Slots, NoSlot
    <3> QED BY <1>2, <3>1, GetSession
  <2>4. sessions'[slot].addr \in {addr, sessions[slot].addr}
    <3>1. sessions[slot] \in SessionSet
      BY <2>1
    <3>2. Claim(sessions[slot], addr).addr = addr
      BY <3>1, ClaimType
    <3>3. Started(Claim(sessions[slot], addr)).addr = addr
      BY <3>2 DEF Started, zperf_reset_session_stats
    <3>4. Finished(sessions[slot]).addr = sessions[slot].addr
      BY <3>1 DEF Finished, SessionSet
    <3>5. \A id, len, transit :
            Counted(sessions[slot], id, len, transit).addr = sessions[slot].addr
      BY DEF Counted
    <3> QED BY <1>2, <2>1, <3>2, <3>3, <3>4, <3>5 DEF Touched
  <2> QED BY <2>2, <2>3, <2>4 DEF OneSlotPerPeer
<1> QED BY <1>1, <1>2, StepShape DEF sessionVars

\* No peer ever has two slots, however slots are taken over.
THEOREM PeersHaveOneSlot == SessionSpec => []OneSlotPerPeer
<1>1. SessionTypeOK /\ OneSlotPerPeer /\ [NextSession]_sessionVars
        => SessionTypeOK' /\ OneSlotPerPeer'
  BY NextTypeOK, NextOneSlot
<1> QED BY <1>1, InitTypeOK, InitOneSlot, PTL DEF SessionSpec
-----------------------------------------------------------------------------
(***************************************************************************)
(* The loss a session reports.  The induction needs to know which ids at   *)
(* or above next_id have arrived, since a gap is made of ids that are      *)
(* called lost: none, or the one that started the session, which then has  *)
(* been taken for id 0, and one more id is missing than the lower bound    *)
(* says.                                                                   *)
(***************************************************************************)
Missing(s, seen) == (0 .. (s.next_id - 1)) \ seen

LowerBound(s, seen) ==
  \/ /\ \A x \in seen : x < s.next_id
     /\ s.error - s.outorder <= Cardinality(Missing(s, seen))
  \/ /\ \E f \in seen : /\ f >= s.next_id
                       /\ \A x \in seen : x < s.next_id \/ x = f
     /\ s.error - s.outorder + 1 <= Cardinality(Missing(s, seen))

UpperBound(s, seen) ==
  Cardinality(Missing(s, seen)) <= s.error + (IF 0 \in seen THEN 0 ELSE 1)

Bracketed(s, seen) == LowerBound(s, seen) /\ UpperBound(s, seen)

AllBracketed == \A i \in Slots : Bracketed(sessions[i], hist[i].seen)

LEMMA MissingFinite ==
  ASSUME NEW s \in SessionSet, NEW seen
  PROVE  IsFiniteSet(Missing(s, seen)) /\ Cardinality(Missing(s, seen)) \in Nat
<1>1. s.next_id - 1 \in Int
  BY DEF SessionSet
<1>2. IsFiniteSet(0 .. (s.next_id - 1))
  BY <1>1, FS_Interval
<1>3. Missing(s, seen) \subseteq 0 .. (s.next_id - 1)
  BY DEF Missing
<1>4. IsFiniteSet(Missing(s, seen))
  BY <1>2, <1>3, FS_Subset
<1> QED BY <1>4, FS_CardinalityType

\* A late datagram accounts for at most one missing id.
LEMMA LateBracketed ==
  ASSUME NEW s \in SessionSet, NEW seen \in SUBSET Ids, Bracketed(s, seen),
         NEW id \in Ids, NEW len \in Lens, NEW transit \in TransitTimes,
         id < s.next_id
  PROVE  Bracketed(Counted(s, id, len, transit), seen \cup {id})
<1> DEFINE c == Counted(s, id, len, transit)
           M == Missing(s, seen)
           N == Missing(c, seen \cup {id})
<1>1. /\ id \in Nat /\ s.next_id \in Nat /\ s.error \in Nat /\ s.outorder \in Nat
      /\ seen \subseteq Nat
  BY DEF SessionSet
<1>2. /\ c.next_id = s.next_id /\ c.error = s.error
      /\ c.outorder = s.outorder + 1
  BY <1>1 DEF Counted
<1>3. N = M \ {id}
  BY <1>2 DEF Missing
<1>4. IsFiniteSet(M) /\ Cardinality(M) \in Nat
  BY MissingFinite
<1>5. /\ id \in M => Cardinality(N) = Cardinality(M) - 1
      /\ id \notin M => Cardinality(N) = Cardinality(M)
  <2> HIDE DEF M, N
  <2>1. CASE id \in M
    BY <1>3, <1>4, <2>1, FS_RemoveElement
  <2>2. CASE id \notin M
    <3>1. N = M
      BY <1>3, <2>2
    <3> QED BY <2>2, <3>1
  <2> QED BY <2>1, <2>2
<1>6. id \in M <=> id \notin seen
  BY <1>1 DEF Missing
<1>7. LowerBound(c, seen \cup {id})
  <2>1. CASE /\ \A x \in seen : x < s.next_id
             /\ s.error - s.outorder <= Cardinality(M)
    <3>1. \A x \in seen \cup {id} : x < c.next_id
      BY <1>2, <2>1
    <3> HIDE DEF M, N, c
    <3>2. c.error - c.outorder <= Cardinality(N)
      BY <1>1, <1>2, <1>4, <1>5, <2>1
    <3> QED BY <3>1, <3>2 DEF LowerBound, N
  <2>2. ASSUME NEW f \in seen, f >= s.next_id,
               \A x \in seen : x < s.next_id \/ x = f,
               s.error - s.outorder + 1 <= Cardinality(M)
        PROVE  LowerBound(c, seen \cup {id})
    <3>1. /\ f \in seen \cup {id} /\ f >= c.next_id
          /\ \A x \in seen \cup {id} : x < c.next_id \/ x = f
      BY <1>2, <2>2
    <3> HIDE DEF M, N, c
    <3>2. c.error - c.outorder + 1 <= Cardinality(N)
      BY <1>1, <1>2, <1>4, <1>5, <2>2
    <3> QED BY <3>1, <3>2 DEF LowerBound, N
  <2> QED BY <2>1, <2>2 DEF Bracketed, LowerBound
<1>8. UpperBound(c, seen \cup {id})
  <2>1. Cardinality(M) <= s.error + (IF 0 \in seen THEN 0 ELSE 1)
    BY DEF Bracketed, UpperBound
  <2> HIDE DEF M, N, c
  <2>2. CASE id = 0 /\ 0 \notin seen
    <3>1. Cardinality(N) = Cardinality(M) - 1 /\ 0 \in seen \cup {id}
      BY <1>5, <1>6, <2>2
    <3>2. Cardinality(N) <= c.error + 0
      BY <1>1, <1>2, <1>4, <2>1, <2>2, <3>1
    <3> QED BY <3>1, <3>2 DEF UpperBound, N
  <2>3. CASE ~(id = 0 /\ 0 \notin seen)
    <3>1. 0 \in seen \cup {id} <=> 0 \in seen
      BY <2>3
    <3>2. Cardinality(N) <= Cardinality(M) /\ Cardinality(N) \in Int
      BY <1>4, <1>5
    <3>3. Cardinality(N) <= c.error + (IF 0 \in seen THEN 0 ELSE 1)
      BY <1>1, <1>2, <1>4, <2>1, <3>2
    <3> QED BY <3>1, <3>3 DEF UpperBound, N
  <2> QED BY <2>2, <2>3
<1> QED BY <1>7, <1>8 DEF Bracketed

\* The ids that a datagram skips, without those that had arrived before.
Skipped(s, id, seen) == (s.next_id .. (id - 1)) \ seen

\* At most the id that started the session is among those skipped.
LEMMA SkippedCount ==
  ASSUME NEW s \in SessionSet, NEW seen \in SUBSET Ids, NEW id \in Ids,
         ~(id < s.next_id)
  PROVE  LET G == Skipped(s, id, seen)
             n == id - s.next_id
         IN  /\ IsFiniteSet(G) /\ Cardinality(G) \in Nat /\ Cardinality(G) <= n
             /\ \A f \in seen :
                  f >= s.next_id /\ (\A x \in seen : x < s.next_id \/ x = f) =>
                    Cardinality(G) = IF f < id THEN n - 1 ELSE n
             /\ (\A x \in seen : x < s.next_id) => Cardinality(G) = n
<1> DEFINE G == Skipped(s, id, seen)
           n == id - s.next_id
           I == s.next_id .. (id - 1)
<1>1. id \in Nat /\ s.next_id \in Nat \ {0} /\ seen \subseteq Nat
  BY DEF SessionSet
<1>2. IsFiniteSet(I) /\ Cardinality(I) = n /\ n \in Nat
  <2>1. s.next_id \in Int /\ id - 1 \in Int
    BY <1>1
  <2>2. /\ IsFiniteSet(I)
        /\ Cardinality(I) = IF s.next_id > id - 1 THEN 0 ELSE (id - 1) - s.next_id + 1
    BY <2>1, FS_Interval
  <2> QED BY <1>1, <2>2
<1>3. G \subseteq I
  BY DEF Skipped
<1>4. IsFiniteSet(G) /\ Cardinality(G) \in Nat /\ Cardinality(G) <= n
  <2> HIDE DEF G, I, n
  <2> QED BY <1>2, <1>3, FS_Subset, FS_CardinalityType
<1>5. ASSUME NEW f \in seen, f >= s.next_id, \A x \in seen : x < s.next_id \/ x = f
      PROVE  Cardinality(G) = IF f < id THEN n - 1 ELSE n
  <2>1. f \in Nat /\ (f \in I <=> f < id)
    BY <1>1, <1>5
  <2>2. G = I \ {f}
    BY <1>1, <1>5 DEF Skipped
  <2>3. CASE f < id
    <3>1. f \in I
      BY <2>1, <2>3
    <3> HIDE DEF G, I, n
    <3>2. Cardinality(I \ {f}) = Cardinality(I) - 1
      BY <1>2, <3>1, FS_RemoveElement
    <3> QED BY <1>2, <2>2, <2>3, <3>2
  <2>4. CASE ~(f < id)
    <3>1. G = I
      BY <2>1, <2>2, <2>4
    <3> QED BY <1>2, <2>4, <3>1
  <2> QED BY <2>3, <2>4
<1>6. ASSUME \A x \in seen : x < s.next_id
      PROVE  Cardinality(G) = n
  <2>1. G = I
    BY <1>1, <1>6 DEF Skipped
  <2> QED BY <1>2, <2>1
<1> HIDE DEF G, n
<1> QED BY <1>4, <1>5, <1>6 DEF G, n

\* A datagram at or beyond next_id makes every id it skips a missing one, but
\* for the one that started the session.
LEMMA AheadBracketed ==
  ASSUME NEW s \in SessionSet, NEW seen \in SUBSET Ids, Bracketed(s, seen),
         NEW id \in Ids, NEW len \in Lens, NEW transit \in TransitTimes,
         ~(id < s.next_id)
  PROVE  Bracketed(Counted(s, id, len, transit), seen \cup {id})
<1> DEFINE c == Counted(s, id, len, transit)
           M == Missing(s, seen)
           N == Missing(c, seen \cup {id})
           G == Skipped(s, id, seen)
<1>1. /\ id \in Nat /\ s.next_id \in Nat \ {0} /\ s.error \in Nat
      /\ s.outorder \in Nat /\ seen \subseteq Nat
  BY DEF SessionSet
<1>2. /\ c.next_id = id + 1 /\ c.error = s.error + (id - s.next_id)
      /\ c.outorder = s.outorder
  BY <1>1 DEF Counted
<1>3. N = M \cup G /\ M \cap G = {}
  BY <1>1, <1>2 DEF Missing, Skipped
<1>4. IsFiniteSet(M) /\ Cardinality(M) \in Nat
  BY MissingFinite
<1>5. /\ IsFiniteSet(G) /\ Cardinality(G) \in Nat
      /\ Cardinality(G) <= id - s.next_id
  BY SkippedCount
<1>6. Cardinality(N) = Cardinality(M) + Cardinality(G)
  <2>1. Cardinality(M \cap G) = 0
    BY <1>3, FS_EmptySet
  <2> HIDE DEF M, N, G
  <2>2. Cardinality(M \cup G)
          = Cardinality(M) + Cardinality(G) - Cardinality(M \cap G)
    BY <1>4, <1>5, FS_Union
  <2> QED BY <1>3, <1>4, <1>5, <2>1, <2>2
<1>7. LowerBound(c, seen \cup {id})
  <2>1. CASE /\ \A x \in seen : x < s.next_id
             /\ s.error - s.outorder <= Cardinality(M)
    <3>1. \A x \in seen \cup {id} : x < c.next_id
      BY <1>1, <1>2, <2>1
    <3>2. Cardinality(G) = id - s.next_id
      BY <2>1, SkippedCount
    <3> HIDE DEF M, N, G, c
    <3>3. c.error - c.outorder <= Cardinality(N)
      BY <1>1, <1>2, <1>4, <1>6, <2>1, <3>2
    <3> QED BY <3>1, <3>3 DEF LowerBound, N
  <2>2. ASSUME NEW f \in seen, f >= s.next_id,
               \A x \in seen : x < s.next_id \/ x = f,
               s.error - s.outorder + 1 <= Cardinality(M)
        PROVE  LowerBound(c, seen \cup {id})
    <3>1. Cardinality(G) = IF f < id THEN (id - s.next_id) - 1 ELSE id - s.next_id
      BY <2>2, SkippedCount
    <3>2. f \in Nat
      BY <1>1
    <3>3. CASE f <= id
      <4>1. \A x \in seen \cup {id} : x < c.next_id
        BY <1>1, <1>2, <2>2, <3>2, <3>3
      <4> HIDE DEF M, N, G, c
      <4>2. c.error - c.outorder <= Cardinality(N)
        BY <1>1, <1>2, <1>4, <1>6, <2>2, <3>1, <3>2, <3>3
      <4> QED BY <4>1, <4>2 DEF LowerBound, N
    <3>4. CASE f > id
      <4>1. /\ f \in seen \cup {id} /\ f >= c.next_id
            /\ \A x \in seen \cup {id} : x < c.next_id \/ x = f
        BY <1>1, <1>2, <2>2, <3>2, <3>4
      <4> HIDE DEF M, N, G, c
      <4>2. c.error - c.outorder + 1 <= Cardinality(N)
        BY <1>1, <1>2, <1>4, <1>6, <2>2, <3>1, <3>2, <3>4
      <4> QED BY <4>1, <4>2 DEF LowerBound, N
    <3> QED BY <1>1, <3>2, <3>3, <3>4
  <2> QED BY <2>1, <2>2 DEF Bracketed, LowerBound
<1>8. UpperBound(c, seen \cup {id})
  <2>1. Cardinality(M) <= s.error + (IF 0 \in seen THEN 0 ELSE 1)
    BY DEF Bracketed, UpperBound
  <2>2. 0 \in seen \cup {id} <=> 0 \in seen
    BY <1>1
  <2> HIDE DEF M, N, G, c
  <2>3. Cardinality(N) <= c.error + (IF 0 \in seen THEN 0 ELSE 1)
    BY <1>1, <1>2, <1>4, <1>5, <1>6, <2>1
  <2> QED BY <2>2, <2>3 DEF UpperBound, N
<1> QED BY <1>7, <1>8 DEF Bracketed

\* A session that has counted nothing: at most its first datagram has arrived,
\* and id 0 is missing unless it was that one.
LEMMA FreshBracketed ==
  ASSUME NEW s, s.next_id = 1, s.error = 0, s.outorder = 0,
         NEW seen \in SUBSET Nat, \A x, y \in seen : x = y
  PROVE  Bracketed(s, seen)
<1>1. CASE 0 \in seen
  <2>1. Missing(s, seen) = {}
    BY <1>1 DEF Missing
  <2>2. Cardinality(Missing(s, seen)) = 0
    BY <2>1, FS_EmptySet
  <2>3. \A x \in seen : x < s.next_id
    BY <1>1
  <2> QED BY <1>1, <2>2, <2>3 DEF Bracketed, LowerBound, UpperBound
<1>2. CASE 0 \notin seen
  <2>1. Missing(s, seen) = {0}
    BY <1>2 DEF Missing
  <2>2. Cardinality(Missing(s, seen)) = 1
    BY <2>1, FS_Singleton
  <2>3. CASE seen = {}
    BY <1>2, <2>2, <2>3 DEF Bracketed, LowerBound, UpperBound
  <2>4. ASSUME NEW f \in seen
        PROVE  Bracketed(s, seen)
    <3>1. f >= s.next_id /\ \A x \in seen : x = f
      BY <1>2
    <3> QED BY <1>2, <2>2, <3>1 DEF Bracketed, LowerBound, UpperBound
  <2> QED BY <2>3, <2>4
<1> QED BY <1>1, <1>2

\* Only the counters matter.
LEMMA SameBracketed ==
  ASSUME NEW s, NEW t, NEW seen, Bracketed(s, seen),
         t.next_id = s.next_id, t.error = s.error, t.outorder = s.outorder
  PROVE  Bracketed(t, seen)
  BY DEF Bracketed, LowerBound, UpperBound, Missing

LEMMA InitBracketed == InitSessions => AllBracketed
<1> SUFFICES ASSUME InitSessions, NEW i \in Slots
             PROVE  Bracketed(sessions[i], hist[i].seen)
  BY DEF AllBracketed
<1>1. sessions[i] = InitSession /\ hist[i] = [seen |-> {}, spread |-> 0, about |-> NoAddr]
  BY DEF InitSessions, zperf_session_init
<1>2. InitSession.next_id = 1 /\ InitSession.error = 0 /\ InitSession.outorder = 0
  BY DEF InitSession
<1> QED BY <1>1, <1>2, FreshBracketed

LEMMA NextBracketed ==
  SessionTypeOK /\ AllBracketed /\ [NextSession]_sessionVars => AllBracketed'
<1> SUFFICES ASSUME SessionTypeOK, AllBracketed, [NextSession]_sessionVars,
                    NEW i \in Slots
             PROVE  Bracketed(sessions'[i], hist'[i].seen)
  BY DEF AllBracketed
<1>1. CASE UNCHANGED <<sessions, hist>>
  BY <1>1 DEF AllBracketed
<1>2. ASSUME NEW slot \in Slots, NEW addr \in Addrs, Touched(slot, addr)
      PROVE  Bracketed(sessions'[i], hist'[i].seen)
  <2> DEFINE s == sessions[slot]
             seen == hist[slot].seen
  <2>1. /\ sessions \in [Slots -> SessionSet]
        /\ hist \in [Slots -> [seen : SUBSET Ids, spread : Nat, about : Addrs \cup {NoAddr}]]
    BY DEF SessionTypeOK
  <2>2. /\ s \in SessionSet /\ seen \in SUBSET Ids /\ Bracketed(s, seen)
        /\ Bracketed(sessions[i], hist[i].seen)
    BY <2>1 DEF AllBracketed
  <2>3. CASE i # slot
    <3>1. sessions'[i] = sessions[i] /\ hist'[i] = hist[i]
      BY <1>2, <2>1, <2>3 DEF Touched
    <3> QED BY <2>2, <3>1
  <2>4. CASE i = slot
    <3>1. CASE sessions' = [sessions EXCEPT ![slot] = Claim(s, addr)] /\ UNCHANGED hist
      <4>1. sessions'[i] = Claim(s, addr) /\ hist'[i].seen = seen
        BY <2>1, <2>4, <3>1
      <4>2. /\ Claim(s, addr).next_id = s.next_id /\ Claim(s, addr).error = s.error
            /\ Claim(s, addr).outorder = s.outorder
        BY <2>2 DEF Claim, SessionSet
      <4> QED BY <2>2, <4>1, <4>2, SameBracketed
    <3>2. ASSUME sessions' = [sessions EXCEPT ![slot] = Started(Claim(s, addr))],
                 NEW id \in Ids,
                 hist' = [hist EXCEPT ![slot] = FirstArrival(@, id)]
          PROVE  Bracketed(sessions'[i], hist'[i].seen)
      <4>1. sessions'[i] = Started(Claim(s, addr)) /\ hist'[i].seen = {id}
        BY <2>1, <2>4, <3>2 DEF FirstArrival
      <4>2. \A x : Started(x).next_id = 1 /\ Started(x).error = 0 /\ Started(x).outorder = 0
        BY DEF Started, zperf_reset_session_stats
      <4>3. {id} \in SUBSET Nat
        OBVIOUS
      <4> QED BY <4>1, <4>2, <4>3, FreshBracketed
    <3>3. ASSUME sessions' = [sessions EXCEPT ![slot] = Finished(s)],
                 NEW src \in Addrs, hist' = [hist EXCEPT ![slot].about = src]
          PROVE  Bracketed(sessions'[i], hist'[i].seen)
      <4>1. sessions'[i] = Finished(s) /\ hist'[i].seen = seen
        BY <2>1, <2>4, <3>3
      <4>2. /\ Finished(s).next_id = s.next_id /\ Finished(s).error = s.error
            /\ Finished(s).outorder = s.outorder
        BY <2>2 DEF Finished, SessionSet
      <4> QED BY <2>2, <4>1, <4>2, SameBracketed
    <3>4. ASSUME NEW id \in Ids, NEW len \in Lens, NEW transit \in TransitTimes,
                 sessions' = [sessions EXCEPT ![slot] = Counted(s, id, len, transit)],
                 hist' = [hist EXCEPT ![slot] = Arrival(@, s, id, transit)]
          PROVE  Bracketed(sessions'[i], hist'[i].seen)
      <4>1. sessions'[i] = Counted(s, id, len, transit) /\ hist'[i].seen = seen \cup {id}
        BY <2>1, <2>4, <3>4 DEF Arrival
      <4> HIDE DEF s, seen
      <4> QED BY <2>2, <4>1, LateBracketed, AheadBracketed
    <3> QED BY <1>2, <3>1, <3>2, <3>3, <3>4 DEF Touched
  <2> QED BY <2>3, <2>4
<1> QED BY <1>1, <1>2, StepShape DEF sessionVars

\* The number of ids below next_id that never arrived is at least the reported
\* losses minus the reported out-of-order datagrams, and at most the reported
\* losses, or one more when id 0 has not arrived.
THEOREM LossAlwaysBracketed == SessionSpec => []LossIsBracketed
<1>1. SessionTypeOK /\ AllBracketed => LossIsBracketed
  <2> SUFFICES ASSUME SessionTypeOK, AllBracketed, NEW i \in Slots
               PROVE  LET s == sessions[i]
                          m == Cardinality((0 .. (s.next_id - 1)) \ hist[i].seen)
                      IN  /\ s.error - s.outorder <= m
                          /\ m <= s.error + (IF 0 \in hist[i].seen THEN 0 ELSE 1)
    BY DEF LossIsBracketed
  <2> DEFINE s == sessions[i]
             M == Missing(s, hist[i].seen)
  <2>1. s \in SessionSet /\ s.error \in Nat /\ s.outorder \in Nat
    BY DEF SessionTypeOK, SessionSet
  <2>2. Cardinality(M) \in Nat
    BY <2>1, MissingFinite
  <2>3. /\ \/ s.error - s.outorder <= Cardinality(M)
           \/ s.error - s.outorder + 1 <= Cardinality(M)
        /\ Cardinality(M) <= s.error + (IF 0 \in hist[i].seen THEN 0 ELSE 1)
    BY DEF AllBracketed, Bracketed, LowerBound, UpperBound
  <2>4. s.error - s.outorder <= Cardinality(M)
    <3> HIDE DEF M, s
    <3> QED BY <2>1, <2>2, <2>3
  <2> QED BY <2>3, <2>4 DEF Missing
<1>2. SessionTypeOK /\ AllBracketed /\ [NextSession]_sessionVars
        => SessionTypeOK' /\ AllBracketed'
  BY NextTypeOK, NextBracketed
<1> QED BY <1>1, <1>2, InitTypeOK, InitBracketed, PTL DEF SessionSpec
-----------------------------------------------------------------------------
\* An ongoing session keeps its peer and never loses a count.
THEOREM OngoingSessionsGrow == SessionSpec => OngoingOnlyGrows
<1> DEFINE Grows(i) ==
      sessions[i].state = "ONGOING" =>
         /\ sessions'[i].addr = sessions[i].addr
         /\ sessions'[i].state \in {"ONGOING", "COMPLETED"}
         /\ sessions'[i].next_id >= sessions[i].next_id
         /\ sessions'[i].counter >= sessions[i].counter
         /\ sessions'[i].error >= sessions[i].error
         /\ sessions'[i].state = "COMPLETED" =>
              sessions'[i].counter = sessions[i].counter
<1>1. ASSUME SessionTypeOK, [NextSession]_sessionVars, NEW i \in Slots
      PROVE  Grows(i)
  <2>1. sessions \in [Slots -> SessionSet]
    BY <1>1 DEF SessionTypeOK
  <2>2. /\ sessions[i].next_id \in Nat /\ sessions[i].counter \in Nat
        /\ sessions[i].error \in Nat
    BY <2>1 DEF SessionSet
  <2>3. CASE UNCHANGED sessions
    BY <2>2, <2>3
  <2>4. ASSUME NEW slot \in Slots, NEW addr \in Addrs, Touched(slot, addr)
        PROVE  Grows(i)
    <3>1. CASE i # slot \/ sessions[slot].state # "ONGOING"
      BY <2>1, <2>2, <2>4, <3>1 DEF Touched
    <3>2. CASE i = slot /\ sessions' = [sessions EXCEPT ![slot] = Finished(sessions[slot])]
      BY <2>1, <2>2, <3>2 DEF Finished, SessionSet
    <3>3. ASSUME i = slot, sessions[slot].state = "ONGOING",
                 NEW id \in Ids, NEW len \in Lens, NEW transit \in TransitTimes,
                 sessions' = [sessions EXCEPT
                                ![slot] = Counted(sessions[slot], id, len, transit)]
          PROVE  Grows(i)
      <4>1. sessions'[i] = Counted(sessions[i], id, len, transit)
        BY <2>1, <3>3
      <4>2. id \in Nat
        OBVIOUS
      <4> QED BY <2>2, <3>3, <4>1, <4>2 DEF Counted
    <3> QED BY <2>4, <3>1, <3>2, <3>3 DEF Touched
  <2> QED BY <1>1, <2>3, <2>4, StepShape DEF sessionVars
<1>2. SessionTypeOK /\ [NextSession]_sessionVars => [\A i \in Slots : Grows(i)]_sessionVars
  BY <1>1
<1> QED BY <1>2, SessionTypeCorrect, PTL DEF SessionSpec, OngoingOnlyGrows
=============================================================================
