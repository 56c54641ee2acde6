-------------------------- MODULE UdpPacingProofs ---------------------------
(***************************************************************************)
(* Proofs about UdpPacing, for every tick rate, packet duration, length of *)
(* the upload, lateness and width of the tick counter.                     *)
(*                                                                         *)
(* The argument: the difference of two tick counts that the loop takes is  *)
(* the time that passed, because an iteration is shorter than half a turn  *)
(* of the counter (Clock, Interval); the delay is what the sender is ahead *)
(* of its rate by, plus one packet (MakesUp), so that sleeping for it      *)
(* takes the lead back, as far as K_TICKS does not shorten the sleep; and  *)
(* the delay stays below a bound (DelayBound), which bounds an iteration.  *)
(***************************************************************************)
EXTENDS UdpPacing, TLAPS

USE PacingAssumption

Slack == 2 * packet_duration + 2 * MaxLate

\* The ticks since the last iteration began.
Passed == elapsed - sent_at

\* The tick counter since the last iteration: it has wrapped at most once.
Clock ==
  /\ Passed \in Nat
  /\ now = last_loop_time + Passed \/ now = last_loop_time + Passed - TICKS

\* Before the first iteration nothing has been sent or waited for.
Fresh ==
  nb_packets = 0 =>
    /\ pc \in {"loop", "send", "failed"}
    /\ paced = 0
    /\ pc = "loop" => due = 0 /\ sent_at = 0 /\ delay = packet_duration

\* Where the task is between the start of an iteration and the next.
Waits ==
  /\ pc \in {"loop", "send", "sleep"} => elapsed <= due + MaxLate
  /\ pc = "send" => due = sent_at /\ nb_packets < MaxPackets
  /\ pc \in {"sleep", "loop"} /\ nb_packets > 0 =>
       /\ sent_at + K_TICKS(delay) <= due
       /\ due <= sent_at + MaxLate + K_TICKS(delay)
  /\ pc = "loop" => due <= elapsed

\* The delay is bounded, and a sleep takes at most two packet durations.
DelayBound == TICK_RATE_HZ * delay <= 2000 * packet_duration

\* The delay is at least the lead of the sender and one packet.
MakesUp == (paced + 1) * packet_duration <= delay + sent_at

\* As long as the counter does not wrap, it shows the time since the start.
Unwrapped ==
  end_time + Slack < TICKS =>
    /\ last_loop_time + duration = end_time + sent_at
    /\ sent_at <= duration + Slack
    /\ pc = "loop" /\ nb_packets > 0 => last_loop_time < end_time

PacingInv ==
  /\ PacingTypeOK
  /\ Clock
  /\ Fresh
  /\ Waits
  /\ DelayBound
  /\ MakesUp
  /\ Unwrapped
  /\ PacedRate
-----------------------------------------------------------------------------
(***************************************************************************)
(* Arithmetic.                                                             *)
(***************************************************************************)

\* The remainder of a number less than one turn away.
LEMMA Turn ==
  ASSUME NEW t \in Nat \ {0}, NEW x \in Int
  PROVE  /\ 0 <= x /\ x < t => x % t = x
         /\ t <= x /\ x < 2 * t => x % t = x - t
         /\ -t <= x /\ x < 0 => x % t = x + t
  OBVIOUS

\* Conversion to int32_t takes a difference of ticks modulo one turn back.
LEMMA Int32Back ==
  ASSUME NEW d \in Nat, 2 * d < TICKS
  PROVE  Int32(d) = d /\ Int32(d - TICKS) = d
<1> DEFINE h == TICKS \div 2
<1>1. h \in Nat /\ 2 * h <= TICKS /\ TICKS <= 2 * h + 1
  OBVIOUS
<1> HIDE DEF h
<1>2. d + h \in Int /\ 0 <= d + h /\ d + h < TICKS
  BY <1>1
<1>3. (d + h) % TICKS = d + h
  BY <1>2, Turn
<1>4. d - TICKS + h \in Int /\ -TICKS <= d - TICKS + h /\ d - TICKS + h < 0
  BY <1>1, <1>2
<1>5. (d - TICKS + h) % TICKS = d - TICKS + h + TICKS
  BY <1>4, Turn
<1> QED BY <1>1, <1>3, <1>5 DEF Int32, h

\* K_TICKS rounds down.
LEMMA KTicks ==
  ASSUME NEW n \in Nat
  PROVE  /\ K_TICKS(n) \in Nat
         /\ 1000 * K_TICKS(n) <= TICK_RATE_HZ * n
         /\ TICK_RATE_HZ * n <= 1000 * K_TICKS(n) + 999
<1> DEFINE m == n * TICK_RATE_HZ
<1>1. m \in Nat /\ m = TICK_RATE_HZ * n
  OBVIOUS
<1> HIDE DEF m
<1>2. /\ m \div 1000 \in Nat /\ 1000 * (m \div 1000) <= m
      /\ m <= 1000 * (m \div 1000) + 999
  BY <1>1
<1> QED BY <1>1, <1>2 DEF K_TICKS, m

\* Products.
LEMMA Grow ==
  ASSUME NEW a \in Int, NEW b \in Int
  PROVE  (a + 1) * b = a * b + b /\ a * b \in Int
  OBVIOUS

LEMMA Scale ==
  ASSUME NEW c \in Nat, NEW a \in Int, NEW b \in Int, a <= b
  PROVE  c * a <= c * b /\ c * a \in Int /\ c * b \in Int
<1>1. b - a \in Nat
  OBVIOUS
<1>2. c * (b - a) \in Nat
  BY <1>1
<1>3. c * (b - a) = c * b - c * a
  OBVIOUS
<1> QED BY <1>2, <1>3

(***************************************************************************)
(* The lead of a sender that sleeps for its lead and one packet, shortened *)
(* by K_TICKS.                                                             *)
(***************************************************************************)
LEMMA LeadBounded ==
  ASSUME NEW r \in 1 .. 1000, NEW pd \in Nat, NEW lead \in Int, NEW slept \in Nat,
         r * lead <= (1000 - r) * pd + 999,
         r * (lead + pd) <= 1000 * slept + 999
  PROVE  r * (lead + pd - slept) <= (1000 - r) * pd + 999
<1> DEFINE a == 1000 - r
           e == lead + pd
           n == lead + pd - slept
<1>1. a \in Nat /\ r \in Nat /\ r + a = 1000 /\ e \in Int /\ n \in Int
  OBVIOUS
<1>2. 1000 * n <= a * e + 999
  <2>1. 1000 * e = r * e + a * e
    <3>1. (r + a) * e = r * e + a * e
      BY <1>1
    <3> QED BY <1>1, <3>1
  <2>2. r * e \in Int /\ a * e \in Int
    BY <1>1
  <2> QED BY <1>1, <2>1, <2>2
<1>3. r * e <= a * pd + 999 + r * pd
  <2>1. r * e = r * lead + r * pd
    OBVIOUS
  <2> QED BY <2>1
<1>4. a * pd + r * pd = 1000 * pd
  <2>1. (a + r) * pd = a * pd + r * pd
    BY <1>1
  <2> QED BY <1>1, <2>1
<1>5. a * (r * e) <= a * (1000 * pd + 999)
  <2>1. r * e \in Int /\ 1000 * pd + 999 \in Int
    BY <1>1
  <2>2. r * pd \in Int /\ a * pd \in Int
    BY <1>1
  <2>3. r * e <= 1000 * pd + 999
    BY <1>3, <1>4, <2>1, <2>2
  <2> QED BY <1>1, <2>1, <2>3, Scale
<1>6. r * (1000 * n) <= r * (a * e + 999)
  <2>1. 1000 * n \in Int /\ a * e + 999 \in Int
    BY <1>1
  <2> QED BY <1>1, <1>2, <2>1, Scale
<1>7. r * (a * e + 999) = a * (r * e) + 999 * r
  BY <1>1
<1>8. a * (1000 * pd + 999) = 1000 * (a * pd) + 999 * a
  BY <1>1
<1>9. r * (1000 * n) = 1000 * (r * n)
  BY <1>1
<1>10. 1000 * (r * n) <= 1000 * (a * pd) + 999 * 1000
  <2>1. /\ r * n \in Int /\ a * pd \in Int /\ a * (r * e) \in Int
        /\ r * (a * e + 999) \in Int /\ a * (1000 * pd + 999) \in Int
    BY <1>1
  <2> QED BY <1>1, <1>5, <1>6, <1>7, <1>8, <1>9, <2>1
<1>11. r * n <= a * pd + 999
  <2>1. r * n \in Int /\ a * pd \in Int
    BY <1>1
  <2> QED BY <1>10, <2>1
<1> QED BY <1>11
-----------------------------------------------------------------------------
(***************************************************************************)
(* One iteration.                                                          *)
(***************************************************************************)

\* A sleep takes at most two packet durations.
LEMMA SleepBound ==
  ASSUME PacingTypeOK, DelayBound
  PROVE  K_TICKS(delay) \in Nat /\ K_TICKS(delay) <= 2 * packet_duration
<1>1. /\ K_TICKS(delay) \in Nat
      /\ 1000 * K_TICKS(delay) <= TICK_RATE_HZ * delay
  BY KTicks DEF PacingTypeOK
<1>2. TICK_RATE_HZ * delay \in Nat
  BY DEF PacingTypeOK
<1> QED BY <1>1, <1>2 DEF DelayBound

\* An iteration takes at most Slack, and no less than the sleep.
LEMMA Interval ==
  ASSUME PacingInv
  PROVE  /\ pc \in {"loop", "send", "sleep"} => Passed <= Slack
         /\ pc = "loop" /\ nb_packets > 0 => K_TICKS(delay) <= Passed
         /\ pc = "loop" /\ nb_packets = 0 => Passed <= MaxLate
<1>0. /\ elapsed \in Nat /\ due \in Nat /\ sent_at \in Nat /\ nb_packets \in Nat
      /\ MaxLate \in Nat /\ packet_duration \in Nat
  BY DEF PacingInv, PacingTypeOK
<1>1. K_TICKS(delay) \in Nat /\ K_TICKS(delay) <= 2 * packet_duration
  BY SleepBound DEF PacingInv
<1>2. Waits /\ Fresh
  BY DEF PacingInv
<1>3. CASE pc = "send"
  BY <1>0, <1>2, <1>3 DEF Waits, Passed, Slack
<1>4. CASE pc \in {"sleep", "loop"} /\ nb_packets > 0
  BY <1>0, <1>1, <1>2, <1>4 DEF Waits, Passed, Slack
<1>5. CASE pc \in {"sleep", "loop"} /\ nb_packets = 0
  BY <1>0, <1>2, <1>5 DEF Fresh, Waits, Passed, Slack
<1> QED BY <1>0, <1>3, <1>4, <1>5

\* The loop sees the time that passed, across a wrap of the counter.
LEMMA Adjusted ==
  ASSUME PacingInv, pc = "loop"
  PROVE  /\ now = last_loop_time <=> Passed = 0
         /\ Int32(now - last_loop_time) = Passed
         /\ NewDelay(now) \in Nat
         /\ Passed = 0 => NewDelay(now) = delay
         /\ Passed # 0 => \/ NewDelay(now) = delay + packet_duration - Passed
                          \/ /\ NewDelay(now) = 0
                             /\ delay + packet_duration <= Passed
<1>1. /\ Passed \in Nat /\ now \in Nat /\ last_loop_time \in Nat /\ delay \in Nat
      /\ last_loop_time < TICKS
      /\ now = last_loop_time + Passed \/ now = last_loop_time + Passed - TICKS
  BY DEF PacingInv, Clock, PacingTypeOK
<1>2. 2 * Passed < TICKS
  BY <1>1, Interval DEF Slack
<1> HIDE DEF Passed
<1>3. Int32(Passed) = Passed /\ Int32(Passed - TICKS) = Passed
  BY <1>1, <1>2, Int32Back
<1>4. now - last_loop_time \in {Passed, Passed - TICKS}
  BY <1>1
<1>5. Int32(now - last_loop_time) = Passed
  BY <1>3, <1>4
<1>6. now = last_loop_time <=> Passed = 0
  <2>1. TICKS \in Nat /\ TICKS > 0
    OBVIOUS
  <2>2. CASE now = last_loop_time + Passed
    BY <1>1, <2>2
  <2>3. CASE now = last_loop_time + Passed - TICKS
    BY <1>1, <1>2, <2>1, <2>3
  <2> QED BY <1>1, <2>2, <2>3
<1> HIDE DEF Int32
<1> QED BY <1>1, <1>5, <1>6 DEF NewDelay

\* The new delay keeps the bound.
LEMMA DelayStaysBounded ==
  ASSUME PacingInv, pc = "loop"
  PROVE  TICK_RATE_HZ * NewDelay(now) <= 2000 * packet_duration
<1> DEFINE r == TICK_RATE_HZ
           pd == packet_duration
           n == NewDelay(now)
           k == K_TICKS(delay)
<1>1. /\ r \in 1 .. 1000 /\ r \in Nat /\ pd \in Nat /\ n \in Nat /\ delay \in Nat
      /\ Passed \in Nat
      /\ r * delay <= 2000 * pd
  BY Adjusted DEF PacingInv, PacingTypeOK, DelayBound, Clock
<1>2. /\ Passed = 0 => n = delay
      /\ Passed # 0 => n = delay + pd - Passed \/ n = 0
  BY Adjusted
<1>3. /\ k \in Nat /\ r * delay <= 1000 * k + 999
      /\ nb_packets > 0 => k <= Passed
  <2>1. delay \in Nat
    BY <1>1
  <2>2. k \in Nat /\ r * delay <= 1000 * k + 999
    BY <2>1, KTicks
  <2> QED BY <2>2, Interval
<1>4. nb_packets = 0 => delay = pd
  BY DEF PacingInv, Fresh
<1>5. nb_packets \in Nat
  BY DEF PacingInv, PacingTypeOK
<1> HIDE DEF r, pd, n, k, Passed
<1>6. r * pd <= 1000 * pd /\ r * pd \in Nat /\ r * delay \in Nat
  BY <1>1
<1>7. CASE n <= delay
  <2>1. r * n <= r * delay
    BY <1>1, <1>7, Scale
  <2> QED BY <1>1, <1>6, <2>1 DEF r, pd, n
<1>8. CASE n > delay
  <2>1. n <= delay + pd /\ Passed < pd
    BY <1>1, <1>2, <1>8
  <2>2. r * n <= r * (delay + pd)
    BY <1>1, <2>1, Scale
  <2>3. r * (delay + pd) = r * delay + r * pd
    BY <1>1
  <2>4. r * delay <= 1000 * pd
    BY <1>1, <1>3, <1>4, <1>5, <1>6, <2>1
  <2>5. r * n \in Nat
    BY <1>1
  <2> QED BY <1>1, <1>6, <2>2, <2>3, <2>4, <2>5 DEF r, pd, n
<1> QED BY <1>1, <1>7, <1>8

\* The lead and the delay after an iteration.
LEMMA LeadStaysBounded ==
  ASSUME PacingInv, Iterate
  PROVE  MakesUp' /\ PacedRate'
<1> DEFINE r == TICK_RATE_HZ
           pd == packet_duration
           k == K_TICKS(delay)
           lead == paced * pd - sent_at
<1>1. /\ r \in 1 .. 1000 /\ pd \in Nat /\ delay \in Nat /\ delay' \in Nat
      /\ Passed \in Nat /\ paced \in Nat /\ sent_at \in Nat /\ elapsed \in Nat
      /\ elapsed = sent_at + Passed /\ nb_packets \in Nat
  BY Adjusted DEF PacingInv, PacingTypeOK, Clock, Iterate, Passed
<1>2. /\ pc = "loop" /\ sent_at' = elapsed /\ delay' = NewDelay(now)
      /\ paced' = IF nb_packets > 0 /\ Passed # 0 THEN paced + 1 ELSE paced
  <2>1. elapsed # sent_at <=> Passed # 0
    BY <1>1
  <2> QED BY <2>1 DEF Iterate
<1>3. /\ Passed = 0 => delay' = delay
      /\ delay' >= delay + pd - Passed \/ Passed = 0
  BY <1>1, <1>2, Adjusted
<1>4. /\ k \in Nat /\ r * delay <= 1000 * k + 999
      /\ nb_packets > 0 => k <= Passed
  BY <1>1, <1>2, KTicks, Interval
<1>5. /\ (paced + 1) * pd <= delay + sent_at
      /\ r * lead <= (1000 - r) * pd + 999
  BY DEF PacingInv, MakesUp, PacedRate
<1>6. paced * pd \in Nat /\ (paced + 1) * pd = paced * pd + pd
  BY <1>1
<1>7. (paced + 1 + 1) * pd = paced * pd + pd + pd
  BY <1>1
<1>8. lead \in Int /\ lead + pd <= delay
  BY <1>1, <1>5, <1>6
<1>9. nb_packets = 0 => paced = 0
  BY DEF PacingInv, Fresh
<1> HIDE DEF r, k, Passed
<1>10. MakesUp'
  <2>1. CASE Passed = 0
    BY <1>1, <1>2, <1>3, <1>5, <2>1 DEF MakesUp
  <2>2. CASE Passed # 0 /\ nb_packets > 0
    <3>1. (paced' + 1) * pd = paced * pd + pd + pd
      BY <1>2, <1>7, <2>2
    <3>2. delay' + sent_at' >= delay + pd + sent_at
      BY <1>1, <1>2, <1>3, <2>2
    <3>3. (paced' + 1) * pd <= delay' + sent_at'
      BY <1>1, <1>2, <1>5, <1>6, <3>1, <3>2
    <3> QED BY <3>3 DEF MakesUp
  <2>3. CASE Passed # 0 /\ ~(nb_packets > 0)
    <3>1. delay' + sent_at' >= delay + pd + sent_at
      BY <1>1, <1>2, <1>3, <2>3
    <3>2. (paced + 1) * pd <= delay' + sent_at'
      BY <1>1, <1>2, <1>5, <1>6, <3>1
    <3> QED BY <1>2, <2>3, <3>2 DEF MakesUp
  <2> QED BY <2>1, <2>2, <2>3
<1>11. PacedRate'
  <2> DEFINE next == paced' * pd - sent_at'
  <2>0. SUFFICES r * next <= (1000 - r) * pd + 999
    BY DEF PacedRate, r
  <2>1. r \in Nat /\ next \in Int /\ (1000 - r) * pd \in Nat
    BY <1>1, <1>2
  <2>2. CASE Passed = 0
    BY <1>1, <1>2, <1>5, <2>2
  <2>3. CASE Passed # 0 /\ nb_packets > 0
    <3>1. next = lead + pd - Passed
      BY <1>1, <1>2, <1>6, <2>3
    <3>2. next <= lead + pd - k
      BY <1>1, <1>4, <1>8, <2>3, <3>1
    <3>3. r * (lead + pd) <= r * delay
      BY <1>1, <1>8, <2>1, Scale
    <3>4. r * (lead + pd) <= 1000 * k + 999
      <4>1. r * (lead + pd) \in Int /\ r * delay \in Int
        BY <1>1, <1>8, <2>1
      <4> QED BY <1>4, <3>3, <4>1
    <3> HIDE DEF lead, next
    <3>5. r * (lead + pd - k) <= (1000 - r) * pd + 999
      BY <1>1, <1>4, <1>5, <1>8, <3>4, LeadBounded
    <3>6. r * next <= r * (lead + pd - k)
      BY <1>1, <1>4, <1>8, <2>1, <3>2, Scale
    <3>7. r * next \in Int /\ r * (lead + pd - k) \in Int
      BY <1>1, <1>4, <1>8, <2>1
    <3> QED BY <2>1, <3>5, <3>6, <3>7
  <2>4. CASE Passed # 0 /\ ~(nb_packets > 0)
    <3>1. next <= 0
      BY <1>1, <1>2, <1>9, <2>4
    <3>2. r * next <= r * 0
      BY <2>1, <3>1, Scale
    <3>3. r * next \in Int
      BY <2>1
    <3> QED BY <2>1, <3>2, <3>3
  <2> QED BY <2>2, <2>3, <2>4
<1> QED BY <1>10, <1>11
-----------------------------------------------------------------------------
(***************************************************************************)
(* PacingInv is inductive.                                                 *)
(***************************************************************************)
LEMMA InitPacing == Init => PacingInv
<1> SUFFICES ASSUME Init
             PROVE  PacingInv
  OBVIOUS
<1>1. /\ now \in 0 .. (TICKS - 1) /\ pc = "loop" /\ delay = packet_duration
      /\ last_loop_time = now /\ end_time = now + duration /\ nb_packets = 0
      /\ elapsed = 0 /\ due = 0 /\ sent_at = 0 /\ paced = 0
  BY DEF Init
<1>2. PacingTypeOK
  BY <1>1 DEF PacingTypeOK
<1>3. Clock /\ Fresh /\ Waits /\ Unwrapped
  BY <1>1 DEF Clock, Fresh, Waits, Unwrapped, Passed, Slack
<1>4. DelayBound
  BY <1>1 DEF DelayBound
<1>5. MakesUp
  <2>1. (0 + 1) * packet_duration = packet_duration
    OBVIOUS
  <2> QED BY <1>1, <2>1 DEF MakesUp
<1>6. PacedRate
  <2>1. 0 * packet_duration - 0 = 0 /\ TICK_RATE_HZ * 0 = 0
        /\ (1000 - TICK_RATE_HZ) * packet_duration \in Nat
    OBVIOUS
  <2> QED BY <1>1, <2>1 DEF PacedRate
<1> QED BY <1>2, <1>3, <1>4, <1>5, <1>6 DEF PacingInv

LEMMA IterateInv ==
  ASSUME PacingInv, Iterate
  PROVE  PacingInv'
<1>1. /\ PacingTypeOK /\ Clock /\ Fresh /\ Waits /\ Unwrapped
  BY DEF PacingInv
<1>2. /\ pc = "loop" /\ pc' = "send" /\ nb_packets < MaxPackets
      /\ delay' = NewDelay(now) /\ last_loop_time' = now
      /\ sent_at' = elapsed /\ due' = elapsed
      /\ paced' \in {paced, paced + 1}
      /\ nb_packets = 0 => paced' = paced
      /\ UNCHANGED <<now, end_time, nb_packets, elapsed>>
  BY DEF Iterate
<1>3. PacingTypeOK'
  <2>1. delay' \in Nat
    BY <1>2, Adjusted
  <2> QED BY <1>1, <1>2, <2>1 DEF PacingTypeOK
<1>4. Clock' /\ Fresh' /\ Waits'
  BY <1>1, <1>2 DEF PacingTypeOK, Clock, Passed, Fresh, Waits
<1>5. DelayBound'
  BY <1>2, DelayStaysBounded DEF DelayBound
<1>6. MakesUp' /\ PacedRate'
  BY LeadStaysBounded
<1>7. Unwrapped'
  <2> SUFFICES ASSUME end_time + Slack < TICKS
               PROVE  /\ now + duration = end_time + elapsed
                      /\ elapsed <= duration + Slack
    BY <1>2 DEF Unwrapped, Slack
  <2>1. /\ now \in Nat /\ last_loop_time \in Nat /\ end_time \in Nat /\ elapsed \in Nat
        /\ sent_at \in Nat /\ nb_packets \in Nat /\ duration \in Nat /\ Slack \in Nat
        /\ MaxLate <= Slack
    BY <1>1 DEF PacingTypeOK, Slack
  <2>2. /\ last_loop_time + duration = end_time + sent_at
        /\ nb_packets > 0 => last_loop_time < end_time
    BY <1>1, <1>2 DEF Unwrapped
  <2>3. elapsed = sent_at + Passed /\ Passed \in Nat
    BY <1>1, <2>1 DEF Clock, Passed
  <2>4. Passed <= Slack /\ (nb_packets = 0 => sent_at = 0)
    BY <1>1, <1>2, Interval DEF Fresh
  <2>5. now = last_loop_time + Passed \/ now = last_loop_time + Passed - TICKS
    BY <1>1 DEF Clock
  <2> HIDE DEF Passed, Slack
  <2>6. sent_at <= duration /\ last_loop_time <= end_time
    BY <2>1, <2>2, <2>4
  <2>7. now = last_loop_time + Passed
    BY <2>1, <2>3, <2>4, <2>5, <2>6
  <2> QED BY <2>1, <2>2, <2>3, <2>4, <2>6, <2>7
<1> QED BY <1>3, <1>4, <1>5, <1>6, <1>7 DEF PacingInv

\* Only a tick moves the clock.
LEMMA TickInv ==
  ASSUME PacingInv, Tick
  PROVE  PacingInv'
<1>1. /\ PacingTypeOK /\ Clock /\ Fresh /\ Waits /\ DelayBound /\ MakesUp /\ Unwrapped
      /\ PacedRate
  BY DEF PacingInv
<1>2. /\ pc \in {"loop", "send", "sleep"} /\ elapsed < due + MaxLate
      /\ now' = (now + 1) % TICKS /\ elapsed' = elapsed + 1
      /\ UNCHANGED <<pc, delay, last_loop_time, end_time, nb_packets, due, sent_at, paced>>
  BY DEF Tick
<1>3. /\ now \in Nat /\ now < TICKS /\ last_loop_time \in Nat /\ last_loop_time < TICKS
      /\ elapsed \in Nat /\ due \in Nat /\ sent_at \in Nat /\ nb_packets \in Nat
      /\ delay \in Nat
  BY <1>1 DEF PacingTypeOK
<1>4. now' = IF now = TICKS - 1 THEN 0 ELSE now + 1
  <2>1. CASE now = TICKS - 1
    <3>1. TICKS \in Nat \ {0} /\ TICKS \in Int /\ now + 1 = TICKS
          /\ TICKS <= TICKS /\ TICKS < 2 * TICKS
      BY <1>3, <2>1
    <3>2. TICKS % TICKS = TICKS - TICKS
      BY <3>1, Turn
    <3> QED BY <1>2, <2>1, <3>1, <3>2
  <2>2. CASE now # TICKS - 1
    <3>1. TICKS \in Nat \ {0} /\ now + 1 \in Int /\ 0 <= now + 1 /\ now + 1 < TICKS
      BY <1>3, <2>2
    <3>2. (now + 1) % TICKS = now + 1
      BY <3>1, Turn
    <3> QED BY <1>2, <2>2, <3>2
  <2> QED BY <2>1, <2>2
<1>5. PacingTypeOK'
  BY <1>1, <1>2, <1>3, <1>4 DEF PacingTypeOK
<1>6. Passed' = Passed + 1 /\ Passed \in Nat
  BY <1>1, <1>2, <1>3 DEF Passed, Clock
<1>7. Clock'
  <2>1. 2 * Passed < TICKS
    BY <1>2, <1>6, Interval DEF Slack
  <2> HIDE DEF Passed
  <2>2. now = last_loop_time + Passed \/ now = last_loop_time + Passed - TICKS
    BY <1>1 DEF Clock
  <2>3. TICKS \in Nat
    OBVIOUS
  <2>4. \/ now' = last_loop_time + (Passed + 1)
        \/ now' = last_loop_time + (Passed + 1) - TICKS
    BY <1>3, <1>4, <1>6, <2>1, <2>2, <2>3
  <2> QED BY <1>2, <1>6, <2>4 DEF Clock
<1>8. Fresh' /\ Waits'
  BY <1>1, <1>2, <1>3 DEF Fresh, Waits, K_TICKS
<1>9. DelayBound' /\ MakesUp' /\ PacedRate'
  BY <1>1, <1>2 DEF DelayBound, MakesUp, PacedRate
<1>10. Unwrapped'
  BY <1>1, <1>2 DEF Unwrapped, Slack
<1> QED BY <1>5, <1>7, <1>8, <1>9, <1>10 DEF PacingInv

LEMMA NextPacing == PacingInv /\ [Next]_vars => PacingInv'
<1> SUFFICES ASSUME PacingInv, [Next]_vars
             PROVE  PacingInv'
  OBVIOUS
<1>1. /\ PacingTypeOK /\ Clock /\ Fresh /\ Waits /\ DelayBound /\ MakesUp /\ Unwrapped
      /\ PacedRate
  BY DEF PacingInv
<1>2. CASE Iterate
  BY <1>2, IterateInv
<1>3. CASE Tick
  BY <1>3, TickInv
<1>4. ASSUME UNCHANGED <<now, delay, last_loop_time, end_time, elapsed, sent_at, paced>>
      PROVE  Clock' /\ DelayBound' /\ MakesUp' /\ PacedRate'
  BY <1>1, <1>4 DEF Clock, Passed, DelayBound, MakesUp, PacedRate
<1>5. CASE Sent
  <2>1. /\ pc = "send" /\ pc' = "sleep" /\ nb_packets' = nb_packets + 1
        /\ due' = elapsed + K_TICKS(delay)
        /\ UNCHANGED <<now, delay, last_loop_time, end_time, elapsed, sent_at, paced>>
    BY <1>5 DEF Sent
  <2>2. K_TICKS(delay) \in Nat /\ K_TICKS(delay') = K_TICKS(delay)
    BY <1>1, <2>1, SleepBound
  <2>3. PacingTypeOK'
    BY <1>1, <2>1, <2>2 DEF PacingTypeOK, Waits
  <2>4. Fresh' /\ Waits' /\ Unwrapped'
    BY <1>1, <2>1, <2>2 DEF PacingTypeOK, Clock, Passed, Fresh, Waits, Unwrapped, Slack
  <2> QED BY <1>4, <2>1, <2>3, <2>4 DEF PacingInv
<1>6. CASE SendFails
  <2>1. /\ pc' = "failed"
        /\ UNCHANGED <<now, delay, last_loop_time, end_time, nb_packets, elapsed, due,
                       sent_at, paced>>
    BY <1>6 DEF SendFails
  <2>2. PacingTypeOK' /\ Fresh' /\ Waits' /\ Unwrapped'
    BY <1>1, <2>1 DEF PacingTypeOK, Fresh, Waits, Unwrapped, Slack
  <2> QED BY <1>4, <2>1, <2>2 DEF PacingInv
<1>7. CASE Again
  <2>1. /\ pc = "sleep" /\ elapsed >= due
        /\ pc' = IF last_loop_time < end_time THEN "loop" ELSE "done"
        /\ UNCHANGED <<now, delay, last_loop_time, end_time, nb_packets, elapsed, due,
                       sent_at, paced>>
    BY <1>7 DEF Again
  <2>2. nb_packets \in Nat /\ nb_packets > 0
    BY <1>1, <2>1 DEF PacingTypeOK, Fresh
  <2>3. PacingTypeOK' /\ Fresh' /\ Unwrapped'
    BY <1>1, <2>1, <2>2 DEF PacingTypeOK, Fresh, Unwrapped, Slack
  <2>4. Waits'
    BY <1>1, <2>1, <2>2 DEF PacingTypeOK, Waits, K_TICKS
  <2> QED BY <1>4, <2>1, <2>3, <2>4 DEF PacingInv
<1>8. CASE UNCHANGED vars
  <2>1. UNCHANGED <<now, pc, delay, last_loop_time, end_time, nb_packets, elapsed, due,
                    sent_at, paced>>
    BY <1>8 DEF vars
  <2>2. PacingTypeOK' /\ Fresh' /\ Waits' /\ Unwrapped'
    BY <1>1, <2>1 DEF PacingTypeOK, Fresh, Waits, Unwrapped, Slack, K_TICKS
  <2> QED BY <1>4, <2>1, <2>2 DEF PacingInv
<1> QED BY <1>2, <1>3, <1>5, <1>6, <1>7, <1>8 DEF Next

LEMMA AlwaysPacing == Spec => []PacingInv
<1> QED BY InitPacing, NextPacing, PTL DEF Spec

\* The types; in particular the unsigned delay is never adjusted below 0.
THEOREM PacingTypeCorrect == Spec => []PacingTypeOK
<1>1. PacingInv => PacingTypeOK
  BY DEF PacingInv
<1> QED BY <1>1, AlwaysPacing, PTL

(***************************************************************************)
(* The sender keeps to its rate for every tick rate: it is never ahead     *)
(* when a tick is a millisecond, and by a constant at most otherwise.      *)
(***************************************************************************)
THEOREM AlwaysPacedRate == Spec => []PacedRate
<1>1. PacingInv => PacedRate
  BY DEF PacingInv
<1> QED BY <1>1, AlwaysPacing, PTL

\* With a tick of one millisecond the sender is never ahead of its rate.
THEOREM NeverAheadOfRate ==
  ASSUME TICK_RATE_HZ = 1000
  PROVE  Spec => [](paced * packet_duration <= sent_at)
<1>1. PacingInv => paced * packet_duration <= sent_at
  <2> SUFFICES ASSUME PacingInv
               PROVE  paced * packet_duration <= sent_at
    OBVIOUS
  <2> DEFINE lead == paced * packet_duration - sent_at
  <2>1. paced * packet_duration \in Nat /\ sent_at \in Nat /\ lead \in Int
    BY DEF PacingInv, PacingTypeOK
  <2>2. 1000 * lead <= 0 * packet_duration + 999
    BY DEF PacingInv, PacedRate
  <2> HIDE DEF lead
  <2>3. 0 * packet_duration = 0
    OBVIOUS
  <2>4. lead <= 0
    BY <2>1, <2>2, <2>3
  <2> QED BY <2>1, <2>4 DEF lead
<1> QED BY <1>1, AlwaysPacing, PTL

(***************************************************************************)
(* The upload keeps to its duration as long as the tick counter does not   *)
(* wrap before its end.                                                    *)
(***************************************************************************)
THEOREM AlwaysEndsOnTime == Spec => []EndsOnTime
<1>1. PacingInv => EndsOnTime
  BY DEF PacingInv, Unwrapped, Slack, EndsOnTime
<1> QED BY <1>1, AlwaysPacing, PTL
=============================================================================
