------------------------------ MODULE UdpPacing -----------------------------
(***************************************************************************)
(* The sending loop of udp_upload (zperf_udp_uploader.c) against the tick  *)
(* counter: how it adjusts its delay, how fast it sends, when it ends.     *)
(*                                                                         *)
(* The loop reads the 32-bit counter of FreeRTOS into 64-bit variables.    *)
(* Ticks pass while the task sleeps, while it is blocked in zsock_send,    *)
(* and while other tasks keep it from running.  The contents of the        *)
(* datagrams, and what becomes of them, are the subject of UdpSession.     *)
(***************************************************************************)
EXTENDS Integers

CONSTANTS
  TICKS,            \* 2^32 in the code: the tick counter wraps
  TICK_RATE_HZ,     \* configTICK_RATE_HZ, 1000 or less
  packet_duration,  \* ticks per datagram, for the rate asked for
  duration,         \* length of the upload in ticks
  StartTicks,       \* values of the tick counter at the start
  MaxLate,          \* bound: ticks the task runs late, each time
  MaxPackets        \* bound: datagrams of one upload

ASSUME PacingAssumption ==
  /\ TICKS \in Nat \ {0}
  /\ TICK_RATE_HZ \in 1 .. 1000
  /\ packet_duration \in Nat
  /\ duration \in Nat
  /\ StartTicks \subseteq 0 .. (TICKS - 1)
  /\ MaxLate \in Nat
  /\ 2 * (2 * packet_duration + 2 * MaxLate) < TICKS
  /\ MaxPackets \in Nat

VARIABLES
  now,             \* the tick counter
  pc,              \* where the task is
  delay,
  last_loop_time,
  end_time,
  nb_packets,
  elapsed,         \* history: ticks since the start
  due,             \* history: when the task's current wait ends, in elapsed
  sent_at,         \* history: when the last datagram was sent, in elapsed
  paced            \* history: datagrams after the first that were sent in
                   \* another tick than the one before them

vars == <<now, pc, delay, last_loop_time, end_time, nb_packets, elapsed, due,
          sent_at, paced>>

\* Conversion to int32_t.
Int32(x) == ((x + TICKS \div 2) % TICKS) - TICKS \div 2

\* K_TICKS is pdMS_TO_TICKS: it takes its argument for milliseconds.
K_TICKS(n) == (n * TICK_RATE_HZ) \div 1000

\* Mutants of NewDelay: no lower bound; one tick too short.
NewDelayUnbounded(loop_time) ==
  IF loop_time = last_loop_time THEN delay
  ELSE delay + packet_duration - Int32(loop_time - last_loop_time)
NewDelayShort(loop_time) ==
  LET next == delay + packet_duration - Int32(loop_time - last_loop_time) - 1
  IN  IF loop_time = last_loop_time THEN delay ELSE IF next > 0 THEN next ELSE 0

\* The delay after the adjustment for the time the last iteration took.
NewDelay(loop_time) ==
  LET adjust == IF last_loop_time # loop_time
                  THEN packet_duration - Int32(loop_time - last_loop_time)
                  ELSE 0
  IN  IF adjust >= 0 \/ -adjust < delay THEN delay + adjust ELSE 0

\* One iteration up to zsock_send.
Iterate ==
  /\ pc = "loop"
  /\ nb_packets < MaxPackets
  /\ delay' = NewDelay(now)
  /\ last_loop_time' = now
  /\ paced' = IF nb_packets > 0 /\ elapsed # sent_at THEN paced + 1 ELSE paced
  /\ sent_at' = elapsed
  /\ due' = elapsed
  /\ pc' = "send"
  /\ UNCHANGED <<now, end_time, nb_packets, elapsed>>

\* zsock_send returns; the task sleeps unless the delay is 0.
Sent ==
  /\ pc = "send"
  /\ nb_packets' = nb_packets + 1
  /\ due' = elapsed + K_TICKS(delay)
  /\ pc' = "sleep"
  /\ UNCHANGED <<now, delay, last_loop_time, end_time, elapsed, sent_at, paced>>

SendFails ==
  /\ pc = "send"
  /\ pc' = "failed"
  /\ UNCHANGED <<now, delay, last_loop_time, end_time, nb_packets, elapsed, due,
                 sent_at, paced>>

\* Mutant of Again: the loop goes on for one more duration.
AgainLate ==
  /\ pc = "sleep"
  /\ elapsed >= due
  /\ pc' = IF last_loop_time < end_time + duration THEN "loop" ELSE "done"
  /\ UNCHANGED <<now, delay, last_loop_time, end_time, nb_packets, elapsed, due,
                 sent_at, paced>>

\* vTaskDelay returns; while (last_loop_time < end_time).
Again ==
  /\ pc = "sleep"
  /\ elapsed >= due
  /\ pc' = IF last_loop_time < end_time THEN "loop" ELSE "done"
  /\ UNCHANGED <<now, delay, last_loop_time, end_time, nb_packets, elapsed, due,
                 sent_at, paced>>

\* A tick.  The task runs at most MaxLate ticks after its wait has ended.
Tick ==
  /\ pc \in {"loop", "send", "sleep"}
  /\ elapsed < due + MaxLate
  /\ now' = (now + 1) % TICKS
  /\ elapsed' = elapsed + 1
  /\ UNCHANGED <<pc, delay, last_loop_time, end_time, nb_packets, due, sent_at,
                 paced>>

Init ==
  /\ now \in StartTicks
  /\ pc = "loop"
  /\ delay = packet_duration
  /\ last_loop_time = now
  /\ end_time = now + duration
  /\ nb_packets = 0
  /\ elapsed = 0
  /\ due = 0
  /\ sent_at = 0
  /\ paced = 0

Next == Iterate \/ Sent \/ SendFails \/ Again \/ Tick

Spec == Init /\ [][Next]_vars
-----------------------------------------------------------------------------
\* Types; delay is unsigned, so it must not be adjusted below 0.
PacingTypeOK ==
  /\ now \in 0 .. (TICKS - 1)
  /\ pc \in {"loop", "send", "sleep", "done", "failed"}
  /\ delay \in Nat
  /\ last_loop_time \in 0 .. (TICKS - 1)
  /\ end_time \in Nat
  /\ nb_packets \in 0 .. MaxPackets
  /\ elapsed \in Nat /\ due \in Nat /\ sent_at \in Nat /\ paced \in Nat

(***************************************************************************)
(* The adjustment keeps the sender to its rate, whatever lateness it has   *)
(* to make up for, and also across a wrap of the tick counter.  With a     *)
(* tick of one millisecond it never runs ahead, as far as datagrams in     *)
(* different ticks are concerned.  With longer ticks K_TICKS makes every   *)
(* sleep too short until the delay has grown to make up for it: then the   *)
(* sender is ahead by a constant number of ticks and no more.              *)
(***************************************************************************)
PacedRate ==
  TICK_RATE_HZ * (paced * packet_duration - sent_at)
    <= (1000 - TICK_RATE_HZ) * packet_duration + 999

(***************************************************************************)
(* The upload keeps to its duration: the last datagram is sent at most two *)
(* packet durations, and the lateness of one send and one wake-up, after   *)
(* the time is over.  This needs a counter that does not wrap before then: *)
(* end_time is 64 bits wide and the counter is not, so after a wrap no     *)
(* later count reaches end_time and the loop goes on.                      *)
(***************************************************************************)
EndsOnTime ==
  LET slack == 2 * packet_duration + 2 * MaxLate
  IN  end_time + slack < TICKS => sent_at <= duration + slack
=============================================================================
