\* The rate and the end, for a task that is up to five ticks late at every step,
\* with and without a wrap of the tick counter.
SPECIFICATION Spec
CONSTANTS
  TICKS = 64
  TICK_RATE_HZ = 1000
  packet_duration = 3
  duration = 12
  StartTicks = {0, 20, 60}
  MaxLate = 5
  MaxPackets = 8
INVARIANTS
  PacingTypeOK
  PacedRate
  EndsOnTime
CHECK_DEADLOCK FALSE
