\* Accounting: every order, gap and repetition of four ids in one slot that two
\* peers use in turn, up to three counted datagrams per session.  int32_t has 16
\* bits here; the transit times have both signs, differences that wrap around,
\* one that has no opposite, and 0, which the code reads as "none yet".
SPECIFICATION SessionSpec
CONSTANTS
  p = p
  q = q
  high = high
  low1 = low1
  low2 = low2
  NoAddr = NoAddr
  SESSION_MAX = 1
  V4Addrs = {p, q}
  V6High = {}
  V6Low = {low1, low2}
  Ids = {0, 1, 2, 3}
  Lens = {40000}
  TransitTimes <- MCTransitTimes
  WORD = 65536
  MaxCount = 3
INVARIANTS
  SessionTypeOK
  CountersBalance
  LossIsBracketed
  ReportMatchesSession
  JitterBounded
CHECK_DEADLOCK FALSE
