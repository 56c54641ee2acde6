\* Two IPv4 peers.
SPECIFICATION SessionSpec
CONSTANTS
  p = p
  q = q
  high = high
  low1 = low1
  low2 = low2
  NoAddr = NoAddr
  SESSION_MAX = 1
  V4Addrs = {p, q}
  V6High = {}
  V6Low = {low1, low2}
  Ids = {1}
  Lens = {3}
  TransitTimes = {0}
  WORD = 8
  MaxCount = 1
INVARIANT
  ReportIsAboutSender
CHECK_DEADLOCK FALSE
