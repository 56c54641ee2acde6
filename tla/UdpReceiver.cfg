\* Start and stop of the server against its own thread: two requests, two slots,
\* an IPv4 peer and two IPv6 peers that the server confuses, one counted (and late)
\* datagram per session.
SPECIFICATION Spec
CONSTANTS
  p = p
  high = high
  low1 = low1
  low2 = low2
  r1 = r1
  r2 = r2
  NoAddr = NoAddr
  NoReq = NoReq
  SESSION_MAX = 2
  V4Addrs = {p}
  V6High = {high}
  V6Low = {low1, low2}
  Ids = {0}
  Lens = {3}
  TransitTimes = {0}
  WORD = 8
  MaxCount = 1
  Requests = {r1, r2}
INVARIANTS
  TypeOK
  RunningMeansServing
  GiveNotLost
  OneRequestPerServer
  NoCallAfterStop
  SocketsReleased
  StopFlagFresh
  OneSlotPerPeer
PROPERTIES
  OngoingOnlyGrows
  StopTakesEffect
  ImplementsServer
CHECK_DEADLOCK FALSE
