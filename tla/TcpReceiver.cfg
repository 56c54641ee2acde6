\* The TCP server with two slots, two connections and three peers, which connect,
\* send, close, fail and come back while the server is stopped and restarted.
SPECIFICATION Spec
CONSTANTS
  p = p
  q = q
  high = high
  low1 = low1
  r1 = r1
  r2 = r2
  NoAddr = NoAddr
  NoReq = NoReq
  SESSION_MAX = 2
  V4Addrs = {p, q}
  V6High = {high}
  V6Low = {low1}
  Lens = {1}
  MaxCount = 1
  Requests = {r1, r2}
INVARIANTS
  TcpTypeOK
  ConnectionFindsSlot
  SessionIsConnection
PROPERTIES
  OrphanedByCleanupOnly
  TcpImplementsServer
CHECK_DEADLOCK FALSE
