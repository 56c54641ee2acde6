\* An upload of up to three datagrams and two FINs over a network that loses,
\* repeats and reorders, up to two counted datagrams per session.
SPECIFICATION Spec
CONSTANTS
  p = p
  client = p
  NoAddr = NoAddr
  SESSION_MAX = 1
  V4Addrs = {p}
  V6High = {}
  V6Low = {}
  Ids = {0, 1, 2}
  Lens = {1}
  TransitTimes = {0}
  WORD = 8
  MaxCount = 2
  Tries = 2
  MaxSent = 3
INVARIANTS
  TransferTypeOK
  ReportWithinSent
PROPERTIES
  UploadEnds
CHECK_DEADLOCK FALSE
