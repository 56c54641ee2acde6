\* An application that asks at any time: four requests over both protocols, the
\* tightest queue.
SPECIFICATION Spec
CONSTANTS
  udp = udp
  tcp = tcp
  r1 = r1
  r2 = r2
  r3 = r3
  r4 = r4
  NoReq = NoReq
  Items = {udp, tcp}
  Requests = {r1, r2, r3, r4}
  QUEUE_SIZE = 2
INVARIANTS
  AsyncTypeOK
  PendingIffQueued
  QueueNeverFull
  StartsInOrder
  OwnParameters
PROPERTIES
  ImplementsJobs
