\* The same application: an end is reported with the user data of another request.
SPECIFICATION Spec
CONSTANTS
  udp = udp
  tcp = tcp
  r1 = r1
  r2 = r2
  r3 = r3
  r4 = r4
  NoReq = NoReq
  Items = {udp, tcp}
  Requests = {r1, r2, r3, r4}
  QUEUE_SIZE = 2
INVARIANTS
  UserDataOfCallback
