\* Upload commands: twelve combinations of options and fifteen of arguments.
SPECIFICATION Spec
CONSTANTS
  V4 <- MCV4
  V6 <- MCV6
  Commands <- MCCommands
  KILO = 4
  WORD16 = 32
  WORD32 = 64
  MSEC_PER_SEC = 2
  PACKET_SIZE_MAX = 3
  MaxPackets = 3
INVARIANTS
  ParsedAsGiven
  SurvivesCommandLine
  SocketsClosed
  PacketsMatchBytes
PROPERTIES
  CommandAnswered
CHECK_DEADLOCK FALSE
