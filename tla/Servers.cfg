\* Both servers, started and ended in any order, with six forms of the command;
\* the interface has room for one IPv6 address.
SPECIFICATION ServersSpec
CONSTANTS
  V4 <- MCV4
  V6 <- MCV6
  MyIp4 <- MCMyIp4
  MyIp6 <- MCMyIp6
  Argvs <- MCArgvs
  IP6_ADDRS = 1

INVARIANTS
  BindsWhatWasAsked
  AnyOnlyWhenFull
