------------------------------- MODULE NetIp --------------------------------
(***************************************************************************)
(* The text of an address and what zperf makes of it: net_ipaddr_parse of  *)
(* net_ip.c, zperf_bind_host of zperf_shell.c, and the two views, IPv4 and *)
(* IPv6, that the servers have of the bytes it leaves.                     *)
(*                                                                         *)
(* A text is a record: whether it starts with a bracket, whether that one  *)
(* is closed, the address in it, and what follows a colon after it.        *)
(* An address is a tuple of words, one for IPv4 and two halves for IPv6;   *)
(* the word 0 stands for zero bytes.                                       *)
(***************************************************************************)
EXTENDS Integers, Sequences

CONSTANTS
  V4,      \* IPv4 addresses
  V6,      \* IPv6 addresses
  MyIp4,   \* MY_IP4ADDR
  MyIp6    \* MY_IP6ADDR

Any4 == <<0>>
Any6 == <<0, 0>>
Bad == <<>>             \* a text that is no address or no number
NoPort == -1            \* nothing follows the address
BadPort == -2           \* something that is no number follows it

DEF_PORT == 5001

ASSUME AddressAssumption ==
  /\ \A addr \in V4 : addr = <<addr[1]>>
  /\ \A addr \in V6 : addr = <<addr[1], addr[2]>>
  /\ V4 \cap V6 = {}
  /\ Bad \notin V4 \cup V6
  /\ MyIp4 # Any4
  /\ MyIp6 # Any6

(***************************************************************************)
(* The 16 bytes of a struct sockaddr: IPv4 keeps its address in word, IPv6 *)
(* its flow information there and its address from half on.  The second    *)
(* half of an IPv6 address lies beyond the 16 bytes.                       *)
(***************************************************************************)
NoSockaddr == [family |-> "none", port |-> 0, word |-> 0, half |-> 0]

Parsed(ok, sa) == [ok |-> ok, sa |-> sa]

\* The value the conversion writes, if it succeeds.
convert_port(port) == port \in 0 .. 65535

\* What follows the address, once the address itself has been written.
PortParsed(text, sa) ==
  IF convert_port(text.port) THEN Parsed(TRUE, [sa EXCEPT !.port = text.port])
  ELSE Parsed(FALSE, sa)

\* The address is 16 bytes written at offset 8 of a 16-byte struct: eight of them
\* fall behind it, on the stack of zperf_bind_host.  What they overwrite is
\* undefined and not modelled; the struct receives the first half.
parse_ipv6(text, sa, has_port) ==
  LET written == [sa EXCEPT !.half = text.addr[1], !.family = "v6"]
  IN  IF (has_port /\ ~text.close) \/ text.addr \notin V6 THEN Parsed(FALSE, sa)
      ELSE IF has_port /\ text.port # NoPort THEN PortParsed(text, written)
      ELSE Parsed(TRUE, written)

\* Called with a port only for a text with one colon.
parse_ipv4(text, sa, has_port) ==
  LET written == [sa EXCEPT !.word = text.addr[1], !.family = "v4"]
  IN  IF text.addr \notin V4 THEN Parsed(FALSE, sa)
      ELSE IF has_port THEN PortParsed(text, written)
      ELSE Parsed(TRUE, written)

\* An IPv6 address has two colons at least, the others have none of their own.
OneColon(text) == text.addr \notin V6 /\ text.port # NoPort

net_ipaddr_parse(text, sa) ==
  IF text.open THEN parse_ipv6(text, sa, TRUE)
  ELSE IF OneColon(text) THEN parse_ipv4(text, sa, TRUE)
  ELSE LET four == parse_ipv4(text, sa, FALSE)
       IN  IF four.ok THEN four ELSE parse_ipv6(text, four.sa, FALSE)

(***************************************************************************)
(* zperf_bind_host: argv without the name of the command, that is          *)
(* <<>>, <<port>> or <<port, host>>.  The result of the parser is a bool,  *)
(* which is never negative: what a failed parse has written is used.       *)
(***************************************************************************)
zperf_bind_host(argv) ==
  [port |-> IF argv = <<>> THEN DEF_PORT ELSE argv[1] % 65536,
   addr |-> IF Len(argv) < 2 THEN NoSockaddr
            ELSE net_ipaddr_parse(argv[2], NoSockaddr).sa]

\* The addresses read from the parameters: the family is not looked at, and
\* the bytes behind the 16 that are copied are zero.
sin_addr(sa) == <<sa.word>>
sin6_addr(sa) == <<sa.half, 0>>
=============================================================================
