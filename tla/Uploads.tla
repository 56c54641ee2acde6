------------------------------ MODULE Uploads -------------------------------
(***************************************************************************)
(* An upload command from its text to its end: the parsing of the command  *)
(* line by shell_cmd_upload, execute_upload, and the synchronous uploads   *)
(* zperf_tcp_upload, with its sending loop, and zperf_udp_upload, whose    *)
(* loop is in UdpPacing and UdpTransfer.  The program runs one command.    *)
(*                                                                         *)
(* A word of the command line is a record: the letter of an option, and    *)
(* what the rest of the word reads as an address, as a number and as its   *)
(* unit.  lwIP takes a plain number for an IPv4 address, as C does.        *)
(* Sizes of C types are parameters, so that the edges are near.            *)
(***************************************************************************)
EXTENDS Integers, Sequences

CONSTANTS
  V4, V6,            \* IPv4 and IPv6 addresses
  Commands,          \* command lines: the protocol and the words behind it
  KILO,              \* 1024
  WORD16, WORD32,    \* 2^16, 2^32
  MSEC_PER_SEC,      \* duration of the upload per second asked for
  PACKET_SIZE_MAX,
  MaxPackets         \* bound: packets of a TCP upload

NoOpt == "none"
NoNum == -1
NoAddr == <<>>
DEF_PORT == 5001

\* The words of a command line.
Words ==
  [opt : STRING, addr : V4 \cup V6 \cup {NoAddr}, num : Nat \cup {NoNum}, unit : STRING]

ASSUME UploadsAssumption ==
  /\ {KILO, WORD16, WORD32, MSEC_PER_SEC, PACKET_SIZE_MAX} \subseteq Nat \ {0}
  /\ 10 * KILO < WORD32
  /\ MaxPackets \in Nat

ASSUME CommandAssumption ==
  /\ Commands \subseteq [proto : {"udp", "tcp"}, argv : Seq(Words)]
  /\ \A c \in Commands : Len(c.argv) + 1 < WORD32

VARIABLES
  cmd,       \* the command
  pc,        \* where it is
  i,         \* the word the option loop is at
  opt_cnt,   \* the words taken for options
  opts,      \* options
  param,     \* struct zperf_upload_params without the options
  sock,      \* a socket is open
  count,     \* the TCP loop: packets, bytes, rest of the packet
  clock,     \* time since the loop began
  failed,    \* the call that failed, if one did
  shown      \* the last line the user is shown

uploadVars == <<sock, count, clock, failed>>
vars == <<cmd, pc, i, opt_cnt, opts, param, uploadVars, shown>>

argv == cmd.argv
Udp == cmd.proto = "udp"

NoParam == [peer |-> <<"none", NoAddr, 0>>, duration |-> 0, size |-> 0, rate |-> 0]
NoCount == [packets |-> 0, bytes |-> 0, rest |-> 0]
-----------------------------------------------------------------------------
(***************************************************************************)
(* The command line.                                                       *)
(***************************************************************************)
Refuse ==
  /\ pc' = "end"
  /\ shown' = "refused"
  /\ UNCHANGED <<cmd, i, opt_cnt, opts, param, uploadVars>>

\* One more option, of n words; the loop goes on at word next.
Take(option, n, next) ==
  /\ opts' = option
  /\ opt_cnt' = opt_cnt + n
  /\ i' = next
  /\ UNCHANGED <<cmd, pc, param, uploadVars, shown>>

AtOption == pc = "options" /\ i <= Len(argv) /\ argv[i].opt # NoOpt

\* The argument of the option at i: the rest of the word, or the next word,
\* which strtol refuses when it is an option.  An error is a negative value.
Attached == argv[i].num # NoNum
parse_arg ==
  IF Attached THEN argv[i].num
  ELSE IF i + 1 > Len(argv) \/ argv[i + 1].opt # NoOpt THEN -1
  ELSE argv[i + 1].num

\* Mutant of OptionS: the option is counted as one word.
OptionSOne ==
  /\ AtOption
  /\ argv[i].opt = "S"
  /\ IF parse_arg \notin 0 .. 255 THEN Refuse
     ELSE Take([opts EXCEPT !.tos = parse_arg], 1, IF Attached THEN i + 1 ELSE i + 2)

\* -S: two words are counted, whichever the form.
OptionS ==
  /\ AtOption
  /\ argv[i].opt = "S"
  /\ IF parse_arg \notin 0 .. 255 THEN Refuse
     ELSE Take([opts EXCEPT !.tos = parse_arg], 2, IF Attached THEN i + 1 ELSE i + 2)

OptionA == AtOption /\ argv[i].opt = "a" /\ Take([opts EXCEPT !.async = TRUE], 1, i + 1)

OptionN ==
  /\ AtOption
  /\ argv[i].opt = "n"
  /\ IF Udp THEN Refuse ELSE Take([opts EXCEPT !.nodelay = TRUE], 1, i + 1)

OptionUnknown == AtOption /\ argv[i].opt \notin {"S", "a", "n"} /\ Refuse

\* argc after the options have been taken from it: argc is unsigned, and
\* counts the name of the command.
Argc == (Len(argv) + 1 - opt_cnt) % WORD32

\* argv[start + k]
Word(k) == argv[opt_cnt + k]

strtoul(word) == IF word.num = NoNum THEN 0 ELSE word.num
parse_number(word) == strtoul(word) * (CASE word.unit = "M" -> KILO * KILO
                                         [] word.unit = "K" -> KILO
                                         [] OTHER -> 1)

\* Both want an address of their family and a port that is not 0; they give
\* their status and what they have written.
parse_ipv6_addr(word, port) ==
  [ok |-> word.addr \in V6 /\ port # 0, peer |-> <<"v6", word.addr, port>>]

parse_ipv4_addr(word, port) ==
  [ok |-> word.addr \in V4 /\ port # 0,
   peer |-> IF word.addr \in V4 THEN <<"v4", word.addr, port>> ELSE <<"v4", NoAddr, 0>>]

\* The status of parse_ipv4_addr is unsigned and never below zero: whatever it
\* has written is the peer.
Peer(word, port) ==
  IF parse_ipv6_addr(word, port).ok THEN parse_ipv6_addr(word, port).peer
  ELSE parse_ipv4_addr(word, port).peer

RateKbps(word) == ((parse_number(word) + KILO - 1) \div KILO) % WORD32

Parse ==
  [peer |-> Peer(Word(1), IF Argc > 2 THEN strtoul(Word(2)) % WORD16 ELSE DEF_PORT),
   duration |-> (MSEC_PER_SEC * (IF Argc > 3 THEN strtoul(Word(3)) ELSE 1)) % WORD32,
   size |-> IF Argc > 4 THEN parse_number(Word(4)) % WORD16 ELSE 256,
   rate |-> IF Argc > 5 THEN RateKbps(Word(5)) ELSE 10]

\* The positional words.  An argc below zero wraps, and words behind the last
\* one are read: what follows then is not the program's any more.
shell_cmd_upload ==
  /\ pc = "options"
  /\ ~AtOption
  /\ IF Argc < 2 THEN Refuse
     ELSE /\ IF opt_cnt > Len(argv)
               THEN pc' = "undefined" /\ UNCHANGED param
               ELSE pc' = "execute" /\ param' = Parse
          /\ UNCHANGED <<cmd, i, opt_cnt, opts, uploadVars, shown>>
-----------------------------------------------------------------------------
(***************************************************************************)
(* execute_upload.                                                         *)
(***************************************************************************)
\* Mutant of Divisor: the product has 16 bits.
DivisorNarrow == (param.rate * KILO) % WORD16

\* The divisor of zperf_packet_duration: 32 bits of rate_in_kbps * 1024.
Divisor == (param.rate * KILO) % WORD32

\* The division by zero in zperf_packet_duration ends the program.
zperf_packet_duration ==
  /\ pc = "execute"
  /\ Udp
  /\ Divisor = 0
  /\ pc' = "trapped"
  /\ UNCHANGED <<cmd, i, opt_cnt, opts, param, uploadVars, shown>>

\* The upload is called, or queued with -a and then called by the work task.
execute_upload ==
  /\ pc = "execute"
  /\ Udp => Divisor # 0
  /\ pc' = "socket"
  /\ UNCHANGED <<cmd, i, opt_cnt, opts, param, uploadVars, shown>>

Keep == UNCHANGED <<cmd, i, opt_cnt, opts, param, shown>>

\* The calls that zperf_prepare_upload_sock makes: socket and connect.  The
\* socket option for -S may fail without consequence.
Socket ==
  /\ pc = "socket"
  /\ pc' = "connect"
  /\ sock' = TRUE
  /\ UNCHANGED <<count, clock, failed>>
  /\ Keep

SocketFails ==
  /\ pc = "socket"
  /\ pc' = "report"
  /\ failed' = "socket"
  /\ UNCHANGED <<sock, count, clock>>
  /\ Keep

Connect ==
  /\ pc = "connect"
  /\ pc' = IF Udp THEN "udp" ELSE "nodelay"
  /\ UNCHANGED uploadVars
  /\ Keep

\* Mutant of ConnectFails: the socket is not closed.
ConnectFailsOpen ==
  /\ pc = "connect"
  /\ pc' = "report"
  /\ failed' = "connect"
  /\ UNCHANGED <<sock, count, clock>>
  /\ Keep

ConnectFails ==
  /\ pc = "connect"
  /\ pc' = "report"
  /\ sock' = FALSE
  /\ failed' = "connect"
  /\ UNCHANGED <<count, clock>>
  /\ Keep
-----------------------------------------------------------------------------
(***************************************************************************)
(* zperf_tcp_upload after the connection: TCP_NODELAY, and tcp_upload.     *)
(***************************************************************************)
Size == IF param.size > PACKET_SIZE_MAX THEN PACKET_SIZE_MAX ELSE param.size

Nodelay ==
  /\ pc = "nodelay"
  /\ pc' = "send"
  /\ count' = [count EXCEPT !.rest = Size]
  /\ UNCHANGED <<sock, clock, failed>>
  /\ Keep

\* The early return leaves the socket as it is.
NodelayFails ==
  /\ pc = "nodelay"
  /\ opts.nodelay
  /\ pc' = "report"
  /\ failed' = "nodelay"
  /\ UNCHANGED <<sock, count, clock>>
  /\ Keep

\* Mutant of Sent: sendall returns after the first zsock_send.
SentOnce(n) == [count EXCEPT !.bytes = @ + n, !.rest = 0, !.packets = @ + 1]

\* zsock_send accepts n bytes of the packet, which ends with the last one.
Sent(n) ==
  [count EXCEPT !.bytes = @ + n,
                !.rest = @ - n,
                !.packets = IF count.rest = n THEN @ + 1 ELSE @]

\* sendall: a packet of no bytes needs no call at all.
sendall ==
  /\ pc = "send"
  /\ \E n \in 0 .. count.rest :
       /\ n = 0 => count.rest = 0
       /\ count' = Sent(n)
  /\ pc' = IF count'.rest = 0 THEN "expired" ELSE "send"
  /\ UNCHANGED <<sock, clock, failed>>
  /\ Keep

\* zsock_send fails: errno is never -ENOMEM, so every error ends the upload.
SendFails ==
  /\ pc = "send"
  /\ count.rest # 0
  /\ pc' = "close"
  /\ failed' = "send"
  /\ UNCHANGED <<sock, count, clock>>
  /\ Keep

Expired == clock >= param.duration

\* Mutant of Again: the time is not looked at.
AgainAlways ==
  /\ pc = "expired"
  /\ count.packets < MaxPackets
  /\ pc' = "send"
  /\ count' = [count EXCEPT !.rest = Size]
  /\ UNCHANGED <<sock, clock, failed>>
  /\ Keep

\* The condition of the do-while loop: another packet, or the end.
Again ==
  /\ pc = "expired"
  /\ IF Expired THEN pc' = "close" /\ UNCHANGED count
     ELSE /\ count.packets < MaxPackets
          /\ pc' = "send"
          /\ count' = [count EXCEPT !.rest = Size]
  /\ UNCHANGED <<sock, clock, failed>>
  /\ Keep

Tick ==
  /\ pc \in {"send", "expired"}
  /\ ~Expired
  /\ clock' = clock + 1
  /\ UNCHANGED <<pc, sock, count, failed>>
  /\ Keep
-----------------------------------------------------------------------------
\* udp_upload returns (UdpTransfer), with or without an error.
udp_upload ==
  /\ pc = "udp"
  /\ pc' = "close"
  /\ failed' \in {"none", "udp"}
  /\ UNCHANGED <<sock, count, clock>>
  /\ Keep

Close ==
  /\ pc = "close"
  /\ pc' = "report"
  /\ sock' = FALSE
  /\ UNCHANGED <<count, clock, failed>>
  /\ Keep

\* The statistics are printed.  Their rates are 0 where the time is 0.
print_stats == shown' = "statistics"

\* The upload has returned to execute_upload.
Report ==
  /\ pc = "report"
  /\ ~opts.async
  /\ pc' = "end"
  /\ IF failed = "none" THEN print_stats ELSE shown' = "failed"
  /\ UNCHANGED <<cmd, i, opt_cnt, opts, param, uploadVars>>

\* The work task calls udp_upload_cb or tcp_upload_cb with FINISHED or ERROR.
upload_cb ==
  /\ pc = "report"
  /\ opts.async
  /\ pc' = "end"
  /\ IF failed = "none" THEN print_stats ELSE shown' = "failed"
  /\ UNCHANGED <<cmd, i, opt_cnt, opts, param, uploadVars>>

Init ==
  /\ cmd \in Commands
  /\ pc = "options"
  /\ i = 1
  /\ opt_cnt = 0
  /\ opts = [tos |-> 0, async |-> FALSE, nodelay |-> FALSE]
  /\ param = NoParam
  /\ sock = FALSE
  /\ count = NoCount
  /\ clock = 0
  /\ failed = "none"
  /\ shown = "none"

Step ==
  \/ OptionS \/ OptionA \/ OptionN \/ OptionUnknown \/ shell_cmd_upload
  \/ zperf_packet_duration \/ execute_upload
  \/ Socket \/ SocketFails \/ Connect \/ ConnectFails
  \/ Nodelay \/ NodelayFails \/ sendall \/ SendFails \/ Again
  \/ udp_upload \/ Close \/ Report \/ upload_cb

Next == Step \/ Tick

\* The task goes on, as every socket call returns, and time does.
Fairness == WF_vars(Step) /\ WF_vars(Tick)

Spec == Init /\ [][Next]_vars /\ Fairness
-----------------------------------------------------------------------------
\* The form with the argument of -S in a word of its own.
Separate == \A k \in DOMAIN argv : argv[k].opt = "S" => argv[k].num = NoNum

\* The words that are no options, and no arguments of options.
Plain == {k \in DOMAIN argv : argv[k].opt = NoOpt /\ (k > 1 => argv[k - 1].opt # "S")}

\* The positional words, from the first plain one on, and the arguments of the
\* options -S before it.
Positional ==
  LET first == CHOOSE k \in Plain : \A j \in Plain : k <= j
  IN  IF Plain = {} THEN <<>> ELSE SubSeq(argv, first, Len(argv))

Tos ==
  {argv[k + 1].num :
     k \in {k \in DOMAIN argv : argv[k].opt = "S" /\ \A j \in Plain : k < j}}

(***************************************************************************)
(* The help text, "<address> <port> <duration> <packet size> <baud rate>": *)
(* an upload gets the values that stand on the command line, each in its   *)
(* place, whatever options precede them, and the defaults for those that   *)
(* do not.  The exceptions are exactly these: an argument written in the   *)
(* word of its option (-S5 shifts the places by one), values beyond the    *)
(* type of their field, and an address or port that parse_ipv4_addr has    *)
(* refused, which the caller does not notice.                              *)
(***************************************************************************)
ParsedAsGiven ==
  param # NoParam /\ Separate =>
    LET given(k) == Len(Positional) >= k
        value(k) == strtoul(Positional[k])
        port == IF given(2) THEN value(2) ELSE 5001
    IN  /\ given(1)
        /\ Positional[1].addr \in V4 \cup V6 /\ (given(2) => port \in 1 .. WORD16 - 1) =>
             param.peer[2] = Positional[1].addr /\ param.peer[3] = port
        /\ LET ms == MSEC_PER_SEC * (IF given(3) THEN value(3) ELSE 1)
           IN  ms < WORD32 => param.duration = ms
        /\ LET size == parse_number(Positional[4])
           IN  IF given(4) THEN size < WORD16 => param.size = size ELSE param.size = 256
        /\ LET rate == parse_number(Positional[5])
           IN  IF given(5)
                 THEN rate < WORD32 =>
                        KILO * (param.rate - 1) < rate /\ rate <= KILO * param.rate
                 ELSE param.rate = 10
        /\ Tos # {} => opts.tos \in Tos

(***************************************************************************)
(* The program survives the command line: zperf_packet_duration divides by *)
(* zero only for a rate of 0 or one so large that rounding it up to whole  *)
(* kilobits overflows 32 bits, and words behind the last one are read only *)
(* when the argument of an option was written in the option's word.        *)
(***************************************************************************)
SurvivesCommandLine ==
  /\ pc = "trapped" =>
       Udp /\ parse_number(Word(5)) \notin 1 .. WORD32 - KILO
  /\ pc = "undefined" => ~Separate

(***************************************************************************)
(* An upload that has ended has closed its socket, whichever call failed,  *)
(* but for one: the early return of zperf_tcp_upload when TCP_NODELAY      *)
(* cannot be set.                                                          *)
(***************************************************************************)
SocketsClosed == pc = "end" => (sock <=> failed = "nodelay")

(***************************************************************************)
(* However zsock_send cuts the packets into pieces, nb_packets_sent counts *)
(* the packets lwIP has taken whole, in order: the bytes it has taken are  *)
(* theirs and those of one packet that is not complete.  Without an error  *)
(* the last packet is complete, and it ended after the time asked for.     *)
(***************************************************************************)
PacketsMatchBytes ==
  pc \in {"send", "expired", "close"} /\ ~Udp =>
    /\ count.bytes = count.packets * Size + (IF count.rest = 0 THEN 0 ELSE Size - count.rest)
    /\ pc = "close" /\ failed = "none" => count.rest = 0 /\ count.packets > 0 /\ Expired

(***************************************************************************)
(* Every command is answered: with what is wrong with it, that the upload  *)
(* failed, or its statistics.                                              *)
(***************************************************************************)
CommandAnswered == <>(shown # "none" \/ pc \in {"trapped", "undefined"})
=============================================================================
