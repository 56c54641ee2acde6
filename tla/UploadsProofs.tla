--------------------------- MODULE UploadsProofs ----------------------------
(***************************************************************************)
(* Proofs about Uploads, for any command lines, any sizes of the C types   *)
(* (a default rate fits in 32 bits) and any cutting of packets.            *)
(*                                                                         *)
(* Three invariants of three parts of the command that do not interact:    *)
(* the option loop (Scanned) and what it leaves to the parser (Parsed),    *)
(* the socket (Held), and the bytes of the TCP loop (Balanced).            *)
(***************************************************************************)
EXTENDS Uploads, TLAPS

USE UploadsAssumption, CommandAssumption

Points ==
  {"options", "undefined", "execute", "trapped", "socket", "connect", "nodelay",
   "send", "expired", "udp", "close", "report", "end"}

UploadTypes ==
  /\ cmd \in Commands
  /\ pc \in Points
  /\ i \in Nat \ {0}
  /\ opt_cnt \in Nat
  /\ opts \in [tos : Int, async : BOOLEAN, nodelay : BOOLEAN]
  /\ param.size \in Nat
  /\ sock \in BOOLEAN
  /\ count \in [packets : Nat, bytes : Nat, rest : Nat]

\* The words before i, where every argument of -S is a word of its own: they
\* are counted one by one, none is positional, and the last -S is in effect.
Scanned ==
  Separate =>
    /\ opt_cnt = i - 1
    /\ i <= Len(argv) + 1
    /\ i > 1 => argv[i - 1].opt # "S"
    /\ \A k \in 1 .. (i - 1) : k \notin Plain
    /\ \/ \A k \in 1 .. (i - 1) : argv[k].opt # "S"
       \/ \E k \in 1 .. (i - 1) : argv[k].opt = "S" /\ opts.tos = argv[k + 1].num

\* The parameters have been read, with the option loop at its end.
ParamsRead ==
  /\ param = Parse
  /\ Argc >= 2
  /\ opt_cnt <= Len(argv)
  /\ i <= Len(argv) => argv[i].opt = NoOpt

Parsed ==
  /\ param = NoParam \/ ParamsRead
  /\ pc = "options" => param = NoParam
  /\ pc = "execute" => ParamsRead

\* Where the socket is open, and whether a call has failed.
Held ==
  /\ pc \in {"options", "undefined", "execute", "trapped", "socket"} =>
       ~sock /\ failed = "none"
  /\ pc \in {"connect", "nodelay", "send", "expired", "udp"} => sock /\ failed = "none"
  /\ pc = "close" => sock /\ failed # "nodelay"
  /\ pc \in {"report", "end"} => (sock <=> failed = "nodelay")

\* The bytes and packets of the TCP loop.
Balanced ==
  /\ pc \in {"options", "execute", "socket", "connect", "nodelay"} => count = NoCount
  /\ pc \in {"nodelay", "send", "expired"} => ~Udp
  /\ pc = "udp" => Udp
  /\ pc = "send" => count.rest <= Size /\ (count.rest = 0 => Size = 0)
  /\ pc = "expired" => count.rest = 0 /\ count.packets > 0

UploadsInv ==
  /\ UploadTypes
  /\ Scanned
  /\ Parsed
  /\ Held
  /\ Balanced
  /\ SurvivesCommandLine
  /\ PacketsMatchBytes
-----------------------------------------------------------------------------
\* The command line.
LEMMA CommandType ==
  ASSUME cmd \in Commands
  PROVE  /\ argv \in Seq(Words) /\ Len(argv) \in Nat /\ Len(argv) + 1 < WORD32
         /\ DOMAIN argv = 1 .. Len(argv)
         /\ \A k \in 1 .. Len(argv) : argv[k] \in Words
<1>1. cmd \in [proto : {"udp", "tcp"}, argv : Seq(Words)]
  OBVIOUS
<1>2. argv \in Seq(Words)
  BY <1>1 DEF argv
<1>3. Len(argv) + 1 < WORD32
  BY DEF argv
<1> HIDE DEF Words
<1> QED BY <1>2, <1>3

\* The numbers of a word.
LEMMA NumberType ==
  ASSUME NEW word \in Words
  PROVE  strtoul(word) \in Nat /\ parse_number(word) \in Nat
<1>1. word.num \in Nat \cup {-1}
  BY DEF Words, NoNum
<1>2. strtoul(word) \in Nat
  BY <1>1 DEF strtoul, NoNum
<1> DEFINE u == CASE word.unit = "M" -> KILO * KILO
                  [] word.unit = "K" -> KILO
                  [] OTHER -> 1
<1>3. KILO * KILO \in Nat /\ KILO \in Nat
  OBVIOUS
<1>4. u \in Nat
  BY <1>3
<1>5. parse_number(word) = strtoul(word) * u
  BY DEF parse_number
<1> HIDE DEF u
<1>6. strtoul(word) * u \in Nat
  BY <1>2, <1>4
<1> QED BY <1>2, <1>5, <1>6

LEMMA RemainderType ==
  ASSUME NEW a \in Int, NEW m \in Nat \ {0}
  PROVE  a % m \in 0 .. (m - 1) /\ (0 <= a /\ a < m => a % m = a)
  OBVIOUS

\* Without wrapping, argc counts the words that are left and the command's name.
LEMMA ArgcValue ==
  ASSUME UploadTypes, opt_cnt <= Len(argv)
  PROVE  Argc = Len(argv) + 1 - opt_cnt
<1>1. Len(argv) \in Nat /\ Len(argv) + 1 < WORD32
  BY CommandType DEF UploadTypes
<1> DEFINE n == Len(argv) + 1 - opt_cnt
<1>2. n \in Int /\ 0 <= n /\ n < WORD32 /\ WORD32 \in Nat \ {0}
  BY <1>1 DEF UploadTypes
<1> HIDE DEF n
<1>3. n % WORD32 = n
  BY <1>2, RemainderType
<1> QED BY <1>3 DEF Argc, n

\* The words the parser reads are there.
LEMMA WordType ==
  ASSUME UploadTypes, opt_cnt <= Len(argv), NEW k \in Nat, k > 0, Argc > k
  PROVE  Word(k) \in Words /\ opt_cnt + k \in 1 .. Len(argv)
<1>1. opt_cnt \in Nat /\ Len(argv) \in Nat /\ Argc = Len(argv) + 1 - opt_cnt
  BY ArgcValue, CommandType DEF UploadTypes
<1>2. opt_cnt + k \in 1 .. Len(argv)
  BY <1>1
<1> QED BY <1>2, CommandType DEF UploadTypes, Word

LEMMA ParseSize ==
  ASSUME UploadTypes, opt_cnt <= Len(argv)
  PROVE  Parse.size \in Nat
<1>1. Argc > 4 => parse_number(Word(4)) \in Nat
  BY WordType, NumberType
<1>2. Argc > 4 => parse_number(Word(4)) % WORD16 \in Nat
  <2>1. \A a \in Int : a % WORD16 \in 0 .. (WORD16 - 1)
    BY RemainderType
  <2> HIDE DEF parse_number, Word
  <2> QED BY <1>1, <2>1
<1>3. Parse.size = IF Argc > 4 THEN parse_number(Word(4)) % WORD16 ELSE 256
  BY DEF Parse
<1> QED BY <1>2, <1>3
-----------------------------------------------------------------------------
LEMMA InitUploads == Init => UploadsInv
<1> SUFFICES ASSUME Init
             PROVE  UploadsInv
  OBVIOUS
<1>1. /\ cmd \in Commands /\ pc = "options" /\ i = 1 /\ opt_cnt = 0
      /\ opts = [tos |-> 0, async |-> FALSE, nodelay |-> FALSE]
      /\ param = NoParam /\ sock = FALSE /\ count = NoCount /\ failed = "none"
  BY DEF Init
<1>2. UploadTypes
  <2>1. opts \in [tos : Int, async : BOOLEAN, nodelay : BOOLEAN]
    BY <1>1
  <2>2. count \in [packets : Nat, bytes : Nat, rest : Nat] /\ param.size \in Nat
    BY <1>1 DEF NoCount, NoParam
  <2>3. cmd \in Commands /\ pc \in Points /\ sock \in BOOLEAN
    BY <1>1 DEF Points
  <2>4. i \in Nat \ {0} /\ opt_cnt \in Nat
    BY <1>1
  <2> QED BY <2>1, <2>2, <2>3, <2>4 DEF UploadTypes
<1>3. Scanned
  BY <1>1, CommandType DEF Scanned
<1>4. Parsed /\ Held /\ Balanced
  BY <1>1 DEF Parsed, Held, Balanced
<1>5. SurvivesCommandLine /\ PacketsMatchBytes
  BY <1>1 DEF SurvivesCommandLine, PacketsMatchBytes
<1> QED BY <1>2, <1>3, <1>4, <1>5 DEF UploadsInv

\* The command is refused.
LEMMA RefuseInv ==
  ASSUME UploadsInv, pc = "options", Refuse
  PROVE  UploadsInv'
<1>1. /\ pc' = "end"
      /\ UNCHANGED <<cmd, i, opt_cnt, opts, param, sock, count, clock, failed>>
  BY DEF Refuse, uploadVars
<1>2. UploadTypes /\ Scanned /\ Parsed /\ Held
  BY DEF UploadsInv
<1>3. UploadTypes'
  BY <1>1, <1>2 DEF UploadTypes, Points
<1>4. Scanned'
  BY <1>1, <1>2 DEF Scanned, Separate, Plain, argv
<1>5. Parsed' /\ Balanced'
  BY <1>1, <1>2 DEF Parsed, Balanced
<1>6. Held'
  BY <1>1, <1>2 DEF Held
<1>7. SurvivesCommandLine' /\ PacketsMatchBytes'
  BY <1>1 DEF SurvivesCommandLine, PacketsMatchBytes
<1> QED BY <1>3, <1>4, <1>5, <1>6, <1>7 DEF UploadsInv
-----------------------------------------------------------------------------
(***************************************************************************)
(* The option loop.                                                        *)
(***************************************************************************)
\* What an option step leaves alone.
LEMMA TakeInv ==
  ASSUME UploadsInv, pc = "options",
         NEW option \in [tos : Int, async : BOOLEAN, nodelay : BOOLEAN],
         NEW n \in Nat, NEW next \in Nat \ {0},
         Take(option, n, next),
         Scanned'
  PROVE  UploadsInv'
<1>1. /\ opts' = option /\ opt_cnt' = opt_cnt + n /\ i' = next
      /\ UNCHANGED <<cmd, pc, param, sock, count, clock, failed>>
  BY DEF Take, uploadVars
<1>2. UploadTypes /\ Parsed /\ Held /\ Balanced
  BY DEF UploadsInv
<1>3. UploadTypes'
  <2>1. opts' \in [tos : Int, async : BOOLEAN, nodelay : BOOLEAN]
    BY <1>1
  <2>2. opt_cnt' \in Nat /\ i' \in Nat \ {0}
    BY <1>1, <1>2 DEF UploadTypes
  <2> QED BY <1>1, <1>2, <2>1, <2>2 DEF UploadTypes
<1>4. Parsed'
  BY <1>1, <1>2 DEF Parsed, NoParam
<1>5. Held'
  BY <1>1, <1>2 DEF Held
<1>6. Balanced'
  BY <1>1, <1>2 DEF Balanced, NoCount
<1>7. SurvivesCommandLine' /\ PacketsMatchBytes'
  BY <1>1 DEF SurvivesCommandLine, PacketsMatchBytes
<1> QED BY <1>3, <1>4, <1>5, <1>6, <1>7 DEF UploadsInv

\* An option of one word.
LEMMA OneWord ==
  ASSUME UploadsInv, AtOption, argv[i].opt # "S",
         NEW option \in [tos : Int, async : BOOLEAN, nodelay : BOOLEAN],
         option.tos = opts.tos,
         Take(option, 1, i + 1)
  PROVE  UploadsInv'
<1>1. /\ opts' = option /\ opt_cnt' = opt_cnt + 1 /\ i' = i + 1 /\ cmd' = cmd
      /\ argv' = argv
  BY DEF Take, argv
<1>2. UploadTypes /\ Scanned /\ pc = "options"
  BY DEF UploadsInv, AtOption
<1>3. i \in Nat \ {0} /\ opt_cnt \in Nat /\ Len(argv) \in Nat /\ i <= Len(argv)
  BY <1>2, CommandType DEF UploadTypes, AtOption
<1>4. ASSUME Separate
      PROVE  /\ opt_cnt + 1 = (i + 1) - 1
             /\ i + 1 <= Len(argv) + 1
             /\ argv[(i + 1) - 1].opt # "S"
             /\ \A k \in 1 .. ((i + 1) - 1) : k \notin Plain
             /\ \/ \A k \in 1 .. ((i + 1) - 1) : argv[k].opt # "S"
                \/ \E k \in 1 .. ((i + 1) - 1) : argv[k].opt = "S" /\ option.tos = argv[k + 1].num
  <2>1. (i + 1) - 1 = i /\ 1 .. i = (1 .. (i - 1)) \cup {i}
    BY <1>3
  <2>2. i \notin Plain
    BY DEF Plain, AtOption
  <2>3. /\ opt_cnt = i - 1
        /\ \A k \in 1 .. (i - 1) : k \notin Plain
        /\ \/ \A k \in 1 .. (i - 1) : argv[k].opt # "S"
           \/ \E k \in 1 .. (i - 1) : argv[k].opt = "S" /\ opts.tos = argv[k + 1].num
    BY <1>2, <1>4 DEF Scanned
  <2>4. opt_cnt + 1 = i /\ i + 1 <= Len(argv) + 1
    BY <1>3, <2>3
  <2> HIDE DEF argv, Plain
  <2>5. \/ \A k \in 1 .. i : argv[k].opt # "S"
        \/ \E k \in 1 .. i : argv[k].opt = "S" /\ option.tos = argv[k + 1].num
    BY <2>1, <2>3
  <2> QED BY <2>1, <2>2, <2>3, <2>4, <2>5
<1>5. Scanned'
  <2>1. Separate' = Separate /\ Plain' = Plain
    BY <1>1 DEF Separate, Plain
  <2> HIDE DEF argv, Plain, Separate
  <2> QED BY <1>1, <1>4, <2>1 DEF Scanned
<1>6. i + 1 \in Nat \ {0} /\ 1 \in Nat
  BY <1>3
<1> QED BY <1>2, <1>5, <1>6, TakeInv

\* -S with a value that is accepted.  Where every argument is a word of its own,
\* the argument is no -S itself, as its number has been read.
LEMMA TwoWords ==
  ASSUME UploadsInv, AtOption, argv[i].opt = "S", parse_arg \in 0 .. 255,
         NEW option \in [tos : Int, async : BOOLEAN, nodelay : BOOLEAN],
         option.tos = parse_arg,
         NEW next, next = IF Attached THEN i + 1 ELSE i + 2,
         Take(option, 2, next)
  PROVE  UploadsInv'
<1>1. /\ opts' = option /\ opt_cnt' = opt_cnt + 2 /\ i' = next /\ cmd' = cmd
      /\ argv' = argv
  BY DEF Take, argv
<1>2. UploadTypes /\ Scanned /\ pc = "options"
  BY DEF UploadsInv, AtOption
<1>3. /\ i \in Nat \ {0} /\ opt_cnt \in Nat /\ Len(argv) \in Nat /\ i <= Len(argv)
      /\ DOMAIN argv = 1 .. Len(argv)
  BY <1>2, CommandType DEF UploadTypes, AtOption
<1>4. ASSUME Separate
      PROVE  /\ next = i + 2
             /\ opt_cnt + 2 = i + 1
             /\ i + 1 <= Len(argv)
             /\ argv[i + 1].opt # "S"
             /\ \A k \in 1 .. (i + 1) : k \notin Plain
             /\ \E k \in 1 .. (i + 1) : argv[k].opt = "S" /\ option.tos = argv[k + 1].num
  <2>1. ~Attached
    BY <1>3, <1>4 DEF Attached, Separate
  <2>2. /\ i + 1 <= Len(argv) /\ parse_arg = argv[i + 1].num
        /\ argv[i + 1].opt = NoOpt
    BY <1>3, <2>1 DEF parse_arg
  <2>3. i + 1 \in DOMAIN argv
    <3> HIDE DEF argv
    <3> QED BY <1>3, <2>2
  <2>4. argv[i + 1].opt # "S"
    BY <2>2 DEF NoOpt
  <2>5. i \notin Plain
    BY DEF Plain, AtOption
  <2>6. i + 1 \notin Plain
    <3>1. i + 1 > 1 /\ (i + 1) - 1 = i
      BY <1>3
    <3> QED BY <3>1 DEF Plain
  <2>7. opt_cnt = i - 1 /\ \A k \in 1 .. (i - 1) : k \notin Plain
    BY <1>2, <1>4 DEF Scanned
  <2>8. \A k \in 1 .. (i + 1) : k \in 1 .. (i - 1) \/ k = i \/ k = i + 1
    BY <1>3
  <2>9. next = i + 2 /\ opt_cnt + 2 = i + 1
    BY <1>3, <2>1, <2>7
  <2> HIDE DEF argv, Plain
  <2>10. \A k \in 1 .. (i + 1) : k \notin Plain
    BY <2>5, <2>6, <2>7, <2>8
  <2>11. i \in 1 .. (i + 1) /\ option.tos = argv[i + 1].num
    BY <1>3, <2>2
  <2> QED BY <2>2, <2>4, <2>9, <2>10, <2>11
<1>5. Scanned'
  <2>1. Separate' = Separate /\ Plain' = Plain
    BY <1>1 DEF Separate, Plain
  <2> HIDE DEF argv, Plain, Separate
  <2> SUFFICES ASSUME Separate
               PROVE  /\ opt_cnt' = i' - 1
                      /\ i' <= Len(argv) + 1
                      /\ i' > 1 => argv[i' - 1].opt # "S"
                      /\ \A k \in 1 .. (i' - 1) : k \notin Plain
                      /\ \E k \in 1 .. (i' - 1) : argv[k].opt = "S" /\ opts'.tos = argv[k + 1].num
    BY <1>1, <2>1 DEF Scanned
  <2>2. i' = i + 2 /\ i' - 1 = i + 1
    BY <1>1, <1>3, <1>4
  <2>3. opt_cnt' = i' - 1 /\ i' <= Len(argv) + 1
    BY <1>1, <1>3, <1>4, <2>2
  <2> QED BY <1>1, <1>4, <2>2, <2>3
<1>6. next \in Nat \ {0} /\ 2 \in Nat
  BY <1>3
<1> QED BY <1>2, <1>5, <1>6, TakeInv

LEMMA OptionSteps ==
  ASSUME UploadsInv, OptionS \/ OptionA \/ OptionN \/ OptionUnknown
  PROVE  UploadsInv'
<1>1. UploadTypes
  BY DEF UploadsInv
<1>2. AtOption /\ pc = "options"
  BY DEF OptionS, OptionA, OptionN, OptionUnknown, AtOption
<1>3. CASE Refuse
  BY <1>2, <1>3, RefuseInv
<1>4. CASE OptionS /\ ~Refuse
  <2> DEFINE option == [opts EXCEPT !.tos = parse_arg]
             next == IF Attached THEN i + 1 ELSE i + 2
  <2>1. argv[i].opt = "S" /\ parse_arg \in 0 .. 255 /\ Take(option, 2, next)
    BY <1>4, Zenon DEF OptionS
  <2>2. option \in [tos : Int, async : BOOLEAN, nodelay : BOOLEAN] /\ option.tos = parse_arg
    <3>1. \A v \in Int : /\ [opts EXCEPT !.tos = v] \in [tos : Int, async : BOOLEAN, nodelay : BOOLEAN]
                          /\ [opts EXCEPT !.tos = v].tos = v
      BY <1>1 DEF UploadTypes
    <3>2. parse_arg \in Int
      <4> HIDE DEF option
      <4> QED BY <2>1
    <3> QED BY <3>1, <3>2, Zenon
  <2> HIDE DEF option
  <2> QED BY <1>2, <2>1, <2>2, TwoWords
<1>5. CASE OptionA
  <2>1. [opts EXCEPT !.async = TRUE] \in [tos : Int, async : BOOLEAN, nodelay : BOOLEAN]
        /\ [opts EXCEPT !.async = TRUE].tos = opts.tos
    BY <1>1 DEF UploadTypes
  <2> QED BY <1>2, <1>5, <2>1, OneWord DEF OptionA
<1>6. CASE OptionN /\ ~Refuse
  <2>1. [opts EXCEPT !.nodelay = TRUE] \in [tos : Int, async : BOOLEAN, nodelay : BOOLEAN]
        /\ [opts EXCEPT !.nodelay = TRUE].tos = opts.tos
    BY <1>1 DEF UploadTypes
  <2> QED BY <1>2, <1>6, <2>1, OneWord DEF OptionN
<1>7. CASE OptionUnknown
  BY <1>2, <1>7, RefuseInv DEF OptionUnknown
<1> QED BY <1>3, <1>4, <1>5, <1>6, <1>7

\* The positional words are read, unless there are none.
LEMMA ReadStep ==
  ASSUME UploadsInv, shell_cmd_upload
  PROVE  UploadsInv'
<1>1. UploadTypes /\ Scanned /\ Parsed /\ Held /\ Balanced
  BY DEF UploadsInv
<1>2. pc = "options" /\ ~AtOption
  BY DEF shell_cmd_upload
<1>3. CASE Refuse
  BY <1>2, <1>3, RefuseInv
<1>4. CASE ~Refuse
  <2>1. /\ Argc >= 2
        /\ IF opt_cnt > Len(argv) THEN pc' = "undefined" /\ param' = param
                                  ELSE pc' = "execute" /\ param' = Parse
        /\ UNCHANGED <<cmd, i, opt_cnt, opts, sock, count, clock, failed>>
    <3>1. Argc \in Int
      <4>1. Len(argv) + 1 - opt_cnt \in Int
        BY <1>1, CommandType DEF UploadTypes
      <4>2. WORD32 \in Nat \ {0}
        OBVIOUS
      <4>3. \A n \in Int : n % WORD32 \in 0 .. (WORD32 - 1)
        BY <4>2, RemainderType
      <4>4. \A n \in 0 .. (WORD32 - 1) : n \in Int
        BY <4>2
      <4> QED BY <4>1, <4>3, <4>4, Zenon DEF Argc
    <3> HIDE DEF Argc
    <3> QED BY <1>4, <3>1 DEF shell_cmd_upload, uploadVars
  <2>2. argv' = argv /\ Parse' = Parse /\ Argc' = Argc /\ Separate' = Separate
    BY <2>1 DEF argv, Parse, Argc, Separate, Word
  <2>3. Len(argv) \in Nat /\ opt_cnt \in Nat /\ i \in Nat \ {0}
    BY <1>1, CommandType DEF UploadTypes
  <2>4. param'.size \in Nat
    BY <1>1, <2>1, <2>3, ParseSize DEF UploadTypes
  <2>5. UploadTypes'
    BY <1>1, <2>1, <2>4 DEF UploadTypes, Points
  <2>6. Scanned'
    BY <1>1, <2>1 DEF Scanned, Separate, Plain, argv
  <2>7. Parsed'
    <3>1. CASE opt_cnt > Len(argv)
      BY <1>1, <1>2, <2>1, <3>1 DEF Parsed, NoParam
    <3>2. CASE opt_cnt <= Len(argv)
      <4>1. i <= Len(argv) => argv[i].opt = NoOpt
        BY <1>2 DEF AtOption
      <4>2. pc' = "execute" /\ param' = Parse
        BY <2>1, <2>3, <3>2
      <4>3. ParamsRead'
        <5> HIDE DEF argv, Parse, Argc
        <5> QED BY <2>1, <2>2, <3>2, <4>1, <4>2 DEF ParamsRead
      <4> QED BY <4>2, <4>3 DEF Parsed
    <3> QED BY <2>3, <3>1, <3>2
  <2>8. Held'
    BY <1>1, <1>2, <2>1 DEF Held
  <2>9. Balanced'
    BY <1>1, <1>2, <2>1 DEF Balanced, NoCount
  <2>10. SurvivesCommandLine'
    <3>1. ASSUME pc' = "undefined", Separate
          PROVE  FALSE
      <4>1. opt_cnt > Len(argv) /\ opt_cnt = i - 1 /\ i <= Len(argv) + 1
        BY <1>1, <2>1, <3>1 DEF Scanned
      <4> QED BY <2>3, <4>1
    <3>2. pc' # "trapped"
      BY <2>1
    <3> HIDE DEF Separate
    <3> QED BY <2>2, <3>1, <3>2 DEF SurvivesCommandLine
  <2>11. PacketsMatchBytes'
    BY <2>1 DEF PacketsMatchBytes
  <2> QED BY <2>5, <2>6, <2>7, <2>8, <2>9, <2>10, <2>11 DEF UploadsInv
<1> QED BY <1>3, <1>4
-----------------------------------------------------------------------------
(***************************************************************************)
(* The rest of the command, which leaves the parameters alone.             *)
(***************************************************************************)
LEMMA KeepInv ==
  ASSUME UploadsInv, UNCHANGED <<cmd, i, opt_cnt, opts, param>>,
         pc' \in Points \ {"options", "execute"}
  PROVE  /\ Scanned' /\ Parsed' /\ Size' = Size /\ Udp' = Udp
         /\ cmd' \in Commands /\ i' \in Nat \ {0} /\ opt_cnt' \in Nat
         /\ opts' \in [tos : Int, async : BOOLEAN, nodelay : BOOLEAN]
         /\ param'.size \in Nat
         /\ Word(5)' = Word(5) /\ Separate' = Separate
<1>1. UploadTypes /\ Scanned /\ Parsed
  BY DEF UploadsInv
<1>2. Scanned'
  BY <1>1 DEF Scanned, Separate, Plain, argv
<1>3. ParamsRead' = ParamsRead
  BY DEF ParamsRead, Parse, Argc, Word, argv
<1>4. Parsed'
  <2> HIDE DEF ParamsRead
  <2> QED BY <1>1, <1>3 DEF Parsed, NoParam
<1>5. Size' = Size /\ Udp' = Udp /\ Word(5)' = Word(5) /\ Separate' = Separate
  BY DEF Size, Udp, Word, argv, Separate
<1> QED BY <1>1, <1>2, <1>4, <1>5 DEF UploadTypes

LEMMA SizeType == UploadTypes => Size \in Nat
  BY DEF UploadTypes, Size

\* A rate that is neither 0 nor too large keeps the divisor from 0.
LEMMA RateDivisor ==
  ASSUME NEW v \in 1 .. WORD32 - KILO,
         param.rate = ((v + KILO - 1) \div KILO) % WORD32
  PROVE  Divisor # 0
<1> DEFINE q == (v + KILO - 1) \div KILO
<1>1. KILO \in Nat \ {0} /\ WORD32 \in Nat \ {0} /\ v \in Nat /\ v >= 1 /\ v + KILO <= WORD32
  OBVIOUS
<1>2. q \in Int /\ q * KILO <= v + KILO - 1 /\ v + KILO - 1 < q * KILO + KILO
  <2>1. \A a \in Int, m \in Nat \ {0} :
          a \div m \in Int /\ (a \div m) * m <= a /\ a < (a \div m) * m + m
    OBVIOUS
  <2>2. v + KILO - 1 \in Int
    BY <1>1
  <2> QED BY <1>1, <2>1, <2>2
<1> HIDE DEF q
<1> DEFINE p == q * KILO
<1>3. p \in Int /\ 0 < p /\ p < WORD32
  <2>1. p \in Int
    BY <1>1, <1>2
  <2>2. p <= v + KILO - 1 /\ v + KILO - 1 < p + KILO
    BY <1>2
  <2> HIDE DEF p
  <2> QED BY <1>1, <2>1, <2>2
<1>4. 0 <= q /\ q <= p
  <2>1. q > 0
    <3>1. CASE q <= 0
      <4>1. q * KILO <= 0
        BY <1>1, <1>2, <3>1
      <4> QED BY <1>3, <4>1
    <3> QED BY <1>2, <3>1
  <2>2. q * KILO >= q
    <3>1. q * (KILO - 1) >= 0
      BY <1>1, <1>2, <2>1
    <3>2. q * (KILO - 1) = q * KILO - q
      BY <1>1, <1>2
    <3>3. q * KILO \in Int
      BY <1>1, <1>2
    <3> QED BY <1>2, <3>1, <3>2, <3>3
  <2> QED BY <1>2, <2>1, <2>2
<1>5. \A a \in Int : 0 <= a /\ a < WORD32 => a % WORD32 = a
  BY <1>1, RemainderType
<1>6. param.rate = q
  <2>1. q < WORD32
    <3> HIDE DEF p
    <3> QED BY <1>1, <1>2, <1>3, <1>4
  <2>2. q % WORD32 = q
    BY <1>2, <1>4, <1>5, <2>1, Zenon
  <2> QED BY <2>2 DEF q
<1>7. Divisor = p % WORD32
  BY <1>6 DEF Divisor
<1> HIDE DEF p
<1>8. 0 <= p
  BY <1>3
<1>9. p % WORD32 = p
  BY <1>3, <1>5, <1>8, Zenon
<1> QED BY <1>3, <1>7, <1>9

\* A rate that stands on no command line is 10, and no division by zero.
LEMMA ExecuteSteps ==
  ASSUME UploadsInv, zperf_packet_duration \/ execute_upload
  PROVE  UploadsInv'
<1>1. /\ UploadTypes /\ Parsed /\ Held /\ Balanced /\ pc = "execute" /\ pc' \in {"trapped", "socket"}
      /\ UNCHANGED <<cmd, i, opt_cnt, opts, param, sock, count, clock, failed>>
  BY DEF UploadsInv, zperf_packet_duration, execute_upload, uploadVars
<1>2. pc' \in Points \ {"options", "execute"}
  BY <1>1 DEF Points
<1>3. /\ Scanned' /\ Parsed' /\ Size' = Size /\ Udp' = Udp
      /\ cmd' \in Commands /\ i' \in Nat \ {0} /\ opt_cnt' \in Nat
      /\ opts' \in [tos : Int, async : BOOLEAN, nodelay : BOOLEAN]
      /\ param'.size \in Nat
      /\ Word(5)' = Word(5) /\ Separate' = Separate
  BY <1>1, <1>2, KeepInv
<1>4. UploadTypes'
  BY <1>1, <1>2, <1>3 DEF UploadTypes
<1>5. Held'
  BY <1>1 DEF Held
<1>6. Balanced'
  BY <1>1 DEF Balanced, NoCount
<1>7. PacketsMatchBytes'
  BY <1>1 DEF PacketsMatchBytes
<1>8. ASSUME pc' = "trapped"
      PROVE  Udp /\ parse_number(Word(5)) \notin 1 .. WORD32 - KILO
  <2>1. Udp /\ Divisor = 0
    BY <1>8 DEF zperf_packet_duration, execute_upload
  <2>2. ParamsRead /\ opt_cnt <= Len(argv)
    BY <1>1 DEF Parsed, ParamsRead
  <2>3. param.rate = IF Argc > 5 THEN RateKbps(Word(5)) ELSE 10
    BY <2>2 DEF ParamsRead, Parse
  <2>4. CASE Argc > 5
    <3>1. param.rate = ((parse_number(Word(5)) + KILO - 1) \div KILO) % WORD32
      BY <2>3, <2>4 DEF RateKbps
    <3> QED BY <2>1, <3>1, RateDivisor
  <2>5. CASE ~(Argc > 5)
    <3>1. param.rate = 10
      BY <2>3, <2>5
    <3>2. Divisor = (10 * KILO) % WORD32
      BY <3>1 DEF Divisor
    <3>3. 10 * KILO \in Int /\ 0 <= 10 * KILO /\ 10 * KILO < WORD32 /\ 10 * KILO # 0
      OBVIOUS
    <3>4. \A a \in Int : 0 <= a /\ a < WORD32 => a % WORD32 = a
      BY RemainderType
    <3>5. (10 * KILO) % WORD32 = 10 * KILO
      BY <3>3, <3>4, Zenon
    <3> QED BY <2>1, <3>2, <3>3, <3>5
  <2> QED BY <2>1, <2>4, <2>5
<1>9. SurvivesCommandLine'
  <2>1. (parse_number(Word(5)) \notin 1 .. WORD32 - KILO)' = (parse_number(Word(5)) \notin 1 .. WORD32 - KILO)
    BY <1>1 DEF parse_number, strtoul, Word, argv
  <2> QED BY <1>1, <1>3, <1>8, <2>1 DEF SurvivesCommandLine
<1> QED BY <1>3, <1>4, <1>5, <1>6, <1>7, <1>9 DEF UploadsInv

\* The steps after that, whichever they are: types, socket and bytes decide.
LEMMA UploadStep ==
  ASSUME UploadsInv, UNCHANGED <<cmd, i, opt_cnt, opts, param>>,
         pc' \in Points \ {"options", "undefined", "execute", "trapped", "socket"},
         sock' \in BOOLEAN, count' \in [packets : Nat, bytes : Nat, rest : Nat],
         Held', Balanced', PacketsMatchBytes'
  PROVE  UploadsInv'
<1>1. pc' \in Points \ {"options", "execute"} /\ pc' \in Points
  BY DEF Points
<1>2. /\ Scanned' /\ Parsed'
      /\ cmd' \in Commands /\ i' \in Nat \ {0} /\ opt_cnt' \in Nat
      /\ opts' \in [tos : Int, async : BOOLEAN, nodelay : BOOLEAN]
      /\ param'.size \in Nat
  BY <1>1, KeepInv
<1>3. UploadTypes'
  BY <1>1, <1>2 DEF UploadTypes
<1>4. SurvivesCommandLine'
  BY DEF SurvivesCommandLine
<1> QED BY <1>2, <1>3, <1>4 DEF UploadsInv

\* The calls around the loops.
LEMMA CallSteps ==
  ASSUME UploadsInv,
         \/ Socket \/ SocketFails \/ Connect \/ ConnectFails \/ NodelayFails
         \/ udp_upload \/ Close \/ Report \/ upload_cb
  PROVE  UploadsInv'
<1>1. UploadTypes /\ Held /\ Balanced
  BY DEF UploadsInv
<1>2. UNCHANGED <<cmd, i, opt_cnt, opts, param>> /\ count' = count /\ Udp' = Udp
  BY DEF Socket, SocketFails, Connect, ConnectFails, NodelayFails, udp_upload, Close,
         Report, upload_cb, Keep, uploadVars, Udp
<1>3. count' \in [packets : Nat, bytes : Nat, rest : Nat]
  BY <1>1, <1>2 DEF UploadTypes
<1>4. CASE Socket
  <2>1. pc' = "connect" /\ pc = "socket" /\ sock' = TRUE /\ failed' = failed
    BY <1>4 DEF Socket
  <2>2. Held' /\ sock' \in BOOLEAN
    BY <1>1, <2>1 DEF Held
  <2>3. Balanced' /\ PacketsMatchBytes'
    BY <1>1, <1>2, <2>1 DEF Balanced, PacketsMatchBytes, NoCount
  <2> QED BY <1>2, <1>3, <2>1, <2>2, <2>3, UploadStep DEF Points
<1>5. CASE SocketFails
  <2>1. pc' = "report" /\ pc = "socket" /\ sock' = sock /\ failed' = "socket"
    BY <1>5 DEF SocketFails
  <2>2. Held' /\ sock' \in BOOLEAN
    BY <1>1, <2>1 DEF Held, UploadTypes
  <2>3. Balanced' /\ PacketsMatchBytes'
    BY <1>1, <1>2, <2>1 DEF Balanced, PacketsMatchBytes
  <2> QED BY <1>2, <1>3, <2>1, <2>2, <2>3, UploadStep DEF Points
<1>6. CASE Connect
  <2>1. pc' = (IF Udp THEN "udp" ELSE "nodelay") /\ pc = "connect" /\ sock' = sock /\ failed' = failed
    BY <1>6 DEF Connect, uploadVars
  <2>2. Held' /\ sock' \in BOOLEAN
    BY <1>1, <2>1 DEF Held, UploadTypes
  <2>3. Balanced' /\ PacketsMatchBytes'
    <3> HIDE DEF Udp
    <3> QED BY <1>1, <1>2, <2>1 DEF Balanced, PacketsMatchBytes, NoCount
  <2> QED BY <1>2, <1>3, <2>1, <2>2, <2>3, UploadStep DEF Points
<1>7. CASE ConnectFails
  <2>1. pc' = "report" /\ pc = "connect" /\ sock' = FALSE /\ failed' = "connect"
    BY <1>7 DEF ConnectFails
  <2>2. Held' /\ sock' \in BOOLEAN
    BY <1>1, <2>1 DEF Held
  <2>3. Balanced' /\ PacketsMatchBytes'
    BY <1>1, <1>2, <2>1 DEF Balanced, PacketsMatchBytes
  <2> QED BY <1>2, <1>3, <2>1, <2>2, <2>3, UploadStep DEF Points
<1>8. CASE NodelayFails
  <2>1. pc' = "report" /\ pc = "nodelay" /\ sock' = sock /\ failed' = "nodelay"
    BY <1>8 DEF NodelayFails
  <2>2. Held' /\ sock' \in BOOLEAN
    BY <1>1, <2>1 DEF Held, UploadTypes
  <2>3. Balanced' /\ PacketsMatchBytes'
    BY <1>1, <1>2, <2>1 DEF Balanced, PacketsMatchBytes
  <2> QED BY <1>2, <1>3, <2>1, <2>2, <2>3, UploadStep DEF Points
<1>9. CASE udp_upload
  <2>1. pc' = "close" /\ pc = "udp" /\ sock' = sock /\ failed' \in {"none", "udp"}
    BY <1>9 DEF udp_upload
  <2>2. Held' /\ sock' \in BOOLEAN
    BY <1>1, <2>1 DEF Held, UploadTypes
  <2>3. Balanced' /\ PacketsMatchBytes'
    BY <1>1, <1>2, <2>1 DEF Balanced, PacketsMatchBytes
  <2> QED BY <1>2, <1>3, <2>1, <2>2, <2>3, UploadStep DEF Points
<1>10. CASE Close
  <2>1. pc' = "report" /\ pc = "close" /\ sock' = FALSE /\ failed' = failed
    BY <1>10 DEF Close
  <2>2. Held' /\ sock' \in BOOLEAN
    BY <1>1, <2>1 DEF Held
  <2>3. Balanced' /\ PacketsMatchBytes'
    BY <1>1, <1>2, <2>1 DEF Balanced, PacketsMatchBytes
  <2> QED BY <1>2, <1>3, <2>1, <2>2, <2>3, UploadStep DEF Points
<1>11. CASE Report \/ upload_cb
  <2>1. pc' = "end" /\ pc = "report" /\ sock' = sock /\ failed' = failed
    BY <1>11 DEF Report, upload_cb, uploadVars
  <2>2. Held' /\ sock' \in BOOLEAN
    BY <1>1, <2>1 DEF Held, UploadTypes
  <2>3. Balanced' /\ PacketsMatchBytes'
    BY <1>1, <1>2, <2>1 DEF Balanced, PacketsMatchBytes
  <2> QED BY <1>2, <1>3, <2>1, <2>2, <2>3, UploadStep DEF Points
<1> QED BY <1>4, <1>5, <1>6, <1>7, <1>8, <1>9, <1>10, <1>11

\* The sending loop of tcp_upload.
LEMMA LoopSteps ==
  ASSUME UploadsInv, Nodelay \/ sendall \/ SendFails \/ Again \/ Tick
  PROVE  UploadsInv'
<1>1. UploadTypes /\ Held /\ Balanced /\ PacketsMatchBytes /\ Size \in Nat
  BY SizeType DEF UploadsInv
<1>2. /\ UNCHANGED <<cmd, i, opt_cnt, opts, param>> /\ sock' = sock
      /\ Udp' = Udp /\ Size' = Size
  BY DEF Nodelay, sendall, SendFails, Again, Tick, Keep, Udp, Size
<1>3. /\ count \in [packets : Nat, bytes : Nat, rest : Nat] /\ sock' \in BOOLEAN
      /\ count.packets \in Nat /\ count.bytes \in Nat /\ count.rest \in Nat
  BY <1>1, <1>2 DEF UploadTypes
<1>4. pc \in {"nodelay", "send", "expired"} /\ ~Udp
  BY <1>1 DEF Nodelay, sendall, SendFails, Again, Tick, Balanced
<1> HIDE DEF Size, Udp
<1>5. CASE Nodelay
  <2>1. pc' = "send" /\ pc = "nodelay" /\ failed' = failed /\ count = NoCount
    BY <1>1, <1>5 DEF Nodelay, Balanced
  <2>2. /\ count'.packets = 0 /\ count'.bytes = 0 /\ count'.rest = Size
        /\ count' \in [packets : Nat, bytes : Nat, rest : Nat]
    BY <1>1, <1>5, <2>1 DEF Nodelay, NoCount
  <2>3. Held'
    BY <1>1, <1>2, <2>1 DEF Held
  <2>4. Balanced'
    BY <1>1, <1>2, <1>4, <2>1, <2>2 DEF Balanced
  <2>5. PacketsMatchBytes'
    BY <1>1, <1>2, <1>4, <2>1, <2>2 DEF PacketsMatchBytes
  <2> QED BY <1>2, <1>3, <2>1, <2>2, <2>3, <2>4, <2>5, UploadStep DEF Points
<1>6. CASE sendall
  <2>1. pc = "send" /\ failed' = failed /\ count.rest <= Size /\ (count.rest = 0 => Size = 0)
    BY <1>1, <1>6 DEF sendall, Balanced
  <2>2. PICK n \in 0 .. count.rest : (n = 0 => count.rest = 0) /\ count' = Sent(n)
    BY <1>6 DEF sendall
  <2>3. pc' = IF count'.rest = 0 THEN "expired" ELSE "send"
    BY <1>6 DEF sendall
  <2>4. n \in Nat /\ n <= count.rest
    BY <1>3
  <2>5. /\ count'.bytes = count.bytes + n /\ count'.rest = count.rest - n
        /\ count'.packets = IF count.rest = n THEN count.packets + 1 ELSE count.packets
    BY <1>3, <2>2 DEF Sent
  <2>6. count' \in [packets : Nat, bytes : Nat, rest : Nat]
    <3> DEFINE p == IF count.rest = n THEN count.packets + 1 ELSE count.packets
    <3>1. count.bytes + n \in Nat /\ count.rest - n \in Nat /\ p \in Nat
      BY <1>3, <2>4
    <3>2. count' = [count EXCEPT !.bytes = count.bytes + n, !.rest = count.rest - n, !.packets = p]
      BY <2>2 DEF Sent
    <3> HIDE DEF p
    <3> QED BY <1>3, <3>1, <3>2
  <2>7. Held'
    BY <1>1, <1>2, <2>1, <2>3 DEF Held
  <2>8. Balanced'
    <3>1. /\ pc' = "send" => count'.rest # 0 /\ count'.rest <= Size
          /\ pc' = "expired" => count'.rest = 0 /\ count'.packets > 0
      BY <1>1, <1>3, <2>1, <2>3, <2>4, <2>5
    <3> QED BY <1>2, <1>4, <2>3, <3>1 DEF Balanced
  <2>9. PacketsMatchBytes'
    <3>1. count.bytes = count.packets * Size + (IF count.rest = 0 THEN 0 ELSE Size - count.rest)
      BY <1>1, <1>4, <2>1 DEF PacketsMatchBytes
    <3>2. count.bytes = count.packets * Size + (Size - count.rest)
      BY <1>1, <1>3, <2>1, <3>1
    <3>3. (count.packets + 1) * Size = count.packets * Size + Size /\ count.packets * Size \in Nat
      BY <1>1, <1>3
    <3>4. count'.bytes = count'.packets * Size + (IF count'.rest = 0 THEN 0 ELSE Size - count'.rest)
      <4>1. CASE count.rest = n
        <5>1. count'.packets * Size = count.packets * Size + Size /\ count'.rest = 0
          BY <1>3, <2>4, <2>5, <3>3, <4>1
        <5> QED BY <1>1, <1>3, <2>4, <2>5, <3>2, <3>3, <4>1, <5>1
      <4>2. CASE count.rest # n
        <5>1. count'.packets = count.packets /\ count'.rest # 0
          BY <1>3, <2>4, <2>5, <4>2
        <5> DEFINE whole == count.packets * Size
        <5>2. count'.packets * Size = whole /\ whole \in Nat /\ count.bytes = whole + (Size - count.rest)
          BY <3>2, <3>3, <5>1
        <5> HIDE DEF whole
        <5>3. count'.bytes = whole + (Size - count'.rest)
          BY <1>1, <1>3, <2>4, <2>5, <5>2
        <5> QED BY <5>1, <5>2, <5>3
      <4> QED BY <4>1, <4>2
    <3> QED BY <1>2, <2>3, <3>4 DEF PacketsMatchBytes
  <2> QED BY <1>2, <1>3, <2>3, <2>6, <2>7, <2>8, <2>9, UploadStep DEF Points
<1>7. CASE SendFails
  <2>1. pc' = "close" /\ pc = "send" /\ failed' = "send" /\ count' = count
    BY <1>7 DEF SendFails
  <2>2. Held'
    BY <1>1, <1>2, <2>1 DEF Held
  <2>3. Balanced'
    BY <2>1 DEF Balanced
  <2>4. PacketsMatchBytes'
    BY <1>1, <1>2, <2>1 DEF PacketsMatchBytes
  <2> QED BY <1>2, <1>3, <2>1, <2>2, <2>3, <2>4, UploadStep DEF Points
<1>8. CASE Again /\ Expired
  <2>1. pc' = "close" /\ pc = "expired" /\ failed' = failed /\ count' = count /\ clock' = clock
    BY <1>8 DEF Again
  <2>2. Held'
    BY <1>1, <1>2, <2>1 DEF Held
  <2>3. Balanced'
    BY <2>1 DEF Balanced
  <2>4. Expired' /\ count.rest = 0 /\ count.packets > 0
    BY <1>1, <1>2, <1>8, <2>1 DEF Expired, Balanced
  <2>5. PacketsMatchBytes'
    BY <1>1, <1>2, <2>1, <2>4 DEF PacketsMatchBytes
  <2> QED BY <1>2, <1>3, <2>1, <2>2, <2>3, <2>5, UploadStep DEF Points
<1>9. CASE Again /\ ~Expired
  <2>1. pc' = "send" /\ pc = "expired" /\ failed' = failed
    BY <1>9 DEF Again
  <2>2. /\ count'.packets = count.packets /\ count'.bytes = count.bytes /\ count'.rest = Size
        /\ count' \in [packets : Nat, bytes : Nat, rest : Nat]
    BY <1>1, <1>3, <1>9 DEF Again
  <2>3. Held'
    BY <1>1, <1>2, <2>1 DEF Held
  <2>4. Balanced'
    BY <1>1, <1>2, <1>4, <2>1, <2>2 DEF Balanced
  <2>5. count.bytes = count.packets * Size /\ count.packets * Size \in Nat
    BY <1>1, <1>3, <1>4, <2>1 DEF PacketsMatchBytes, Balanced
  <2>6. PacketsMatchBytes'
    BY <1>1, <1>2, <2>1, <2>2, <2>5 DEF PacketsMatchBytes
  <2> QED BY <1>2, <1>3, <2>1, <2>2, <2>3, <2>4, <2>6, UploadStep DEF Points
<1>10. CASE Tick
  <2>1. pc' = pc /\ pc \in {"send", "expired"} /\ failed' = failed /\ count' = count
    BY <1>10 DEF Tick
  <2>2. Held'
    BY <1>1, <1>2, <2>1 DEF Held
  <2>3. Balanced'
    BY <1>1, <1>2, <1>4, <2>1 DEF Balanced
  <2>4. PacketsMatchBytes'
    BY <1>1, <1>2, <2>1 DEF PacketsMatchBytes
  <2> QED BY <1>2, <1>3, <2>1, <2>2, <2>3, <2>4, UploadStep DEF Points
<1> QED BY <1>5, <1>6, <1>7, <1>8, <1>9, <1>10

LEMMA NextUploads == UploadsInv /\ [Next]_vars => UploadsInv'
<1> SUFFICES ASSUME UploadsInv, [Next]_vars
             PROVE  UploadsInv'
  OBVIOUS
<1>1. CASE UNCHANGED vars
  <2>1. UNCHANGED <<cmd, pc, i, opt_cnt, opts, param, sock, count, clock, failed>>
    BY <1>1 DEF vars, uploadVars
  <2>2. UploadTypes' /\ Scanned' /\ Held'
    BY <2>1 DEF UploadsInv, UploadTypes, Scanned, Separate, Plain, argv, Held
  <2>3. Parsed' /\ Balanced'
    BY <2>1 DEF UploadsInv, Parsed, ParamsRead, Parse, Argc, Word, argv, NoParam,
                Balanced, NoCount, Udp, Size
  <2>4. SurvivesCommandLine' /\ PacketsMatchBytes'
    BY <2>1 DEF UploadsInv, SurvivesCommandLine, parse_number, strtoul, Word, argv, Separate,
                PacketsMatchBytes, Udp, Size, Expired
  <2> QED BY <2>2, <2>3, <2>4 DEF UploadsInv
<1>2. CASE Next
  BY <1>2, OptionSteps, ReadStep, ExecuteSteps, CallSteps, LoopSteps DEF Next, Step
<1> QED BY <1>1, <1>2

LEMMA AlwaysUploadsInv == Spec => []UploadsInv
  BY InitUploads, NextUploads, PTL DEF Spec
-----------------------------------------------------------------------------
(***************************************************************************)
(* What the parameters are, where the arguments are words of their own.    *)
(***************************************************************************)
\* The option loop has stopped at the first plain word.
LEMMA FirstPlain ==
  ASSUME UploadsInv, param # NoParam, Separate
  PROVE  /\ ParamsRead /\ opt_cnt = i - 1 /\ i \in 1 .. Len(argv)
         /\ i \in Plain /\ \A j \in Plain : i <= j
<1>1. UploadTypes /\ Scanned /\ Parsed
  BY DEF UploadsInv
<1>2. ParamsRead
  BY <1>1 DEF Parsed
<1>3. /\ opt_cnt = i - 1 /\ (i > 1 => argv[i - 1].opt # "S")
      /\ \A k \in 1 .. (i - 1) : k \notin Plain
  BY <1>1 DEF Scanned
<1>4. /\ Len(argv) \in Nat /\ i \in Nat \ {0} /\ opt_cnt \in Nat /\ DOMAIN argv = 1 .. Len(argv)
  BY <1>1, CommandType DEF UploadTypes
<1>5. Argc = Len(argv) + 1 - opt_cnt /\ Argc >= 2
  BY <1>1, <1>2, ArgcValue DEF ParamsRead
<1>6. i \in 1 .. Len(argv)
  <2> HIDE DEF Argc, argv
  <2> QED BY <1>3, <1>4, <1>5
<1>7. argv[i].opt = NoOpt
  BY <1>2, <1>6 DEF ParamsRead
<1>8. i \in Plain
  BY <1>3, <1>4, <1>6, <1>7 DEF Plain
<1>9. \A j \in Plain : j \in Nat /\ j >= 1
  <2>1. Plain \subseteq DOMAIN argv
    BY DEF Plain
  <2> HIDE DEF Plain, argv
  <2> QED BY <1>4, <2>1
<1> HIDE DEF Plain
<1>10. \A j \in Plain : i <= j
  <2> SUFFICES ASSUME NEW j \in Plain, j < i
               PROVE  FALSE
    BY <1>4, <1>9
  <2>1. j \in 1 .. (i - 1)
    BY <1>4, <1>9
  <2> QED BY <1>3, <2>1
<1> QED BY <1>2, <1>3, <1>6, <1>8, <1>10

\* The parser reads the positional words.
LEMMA PositionalWords ==
  ASSUME UploadsInv, param # NoParam, Separate
  PROVE  /\ Len(Positional) = Argc - 1 /\ Argc \in Nat /\ Argc >= 2
         /\ \A k \in Nat \ {0} : Argc > k => Positional[k] = Word(k) /\ Word(k) \in Words
<1>1. /\ ParamsRead /\ opt_cnt = i - 1 /\ i \in 1 .. Len(argv)
      /\ i \in Plain /\ \A j \in Plain : i <= j
  BY FirstPlain
<1>2. UploadTypes
  BY DEF UploadsInv
<1>3. /\ Len(argv) \in Nat /\ i \in Nat \ {0} /\ opt_cnt \in Nat /\ DOMAIN argv = 1 .. Len(argv)
      /\ argv \in Seq(Words)
  BY <1>2, CommandType DEF UploadTypes
<1>4. opt_cnt <= Len(argv) /\ Argc >= 2
  BY <1>1 DEF ParamsRead
<1>5. Argc = Len(argv) + 1 - opt_cnt
  BY <1>2, <1>4, ArgcValue
<1> DEFINE first == CHOOSE k \in Plain : \A j \in Plain : k <= j
<1>6. first = i
  <2>1. first \in Plain /\ \A j \in Plain : first <= j
    BY <1>1
  <2>2. first \in Nat
    <3>1. Plain \subseteq DOMAIN argv
      BY DEF Plain
    <3> HIDE DEF Plain, first, argv
    <3> QED BY <1>3, <2>1, <3>1
  <2> HIDE DEF first, Plain
  <2>3. first <= i /\ i <= first
    BY <1>1, <2>1
  <2> QED BY <1>3, <2>2, <2>3
<1>7. Positional = SubSeq(argv, i, Len(argv))
  <2>1. Plain # {}
    BY <1>1
  <2> HIDE DEF Plain, argv
  <2> QED BY <1>6, <2>1 DEF Positional
<1> HIDE DEF argv, Words, Argc, Plain
<1>8. /\ Len(Positional) = Len(argv) - i + 1
      /\ \A k \in 1 .. (Len(argv) - i + 1) : Positional[k] = argv[i + k - 1]
  BY <1>1, <1>3, <1>7
<1>9. ASSUME NEW k \in Nat \ {0}, Argc > k
      PROVE  Positional[k] = Word(k) /\ Word(k) \in Words
  <2>1. k \in 1 .. (Len(argv) - i + 1) /\ i + k - 1 = opt_cnt + k
    BY <1>1, <1>3, <1>5, <1>9
  <2>2. Word(k) \in Words
    BY <1>2, <1>4, <1>9, WordType
  <2> QED BY <1>8, <2>1, <2>2 DEF Word
<1>10. Len(Positional) = Argc - 1 /\ Argc \in Nat
  BY <1>1, <1>3, <1>5, <1>8
<1> QED BY <1>4, <1>9, <1>10

\* A rate of 32 bits is rounded up to whole kilobits, and still has 32 bits.
LEMMA RateRounded ==
  ASSUME NEW v \in Nat, v < WORD32
  PROVE  LET r == ((v + KILO - 1) \div KILO) % WORD32
         IN  KILO * (r - 1) < v /\ v <= KILO * r
<1> DEFINE q == (v + KILO - 1) \div KILO
<1>1. KILO \in Nat \ {0} /\ WORD32 \in Nat \ {0}
  OBVIOUS
<1>2. q \in Int /\ q * KILO <= v + KILO - 1 /\ v + KILO - 1 < q * KILO + KILO
  <2>1. \A a \in Int, m \in Nat \ {0} :
          a \div m \in Int /\ (a \div m) * m <= a /\ a < (a \div m) * m + m
    OBVIOUS
  <2>2. v + KILO - 1 \in Int
    BY <1>1
  <2> QED BY <1>1, <2>1, <2>2
<1> HIDE DEF q
<1>3. KILO * (q - 1) < v /\ v <= KILO * q
  <2>1. KILO * (q - 1) = q * KILO - KILO /\ KILO * q = q * KILO /\ q * KILO \in Int
    BY <1>1, <1>2
  <2> QED BY <1>1, <1>2, <2>1
<1>4. 0 <= q
  <2>1. CASE q < 0
    <3>1. KILO * q <= -1
      BY <1>1, <1>2, <2>1
    <3>2. KILO * q \in Int
      BY <1>1, <1>2
    <3> QED BY <1>3, <3>1, <3>2
  <2> QED BY <1>2, <2>1
<1>5. q < WORD32
  <2>1. CASE q = 0
    BY <1>1, <2>1
  <2>2. CASE q > 0
    <3>1. KILO * (q - 1) >= q - 1
      <4>1. (KILO - 1) * (q - 1) >= 0
        BY <1>1, <1>2, <2>2
      <4>2. (KILO - 1) * (q - 1) = KILO * (q - 1) - (q - 1) /\ KILO * (q - 1) \in Int
        BY <1>1, <1>2
      <4> QED BY <1>2, <4>1, <4>2
    <3>2. KILO * (q - 1) \in Int
      BY <1>1, <1>2
    <3> QED BY <1>1, <1>2, <1>3, <3>1, <3>2
  <2> QED BY <1>2, <1>4, <2>1, <2>2
<1>6. \A a \in Int : 0 <= a /\ a < WORD32 => a % WORD32 = a
  BY <1>1, RemainderType
<1>7. q % WORD32 = q
  BY <1>2, <1>4, <1>5, <1>6, Zenon
<1>8. ((v + KILO - 1) \div KILO) % WORD32 = q
  BY <1>7 DEF q
<1> QED BY <1>3, <1>8

LEMMA ParsedFromInv ==
  ASSUME UploadsInv
  PROVE  ParsedAsGiven
<1> SUFFICES ASSUME param # NoParam, Separate
             PROVE  ParsedAsGiven
  BY DEF ParsedAsGiven
<1> DEFINE given(k) == Len(Positional) >= k
           value(k) == strtoul(Positional[k])
           port == IF given(2) THEN value(2) ELSE 5001
           ms == MSEC_PER_SEC * (IF given(3) THEN value(3) ELSE 1)
           size == parse_number(Positional[4])
           rate == parse_number(Positional[5])
<1>1. /\ Len(Positional) = Argc - 1 /\ Argc \in Nat /\ Argc >= 2
      /\ \A k \in Nat \ {0} : Argc > k => Positional[k] = Word(k) /\ Word(k) \in Words
  BY PositionalWords
<1>2. ParamsRead /\ param = Parse
  BY FirstPlain DEF ParamsRead
<1> HIDE DEF Positional, Argc, Word, Words
<1>3. \A k \in Nat \ {0} : given(k) <=> Argc > k
  BY <1>1
<1>4. given(1)
  BY <1>1, <1>3
<1>5. \A k \in Nat \ {0} : given(k) =>
        /\ Positional[k] = Word(k)
        /\ strtoul(Word(k)) \in Nat /\ parse_number(Word(k)) \in Nat
  BY <1>1, <1>3, NumberType
<1>6. ASSUME Positional[1].addr \in V4 \cup V6, given(2) => port \in 1 .. WORD16 - 1
      PROVE  param.peer[2] = Positional[1].addr /\ param.peer[3] = port
  <2> DEFINE p == IF Argc > 2 THEN strtoul(Word(2)) % WORD16 ELSE DEF_PORT
  <2>1. param.peer = Peer(Word(1), p) /\ Positional[1] = Word(1)
    BY <1>2, <1>4, <1>5 DEF Parse
  <2>2. p = port /\ p # 0
    <3>1. CASE given(2)
      <4>1. Argc > 2 /\ port = strtoul(Word(2)) /\ port \in Nat /\ port > 0 /\ port < WORD16
        <5>1. Argc > 2
          BY <1>3, <3>1
        <5>2. port = strtoul(Word(2)) /\ strtoul(Word(2)) \in Nat
          BY <1>5, <3>1
        <5>3. port \in 1 .. WORD16 - 1
          BY <1>6, <3>1
        <5> HIDE DEF port
        <5> QED BY <5>1, <5>2, <5>3
      <4>2. \A a \in Int : 0 <= a /\ a < WORD16 => a % WORD16 = a
        BY RemainderType
      <4> HIDE DEF port
      <4>3. port \in Int /\ 0 <= port /\ port # 0
        BY <4>1
      <4>4. port % WORD16 = port
        BY <4>1, <4>2, <4>3, Zenon
      <4> QED BY <4>1, <4>3, <4>4
    <3>2. CASE ~given(2)
      BY <1>1, <1>3, <3>2 DEF DEF_PORT
    <3> QED BY <3>1, <3>2
  <2> HIDE DEF p, port
  <2>3. Word(1).addr \in V4 \cup V6
    BY <1>6, <2>1
  <2>4. /\ parse_ipv6_addr(Word(1), p).ok <=> Word(1).addr \in V6
        /\ parse_ipv6_addr(Word(1), p).peer = <<"v6", Word(1).addr, p>>
    BY <2>2 DEF parse_ipv6_addr
  <2>5. parse_ipv4_addr(Word(1), p).peer =
          IF Word(1).addr \in V4 THEN <<"v4", Word(1).addr, p>> ELSE <<"v4", NoAddr, 0>>
    BY DEF parse_ipv4_addr
  <2>6. \/ Peer(Word(1), p) = <<"v6", Word(1).addr, p>>
        \/ Peer(Word(1), p) = <<"v4", Word(1).addr, p>>
    BY <2>3, <2>4, <2>5 DEF Peer
  <2>7. Peer(Word(1), p)[2] = Word(1).addr /\ Peer(Word(1), p)[3] = p
    <3> HIDE DEF Peer
    <3> QED BY <2>6
  <2> QED BY <2>1, <2>2, <2>7
<1>7. ASSUME ms < WORD32
      PROVE  param.duration = ms
  <2>1. param.duration = (MSEC_PER_SEC * (IF Argc > 3 THEN strtoul(Word(3)) ELSE 1)) % WORD32
    BY <1>2 DEF Parse
  <2>2. ms = MSEC_PER_SEC * (IF Argc > 3 THEN strtoul(Word(3)) ELSE 1)
    BY <1>3, <1>5
  <2>3. (IF given(3) THEN value(3) ELSE 1) \in Nat
    BY <1>5
  <2>4. \A n \in Nat : MSEC_PER_SEC * n \in Nat
    OBVIOUS
  <2>5. ms \in Nat
    BY <2>3, <2>4
  <2>6. \A a \in Int : 0 <= a /\ a < WORD32 => a % WORD32 = a
    BY RemainderType
  <2> HIDE DEF ms
  <2>7. ms \in Int /\ 0 <= ms
    BY <2>5
  <2>8. ms % WORD32 = ms
    BY <1>7, <2>6, <2>7, Zenon
  <2> QED BY <2>1, <2>2, <2>8
<1>8. IF given(4) THEN size < WORD16 => param.size = size ELSE param.size = 256
  <2>1. param.size = IF Argc > 4 THEN parse_number(Word(4)) % WORD16 ELSE 256
    BY <1>2 DEF Parse
  <2>2. CASE given(4)
    <3>1. Argc > 4 /\ size = parse_number(Word(4)) /\ size \in Nat
      BY <1>3, <1>5, <2>2
    <3>2. \A a \in Int : 0 <= a /\ a < WORD16 => a % WORD16 = a
      BY RemainderType
    <3> HIDE DEF size
    <3>3. size \in Int /\ 0 <= size
      BY <3>1
    <3>4. size < WORD16 => size % WORD16 = size
      BY <3>2, <3>3, Zenon
    <3> QED BY <2>1, <2>2, <3>1, <3>4
  <2>3. CASE ~given(4)
    <3> HIDE DEF size
    <3> QED BY <1>1, <1>3, <2>1, <2>3
  <2> QED BY <2>2, <2>3
<1>9. IF given(5)
        THEN rate < WORD32 => KILO * (param.rate - 1) < rate /\ rate <= KILO * param.rate
        ELSE param.rate = 10
  <2>1. param.rate = IF Argc > 5 THEN RateKbps(Word(5)) ELSE 10
    BY <1>2 DEF Parse
  <2>2. CASE given(5)
    <3>1. Argc > 5 /\ rate = parse_number(Word(5)) /\ rate \in Nat
      BY <1>3, <1>5, <2>2
    <3>2. param.rate = ((rate + KILO - 1) \div KILO) % WORD32
      BY <2>1, <3>1 DEF RateKbps
    <3> HIDE DEF rate
    <3> QED BY <2>2, <3>1, <3>2, RateRounded
  <2>3. CASE ~given(5)
    <3> HIDE DEF rate
    <3> QED BY <1>1, <1>3, <2>1, <2>3
  <2> QED BY <2>2, <2>3
<1>10. Tos # {} => opts.tos \in Tos
  <2>1. /\ i \in Nat \ {0} /\ i \in 1 .. Len(argv) /\ i \in Plain /\ \A j \in Plain : i <= j
        /\ DOMAIN argv = 1 .. Len(argv) /\ Len(argv) \in Nat
    BY FirstPlain, CommandType DEF UploadsInv, UploadTypes
  <2>2. \/ \A k \in 1 .. (i - 1) : argv[k].opt # "S"
        \/ \E k \in 1 .. (i - 1) : argv[k].opt = "S" /\ opts.tos = argv[k + 1].num
    BY DEF UploadsInv, Scanned
  <2> DEFINE marks == {k \in DOMAIN argv : argv[k].opt = "S" /\ \A j \in Plain : k < j}
  <2>3. Tos = {argv[k + 1].num : k \in marks}
    BY DEF Tos
  <2>4. \A k \in marks : k \in 1 .. (i - 1) /\ argv[k].opt = "S"
    <3> SUFFICES ASSUME NEW k \in marks
                 PROVE  k \in 1 .. (i - 1) /\ argv[k].opt = "S"
      OBVIOUS
    <3>1. k \in DOMAIN argv /\ argv[k].opt = "S" /\ k < i
      BY <2>1
    <3> HIDE DEF argv, Plain, marks
    <3> QED BY <2>1, <3>1
  <2>5. \A k \in 1 .. (i - 1) : argv[k].opt = "S" => k \in marks
    <3> SUFFICES ASSUME NEW k \in 1 .. (i - 1), argv[k].opt = "S"
                 PROVE  k \in marks
      OBVIOUS
    <3> HIDE DEF argv, Plain
    <3>1. k \in DOMAIN argv
      BY <2>1
    <3>2. \A j \in Plain : k < j
      <4>1. \A j \in Plain : j \in Int
        <5>1. Plain \subseteq DOMAIN argv
          BY DEF Plain
        <5> QED BY <2>1, <5>1
      <4> QED BY <2>1, <4>1
    <3> QED BY <3>1, <3>2
  <2> HIDE DEF marks, argv
  <2>6. CASE \A k \in 1 .. (i - 1) : argv[k].opt # "S"
    BY <2>3, <2>4, <2>6
  <2>7. CASE \E k \in 1 .. (i - 1) : argv[k].opt = "S" /\ opts.tos = argv[k + 1].num
    <3>1. PICK k \in 1 .. (i - 1) : argv[k].opt = "S" /\ opts.tos = argv[k + 1].num
      BY <2>7
    <3>2. k \in marks
      BY <2>5, <3>1
    <3> QED BY <2>3, <3>1, <3>2
  <2> QED BY <2>2, <2>6, <2>7
<1> HIDE DEF Tos
<1> QED BY <1>4, <1>6, <1>7, <1>8, <1>9, <1>10, Zenon DEF ParsedAsGiven
-----------------------------------------------------------------------------
\* shell_cmd_upload: for every command line whose option arguments are words of
\* their own, the upload gets the values that stand on it.
THEOREM ParametersAsGiven == Spec => []ParsedAsGiven
  BY ParsedFromInv, AlwaysUploadsInv, PTL

\* No command line but those the property names ends the program in the
\* division of zperf_packet_duration or lets it read behind argv.
THEOREM AlwaysSurvives == Spec => []SurvivesCommandLine
<1>1. UploadsInv => SurvivesCommandLine
  BY DEF UploadsInv
<1> QED BY <1>1, AlwaysUploadsInv, PTL

\* Whichever call fails, the socket of the upload is closed at its end, but for
\* the early return of zperf_tcp_upload.
THEOREM UploadsCloseSockets == Spec => []SocketsClosed
<1>1. UploadsInv => SocketsClosed
  BY DEF UploadsInv, Held, SocketsClosed
<1> QED BY <1>1, AlwaysUploadsInv, PTL

\* However zsock_send cuts them, tcp_upload counts the packets taken whole, for
\* every packet size, duration and number of packets.
THEOREM PacketsAlwaysMatch == Spec => []PacketsMatchBytes
<1>1. UploadsInv => PacketsMatchBytes
  BY DEF UploadsInv
<1> QED BY <1>1, AlwaysUploadsInv, PTL
=============================================================================
