----------------------------- MODULE MCServers ------------------------------
(***************************************************************************)
(* Commands with and without arguments: a port beyond 16 bits, a host of   *)
(* either family, one with a port that is no number, the host 0.0.0.0, and *)
(* an unclosed bracket.                                                    *)
(***************************************************************************)
EXTENDS Servers

MCV4 == {<<0>>, <<1>>}
MCV6 == {<<2, 0>>, <<3, 1>>}
MCMyIp4 == <<9>>
MCMyIp6 == <<9, 9>>

Text(open, close, addr, port) ==
  [open |-> open, close |-> close, addr |-> addr, port |-> port]

MCArgvs ==
  {<<>>,
   <<65536 + 5002, Text(FALSE, FALSE, <<1>>, BadPort)>>,
   <<5002, Text(FALSE, FALSE, <<0>>, NoPort)>>,
   <<5002, Text(FALSE, FALSE, <<2, 0>>, NoPort)>>,
   <<5002, Text(TRUE, TRUE, <<3, 1>>, 80)>>,
   <<5002, Text(TRUE, FALSE, <<3, 1>>, NoPort)>>}
=============================================================================
