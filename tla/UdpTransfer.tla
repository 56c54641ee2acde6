----------------------------- MODULE UdpTransfer ----------------------------
(***************************************************************************)
(* One UDP upload, end to end: udp_upload and zperf_upload_fin of          *)
(* zperf_udp_uploader.c against the session of UdpSession, over a network  *)
(* that loses, repeats and reorders datagrams in both directions.          *)
(*                                                                         *)
(* A datagram once sent may arrive at any later time and any number of     *)
(* times, or never, so the network is the set of what was sent.  When the  *)
(* loop sends and for how long is the subject of UdpPacing: here it sends  *)
(* at least one datagram, as the do loop does, and stops at any time.      *)
(***************************************************************************)
EXTENDS UdpSession

CONSTANTS
  client,   \* the address of the uploader's socket
  Tries,    \* FINs sent before the upload gives up: 2 in the code
  MaxSent   \* bound: datagrams of the upload

ASSUME TransferAssumption ==
  /\ client \in V4Addrs
  /\ Tries \in Nat \ {0}
  /\ MaxSent \in Nat \ {0}
  /\ 0 .. (MaxSent - 1) \subseteq Ids

VARIABLES
  upc,         \* where the uploader is
  nb_packets,  \* datagrams sent, and the next id
  loop,        \* tries left in zperf_upload_fin
  results,     \* the report decoded, NoResults before
  ret,         \* what the upload returns
  fwd,         \* ids of the datagrams on their way to the server
  back         \* reports on their way to the uploader

uploadVars == <<upc, nb_packets, loop, results, ret>>
vars == <<sessionVars, uploadVars, fwd, back>>

\* What zperf_results keeps of a report.
zperf_upload_decode_stat(stat) ==
  [nb_packets_rcvd |-> stat.datagrams, nb_packets_lost |-> stat.error_cnt,
   nb_packets_outorder |-> stat.outorder_cnt, total_len |-> stat.total_len2,
   jitter_in_us |-> stat.jitter2]

NoResults == zperf_upload_decode_stat(ZeroStat)
-----------------------------------------------------------------------------
(***************************************************************************)
(* The uploader.                                                           *)
(***************************************************************************)

\* One iteration of the sending loop.
SendData ==
  /\ upc = "data"
  /\ nb_packets < MaxSent
  /\ fwd' = fwd \cup {nb_packets}
  /\ nb_packets' = nb_packets + 1
  /\ UNCHANGED <<upc, loop, results, ret, back>>

\* zsock_send fails: the upload returns at once, without a FIN.
SendDataFails ==
  /\ upc = "data"
  /\ upc' = "done"
  /\ ret' = "error"
  /\ UNCHANGED <<nb_packets, loop, results, fwd, back>>

\* The time is over.
EndLoop ==
  /\ upc = "data"
  /\ nb_packets > 0
  /\ upc' = "fin"
  /\ UNCHANGED <<nb_packets, loop, results, ret, fwd, back>>

\* Mutant of SendFin: the tries are not counted.
SendFinForever ==
  /\ upc = "fin"
  /\ \/ fwd' = fwd \cup {-nb_packets} /\ upc' = "wait"
     \/ UNCHANGED <<fwd, upc>>
  /\ UNCHANGED <<nb_packets, loop, results, ret, back>>

\* A FIN is sent, or the send or setsockopt fails and the loop continues.
SendFin ==
  /\ upc = "fin"
  /\ loop > 0
  /\ loop' = loop - 1
  /\ \/ fwd' = fwd \cup {-nb_packets} /\ upc' \in {"wait", "fin"}
     \/ UNCHANGED <<fwd, upc>>
  /\ UNCHANGED <<nb_packets, results, ret, back>>

\* zsock_recv times out after two seconds, or fails.
NoReport ==
  /\ upc = "wait"
  /\ upc' = "fin"
  /\ UNCHANGED <<nb_packets, loop, results, ret, fwd, back>>

\* A report is received and decoded; further ones are drained and dropped.
GetReport ==
  /\ upc = "wait"
  /\ \E stat \in back : results' = zperf_upload_decode_stat(stat)
  /\ upc' = "done"
  /\ ret' = "0"
  /\ UNCHANGED <<nb_packets, loop, fwd, back>>

\* The tries are used up: the result of the last call is returned.  It would be
\* 0, and no error, if the last zsock_recv had returned an empty datagram; no
\* zperf server sends one.
GiveUp ==
  /\ upc = "fin"
  /\ loop = 0
  /\ upc' = "done"
  /\ ret' = "error"
  /\ UNCHANGED <<nb_packets, loop, results, fwd, back>>

Uploader ==
  /\ SendData \/ SendDataFails \/ EndLoop \/ SendFin \/ NoReport \/ GetReport \/ GiveUp
  /\ UNCHANGED sessionVars
-----------------------------------------------------------------------------
(***************************************************************************)
(* The server: a datagram of the upload arrives.                           *)
(***************************************************************************)
Deliver(id) ==
  /\ ~trapped
  /\ handler = NoHandler
  /\ \/ NoSession(client)
     \/ id < 0 /\ (ResendStat(client, client) \/ FinishSession(client, client))
     \/ id >= 0 /\ \/ StartSession(client, id)
                   \/ \E len \in Lens, transit \in TransitTimes :
                        CountDatagram(client, id, len, transit)
  /\ back' = IF reply' = NoReply THEN back ELSE back \cup {reply'.stat}
  /\ UNCHANGED <<uploadVars, fwd>>

HandlerReturns == StatSent /\ UNCHANGED <<uploadVars, fwd, back>>

Init ==
  /\ InitSessions
  /\ upc = "data"
  /\ nb_packets = 0
  /\ loop = Tries
  /\ results = NoResults
  /\ ret = "none"
  /\ fwd = {}
  /\ back = {}

Next == Uploader \/ (\E id \in fwd : Deliver(id)) \/ HandlerReturns

(***************************************************************************)
(* The uploader's task runs, its sending loop ends with its duration (in   *)
(* UdpPacing, unless the tick counter wraps), and its calls return,        *)
(* zsock_recv after at most two seconds.  Nothing is assumed of the server *)
(* or of the network.                                                      *)
(***************************************************************************)
Fairness == WF_vars(Uploader)

Spec == Init /\ [][Next]_vars /\ Fairness
-----------------------------------------------------------------------------
\* Types of the uploader's state and of the network.
TransferTypeOK ==
  /\ SessionTypeOK
  /\ upc \in {"data", "fin", "wait", "done"}
  /\ nb_packets \in 0 .. MaxSent
  /\ loop \in 0 .. Tries
  /\ results \in [nb_packets_rcvd : Nat, nb_packets_lost : Nat,
                  nb_packets_outorder : Nat, total_len : Nat, jitter_in_us : Int]
  /\ ret \in {"none", "0", "error"}
  /\ fwd \subseteq (-MaxSent) .. (MaxSent - 1)
  /\ back \subseteq StatSet

(***************************************************************************)
(* The results of an upload that succeeds fit what it sent, whichever      *)
(* report is the one it receives: the datagrams received and lost, without *)
(* the late ones, are at most the ones that followed the first.  This      *)
(* holds however the network repeats and reorders, and for reports of      *)
(* sessions that late datagrams have started anew.                         *)
(***************************************************************************)
ReportWithinSent ==
  ret = "0" => results.nb_packets_rcvd + results.nb_packets_lost
                 - results.nb_packets_outorder <= nb_packets - 1

\* The upload ends, with or without a report: the FIN is sent Tries times.
UploadEnds == <>(upc = "done")
=============================================================================
