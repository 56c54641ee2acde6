------------------------- MODULE UdpTransferProofs --------------------------
(***************************************************************************)
(* Proofs about UdpTransfer, for uploads of any length, any number of FINs *)
(* and a table of any size.                                                *)
(*                                                                         *)
(* Every step is one of UdpSession or leaves the sessions alone, so what   *)
(* UdpSessionProofs shows of the sessions holds here.  On top of it, what  *)
(* the ids of the upload bound: next_id, and through the balance of the    *)
(* counters every report, wherever it is (WithinSent).                     *)
(***************************************************************************)
EXTENDS UdpTransfer, UdpSessionProofs

USE SessionMaxAssumption, AddrAssumption, DatagramAssumption, TransferAssumption

\* The datagrams a report accounts for: received or lost, without the late ones.
Reported(stat) == stat.datagrams + stat.error_cnt - stat.outorder_cnt

\* At most the datagrams that followed the first.
Within(n, sent) == n <= 0 \/ n <= sent - 1

\* What is sent, counted, kept or reported is about datagrams of the upload.
WithinSent ==
  /\ \A id \in fwd : id < nb_packets /\ nb_packets > 0
  /\ upc \in {"fin", "wait"} \/ ret = "0" => nb_packets > 0
  /\ \A i \in Slots : /\ Within(sessions[i].next_id - 1, nb_packets)
                      /\ Within(Reported(sessions[i].stat), nb_packets)
  /\ \A stat \in back : Within(Reported(stat), nb_packets)
  /\ ret = "0" => \E stat \in StatSet : /\ results = zperf_upload_decode_stat(stat)
                                        /\ Within(Reported(stat), nb_packets)

TransferInv ==
  /\ TransferTypeOK
  /\ AllSound
  /\ WithinSent
-----------------------------------------------------------------------------
(***************************************************************************)
(* The steps, seen from the sessions.                                      *)
(***************************************************************************)
LEMMA ClientAddr == client \in Addrs /\ Observed(client) = {client}
  BY DEF Addrs, Observed

\* The arrival of a datagram that was sent is a call of udp_received.
LEMMA DeliverIsReceived ==
  ASSUME NEW id, id \in fwd, fwd \subseteq (-MaxSent) .. (MaxSent - 1), Deliver(id)
  PROVE  udp_received(client)
<1>1. client \in Observed(client)
  BY ClientAddr
<1>2. ASSUME id >= 0
      PROVE  id \in Ids
  <2>1. id \in 0 .. (MaxSent - 1)
    BY <1>2
  <2> QED BY <2>1
<1> QED BY <1>1, <1>2 DEF Deliver, udp_received

LEMMA StepIsSession ==
  ASSUME fwd \subseteq (-MaxSent) .. (MaxSent - 1), [Next]_vars
  PROVE  [NextSession]_sessionVars
<1>1. CASE Uploader \/ UNCHANGED vars
  BY <1>1 DEF Uploader, vars
<1>2. CASE \E id \in fwd : Deliver(id)
  <2>1. PICK id \in fwd : Deliver(id)
    BY <1>2
  <2>2. udp_received(client)
    BY <2>1, DeliverIsReceived
  <2> QED BY <2>2, ClientAddr DEF NextSession
<1>3. CASE HandlerReturns
  BY <1>3 DEF HandlerReturns, NextSession
<1> QED BY <1>1, <1>2, <1>3 DEF Next

\* The uploader's part of a step of the server is unchanged.
LEMMA DecodedType ==
  ASSUME NEW stat \in StatSet
  PROVE  zperf_upload_decode_stat(stat)
           \in [nb_packets_rcvd : Nat, nb_packets_lost : Nat, nb_packets_outorder : Nat,
                total_len : Nat, jitter_in_us : Int]
  BY DEF zperf_upload_decode_stat, StatSet
-----------------------------------------------------------------------------
LEMMA InitTransfer == Init => TransferInv
<1> SUFFICES ASSUME Init
             PROVE  TransferInv
  OBVIOUS
<1>1. SessionTypeOK /\ AllSound
  BY InitTypeOK, InitSound DEF Init
<1>2. ZeroStat \in StatSet /\ Reported(ZeroStat) = 0
  BY DEF ZeroStat, StatSet, Reported
<1>3. TransferTypeOK
  <2>1. NoResults \in [nb_packets_rcvd : Nat, nb_packets_lost : Nat,
                       nb_packets_outorder : Nat, total_len : Nat, jitter_in_us : Int]
    BY <1>2, DecodedType DEF NoResults
  <2> QED BY <1>1, <2>1 DEF Init, TransferTypeOK
<1>4. \A i \in Slots : sessions[i].next_id = 1 /\ sessions[i].stat = ZeroStat
  BY DEF Init, InitSessions, zperf_session_init, InitSession
<1>5. WithinSent
  BY <1>2, <1>4 DEF Init, WithinSent, Within
<1> QED BY <1>1, <1>3, <1>5 DEF TransferInv

\* A longer upload covers what a shorter one does.
LEMMA WithinMore ==
  ASSUME NEW n \in Int, NEW a \in Int, NEW b \in Int, a <= b, Within(n, a)
  PROVE  Within(n, b)
  BY DEF Within

LEMMA ReportedType ==
  ASSUME SessionTypeOK
  PROVE  /\ \A stat \in StatSet : Reported(stat) \in Int
         /\ \A i \in Slots : /\ sessions[i].next_id - 1 \in Int
                             /\ Reported(sessions[i].stat) \in Int
<1>1. \A stat \in StatSet : Reported(stat) \in Int
  BY DEF StatSet, Reported
<1>2. \A i \in Slots : sessions[i] \in SessionSet
  BY DEF SessionTypeOK
<1> QED BY <1>1, <1>2 DEF SessionSet

\* A step of the uploader.
LEMMA UploaderTransfer ==
  ASSUME TransferInv, Uploader
  PROVE  TransferInv'
<1>0. /\ TransferTypeOK /\ AllSound /\ WithinSent /\ SessionTypeOK
  BY DEF TransferInv, TransferTypeOK
<1>1. UNCHANGED <<sessions, handler, reply, notice, trapped, hist>>
  BY DEF Uploader, sessionVars
<1>2. SessionTypeOK' /\ AllSound'
  BY <1>0, <1>1 DEF SessionTypeOK, AllSound
<1> DEFINE R == [nb_packets_rcvd : Nat, nb_packets_lost : Nat,
                 nb_packets_outorder : Nat, total_len : Nat, jitter_in_us : Int]
<1>3. /\ upc \in {"data", "fin", "wait", "done"}
      /\ nb_packets \in Nat /\ nb_packets <= MaxSent
      /\ loop \in 0 .. Tries
      /\ fwd \subseteq (-MaxSent) .. (MaxSent - 1)
      /\ \A id \in fwd : id \in Int
      /\ back \subseteq StatSet
      /\ ret \in {"none", "0", "error"}
      /\ results \in R
  BY <1>0 DEF TransferTypeOK
<1>4. /\ \A id \in fwd : id < nb_packets /\ nb_packets > 0
      /\ upc \in {"fin", "wait"} \/ ret = "0" => nb_packets > 0
      /\ \A i \in Slots : /\ Within(sessions[i].next_id - 1, nb_packets)
                          /\ Within(Reported(sessions[i].stat), nb_packets)
      /\ \A stat \in back : Within(Reported(stat), nb_packets)
      /\ ret = "0" => \E stat \in StatSet : /\ results = zperf_upload_decode_stat(stat)
                                            /\ Within(Reported(stat), nb_packets)
  BY <1>0 DEF WithinSent
<1>5. TransferTypeOK' <=>
        /\ upc' \in {"data", "fin", "wait", "done"}
        /\ nb_packets' \in 0 .. MaxSent
        /\ loop' \in 0 .. Tries
        /\ results' \in R
        /\ ret' \in {"none", "0", "error"}
        /\ fwd' \subseteq (-MaxSent) .. (MaxSent - 1)
        /\ back' \subseteq StatSet
  BY <1>2 DEF TransferTypeOK
<1> HIDE DEF R
<1>6. CASE SendData
  <2>1. /\ fwd' = fwd \cup {nb_packets} /\ nb_packets' = nb_packets + 1
        /\ nb_packets < MaxSent
        /\ UNCHANGED <<upc, loop, results, ret, back>>
    BY <1>6 DEF SendData
  <2>2. TransferTypeOK'
    BY <1>3, <1>5, <2>1
  <2>3. \A n \in Int : Within(n, nb_packets) => Within(n, nb_packets')
    BY <1>3, <2>1, WithinMore
  <2>4. \A id \in fwd' : id < nb_packets' /\ nb_packets' > 0
    BY <1>3, <1>4, <2>1
  <2>5. \A i \in Slots : /\ Within(sessions'[i].next_id - 1, nb_packets')
                         /\ Within(Reported(sessions'[i].stat), nb_packets')
    BY <1>0, <1>1, <1>4, <2>3, ReportedType
  <2>6. \A stat \in back' : Within(Reported(stat), nb_packets')
    BY <1>0, <1>3, <1>4, <2>1, <2>3, ReportedType
  <2>7. ret' = "0" => \E stat \in StatSet : /\ results' = zperf_upload_decode_stat(stat)
                                            /\ Within(Reported(stat), nb_packets')
    BY <1>0, <1>4, <2>1, <2>3, ReportedType
  <2>8. nb_packets' > 0
    BY <1>3, <2>1
  <2>9. WithinSent'
    BY <2>4, <2>5, <2>6, <2>7, <2>8 DEF WithinSent
  <2> QED BY <1>2, <2>2, <2>9 DEF TransferInv
<1>7. ASSUME UNCHANGED <<nb_packets, back>>, TransferTypeOK',
             fwd' = fwd \/ (fwd' = fwd \cup {-nb_packets} /\ upc = "fin"),
             upc' \in {"fin", "wait"} => nb_packets > 0,
             ret' = "0" =>
               /\ nb_packets > 0
               /\ \E stat \in StatSet : /\ results' = zperf_upload_decode_stat(stat)
                                        /\ Within(Reported(stat), nb_packets)
      PROVE  TransferInv'
  <2>1. \A id \in fwd' : id < nb_packets /\ nb_packets > 0
    <3>1. upc = "fin" => nb_packets > 0 /\ -nb_packets < nb_packets
      BY <1>3, <1>4
    <3>2. \A id \in fwd' : id \in fwd \/ (id = -nb_packets /\ upc = "fin")
      BY <1>7
    <3> QED BY <1>4, <3>1, <3>2
  <2>2. WithinSent'
    BY <1>1, <1>4, <1>7, <2>1 DEF WithinSent
  <2> QED BY <1>2, <1>7, <2>2 DEF TransferInv
<1>8. CASE SendDataFails \/ EndLoop \/ NoReport \/ GiveUp
  <2>1. /\ UNCHANGED <<nb_packets, loop, results, fwd, back>>
        /\ upc' \in {"fin", "done"}
        /\ upc' = "fin" => nb_packets > 0
        /\ ret' \in {ret, "error"}
    BY <1>4, <1>8 DEF SendDataFails, EndLoop, NoReport, GiveUp
  <2>2. TransferTypeOK'
    BY <1>3, <1>5, <2>1
  <2> QED BY <1>4, <1>7, <2>1, <2>2
<1>9. CASE SendFin
  <2>1. /\ upc = "fin" /\ upc' \in {"fin", "wait"} /\ loop > 0 /\ loop' = loop - 1
        /\ fwd' = fwd \/ fwd' = fwd \cup {-nb_packets}
        /\ UNCHANGED <<nb_packets, results, ret, back>>
    BY <1>9 DEF SendFin
  <2>2. TransferTypeOK'
    <3>1. nb_packets > 0
      BY <1>4, <2>1
    <3>2. -nb_packets \in (-MaxSent) .. (MaxSent - 1)
      BY <1>3, <3>1
    <3>3. loop' \in 0 .. Tries
      BY <1>3, <2>1
    <3>4. fwd' \subseteq (-MaxSent) .. (MaxSent - 1)
      <4> DEFINE S == (-MaxSent) .. (MaxSent - 1)
      <4>1. fwd \subseteq S /\ -nb_packets \in S
        BY <1>3, <3>2
      <4> HIDE DEF S
      <4>2. fwd' \subseteq S
        BY <2>1, <4>1
      <4> QED BY <4>2 DEF S
    <3> QED BY <1>3, <1>5, <2>1, <3>3, <3>4
  <2> QED BY <1>4, <1>7, <2>1, <2>2
<1>10. CASE GetReport
  <2>1. PICK stat \in back : results' = zperf_upload_decode_stat(stat)
    BY <1>10 DEF GetReport
  <2>2. /\ upc = "wait" /\ upc' = "done" /\ ret' = "0"
        /\ UNCHANGED <<nb_packets, loop, fwd, back>>
    BY <1>10 DEF GetReport
  <2>3. stat \in StatSet /\ results' \in R
    BY <1>3, <2>1, DecodedType DEF R
  <2>4. TransferTypeOK'
    BY <1>3, <1>5, <2>2, <2>3
  <2>5. nb_packets > 0 /\ Within(Reported(stat), nb_packets)
    BY <1>4, <2>2
  <2> QED BY <1>7, <2>1, <2>2, <2>3, <2>4, <2>5
<1> QED BY <1>6, <1>8, <1>9, <1>10 DEF Uploader
-----------------------------------------------------------------------------
(***************************************************************************)
(* A datagram of the upload arrives.                                       *)
(***************************************************************************)

\* What the operators of udp_received make of a session that fits the upload.
Fits(s) ==
  Within(s.next_id - 1, nb_packets) /\ Within(Reported(s.stat), nb_packets)

\* The balance of the counters: a report accounts for the ids below next_id.
LEMMA ReportedStat ==
  ASSUME NEW s \in SessionSet, Sound(s)
  PROVE  Reported(Stat(s)) = s.next_id - 1
<1>1. /\ s.counter \in Nat /\ s.error \in Nat /\ s.outorder \in Nat /\ s.next_id \in Nat
  BY DEF SessionSet
<1>2. s.next_id + s.outorder = 1 + s.counter + s.error
  BY DEF Sound
<1>3. Reported(Stat(s)) = s.counter + s.error - s.outorder
  BY DEF Reported, Stat
<1> QED BY <1>1, <1>2, <1>3

LEMMA OperatorsFit ==
  ASSUME NEW s \in SessionSet, Sound(s), Fits(s), NEW addr \in Addrs,
         nb_packets \in Nat
  PROVE  /\ Fits(Claim(s, addr))
         /\ Fits(Started(Claim(s, addr)))
         /\ Fits(Finished(s))
         /\ Within(Reported(Stat(s)), nb_packets)
         /\ \A id \in Nat : id < nb_packets =>
              \A len, transit : Fits(Counted(s, id, len, transit))
<1>1. Claim(s, addr).next_id = s.next_id /\ Claim(s, addr).stat = s.stat
  BY DEF Claim, SessionSet
<1>2. Within(Reported(Stat(s)), nb_packets)
  BY ReportedStat DEF Fits
<1>3. Fits(Claim(s, addr))
  BY <1>1 DEF Fits
<1>4. Fits(Started(Claim(s, addr)))
  <2>1. /\ Started(Claim(s, addr)).next_id = 1
        /\ Started(Claim(s, addr)).stat = Claim(s, addr).stat
    BY DEF Started, zperf_reset_session_stats
  <2>2. Within(1 - 1, nb_packets)
    BY DEF Within
  <2> QED BY <1>1, <2>1, <2>2 DEF Fits
<1>5. Fits(Finished(s))
  <2>1. Finished(s).next_id = s.next_id /\ Finished(s).stat = Stat(s)
    BY DEF Finished, SessionSet
  <2> QED BY <1>2, <2>1 DEF Fits
<1>6. ASSUME NEW id \in Nat, NEW len, NEW transit, id < nb_packets
      PROVE  Fits(Counted(s, id, len, transit))
  <2>1. /\ Counted(s, id, len, transit).next_id = IF id < s.next_id THEN s.next_id ELSE id + 1
        /\ Counted(s, id, len, transit).stat = s.stat
    BY DEF Counted
  <2>2. Within((id + 1) - 1, nb_packets)
    BY <1>6 DEF Within
  <2> QED BY <2>1, <2>2 DEF Fits
<1> QED BY <1>2, <1>3, <1>4, <1>5, <1>6

\* The table and the report of the step.
LEMMA DeliverFits ==
  ASSUME TransferInv, NEW id \in fwd, Deliver(id)
  PROVE  /\ \A i \in Slots : Fits(sessions'[i])
         /\ reply' # NoReply => Within(Reported(reply'.stat), nb_packets)
<1>0. /\ SessionTypeOK /\ AllSound /\ WithinSent
      /\ sessions \in [Slots -> SessionSet] /\ nb_packets \in Nat
      /\ id \in Int /\ id < nb_packets
  BY DEF TransferInv, TransferTypeOK, SessionTypeOK, WithinSent
<1>1. \A i \in Slots : /\ sessions[i] \in SessionSet /\ Sound(sessions[i])
                       /\ Fits(sessions[i])
  BY <1>0 DEF AllSound, WithinSent, Fits
<1> DEFINE slot == get_session(sessions, client)
           s == sessions[slot]
<1>2. client \in Addrs
  BY ClientAddr
<1>3. slot # NoSlot => slot \in Slots
  BY GetSession
<1>4. CASE NoSession(client)
  BY <1>1, <1>4 DEF NoSession
<1>5. ASSUME slot # NoSlot
      PROVE  /\ Fits(Claim(s, client))
             /\ Fits(Started(Claim(s, client)))
             /\ Fits(Finished(s))
             /\ Within(Reported(Stat(s)), nb_packets)
             /\ \A n \in Nat : n < nb_packets =>
                  \A len, transit : Fits(Counted(s, n, len, transit))
             /\ Within(Reported(s.stat), nb_packets)
  <2>1. s \in SessionSet /\ Sound(s) /\ Fits(s)
    BY <1>1, <1>3, <1>5
  <2> HIDE DEF s
  <2> QED BY <1>0, <1>2, <2>1, OperatorsFit DEF Fits
<1>6. ASSUME NEW x, slot \in Slots, sessions' = [sessions EXCEPT ![slot] = x], Fits(x)
      PROVE  \A i \in Slots : Fits(sessions'[i])
  BY <1>0, <1>1, <1>6
<1>7. CASE ResendStat(client, client)
  <2>1. /\ slot # NoSlot /\ sessions' = Claimed(sessions, client)
        /\ reply'.stat = s.stat
    BY <1>7 DEF ResendStat, zperf_receiver_send_stat
  <2>2. sessions' = [sessions EXCEPT ![slot] = Claim(s, client)]
    BY <1>0, <1>3, <2>1, ClaimedTable
  <2> QED BY <1>3, <1>5, <1>6, <2>1, <2>2
<1>8. CASE FinishSession(client, client)
  <2>1. /\ slot # NoSlot /\ s.state = "ONGOING"
        /\ sessions' = [Claimed(sessions, client) EXCEPT ![slot] = Finished(@)]
        /\ reply'.stat = Stat(s)
    BY <1>8 DEF FinishSession, zperf_receiver_send_stat
  <2>2. sessions' = [sessions EXCEPT ![slot] = Finished(s)]
    BY <1>0, <1>3, <2>1, ClaimedOngoing
  <2> QED BY <1>3, <1>5, <1>6, <2>1, <2>2
<1>9. CASE StartSession(client, id)
  <2>1. /\ slot # NoSlot /\ reply' = NoReply
        /\ sessions' = [Claimed(sessions, client) EXCEPT ![slot] = Started(@)]
    BY <1>9 DEF StartSession
  <2>2. sessions' = [sessions EXCEPT ![slot] = Started(Claim(s, client))]
    BY <1>0, <1>3, <2>1, ClaimedTable
  <2> QED BY <1>3, <1>5, <1>6, <2>1, <2>2
<1>10. ASSUME id >= 0, NEW len \in Lens, NEW transit \in TransitTimes,
              CountDatagram(client, id, len, transit)
       PROVE  /\ \A i \in Slots : Fits(sessions'[i])
              /\ reply' = NoReply
  <2>1. /\ slot # NoSlot /\ reply' = NoReply /\ s.state = "ONGOING"
        /\ sessions' = [Claimed(sessions, client) EXCEPT ![slot] = Counted(@, id, len, transit)]
    BY <1>10 DEF CountDatagram
  <2>2. sessions' = [sessions EXCEPT ![slot] = Counted(s, id, len, transit)]
    BY <1>0, <1>3, <2>1, ClaimedOngoing
  <2>3. id \in Nat
    BY <1>0, <1>10
  <2>4. Fits(Counted(s, id, len, transit))
    BY <1>0, <1>5, <2>1, <2>3
  <2> QED BY <1>3, <1>6, <2>1, <2>2, <2>4
<1> QED BY <1>4, <1>7, <1>8, <1>9, <1>10 DEF Deliver

LEMMA NextTransfer == TransferInv /\ [Next]_vars => TransferInv'
<1> SUFFICES ASSUME TransferInv, [Next]_vars
             PROVE  TransferInv'
  OBVIOUS
<1>1. /\ TransferTypeOK /\ AllSound /\ WithinSent /\ SessionTypeOK
      /\ fwd \subseteq (-MaxSent) .. (MaxSent - 1)
  BY DEF TransferInv, TransferTypeOK
<1>2. SessionTypeOK' /\ AllSound'
  <2>1. [NextSession]_sessionVars
    BY <1>1, StepIsSession
  <2> QED BY <1>1, <2>1, NextTypeOK, NextSound
<1>3. CASE Uploader
  BY <1>3, UploaderTransfer
<1>4. ASSUME UNCHANGED <<uploadVars, fwd>>,
             \A i \in Slots : /\ Within(sessions'[i].next_id - 1, nb_packets)
                              /\ Within(Reported(sessions'[i].stat), nb_packets),
             back' \subseteq StatSet,
             \A stat \in back' : Within(Reported(stat), nb_packets)
      PROVE  TransferInv'
  <2>1. UNCHANGED <<upc, nb_packets, loop, results, ret, fwd>>
    BY <1>4 DEF uploadVars
  <2>2. TransferTypeOK'
    BY <1>1, <1>2, <1>4, <2>1 DEF TransferTypeOK
  <2>3. WithinSent'
    BY <1>1, <1>4, <2>1 DEF WithinSent
  <2> QED BY <1>2, <2>2, <2>3 DEF TransferInv
<1>5. CASE \E id \in fwd : Deliver(id)
  <2>1. PICK id \in fwd : Deliver(id)
    BY <1>5
  <2>2. /\ \A i \in Slots : /\ Within(sessions'[i].next_id - 1, nb_packets)
                            /\ Within(Reported(sessions'[i].stat), nb_packets)
        /\ reply' # NoReply => Within(Reported(reply'.stat), nb_packets)
    BY <2>1, DeliverFits DEF Fits
  <2>3. /\ back' = IF reply' = NoReply THEN back ELSE back \cup {reply'.stat}
        /\ UNCHANGED <<uploadVars, fwd>>
    BY <2>1 DEF Deliver
  <2>4. reply'.stat \in StatSet /\ back \subseteq StatSet
    BY <1>1, <1>2 DEF SessionTypeOK, TransferTypeOK
  <2>5. \A stat \in back : Within(Reported(stat), nb_packets)
    BY <1>1 DEF WithinSent
  <2> QED BY <1>4, <2>2, <2>3, <2>4, <2>5
<1>6. CASE HandlerReturns \/ UNCHANGED vars
  <2>1. UNCHANGED <<uploadVars, fwd, back, sessions>>
    BY <1>6 DEF HandlerReturns, StatSent, vars, sessionVars
  <2>2. /\ back \subseteq StatSet
        /\ \A stat \in back : Within(Reported(stat), nb_packets)
        /\ \A i \in Slots : /\ Within(sessions[i].next_id - 1, nb_packets)
                            /\ Within(Reported(sessions[i].stat), nb_packets)
    BY <1>1 DEF TransferTypeOK, WithinSent
  <2> QED BY <1>4, <2>1, <2>2
<1> QED BY <1>3, <1>5, <1>6 DEF Next

LEMMA AlwaysTransfer == Spec => []TransferInv
<1> QED BY InitTransfer, NextTransfer, PTL DEF Spec

\* The types of the uploader, the sessions and the network.
THEOREM TransferTypeCorrect == Spec => []TransferTypeOK
<1>1. TransferInv => TransferTypeOK
  BY DEF TransferInv
<1> QED BY <1>1, AlwaysTransfer, PTL

(***************************************************************************)
(* The results of an upload that succeeds fit what it sent, for any number *)
(* of datagrams and FINs and whatever the network does to them.            *)
(***************************************************************************)
THEOREM ReportAlwaysWithinSent == Spec => []ReportWithinSent
<1>1. TransferInv => ReportWithinSent
  <2> SUFFICES ASSUME TransferInv, ret = "0"
               PROVE  results.nb_packets_rcvd + results.nb_packets_lost
                        - results.nb_packets_outorder <= nb_packets - 1
    BY DEF ReportWithinSent
  <2>1. nb_packets \in Nat /\ nb_packets > 0
    BY DEF TransferInv, TransferTypeOK, WithinSent
  <2>2. PICK stat \in StatSet : /\ results = zperf_upload_decode_stat(stat)
                                /\ Within(Reported(stat), nb_packets)
    BY DEF TransferInv, WithinSent
  <2>3. results.nb_packets_rcvd + results.nb_packets_lost - results.nb_packets_outorder
          = Reported(stat)
    BY <2>2 DEF zperf_upload_decode_stat, Reported
  <2>4. Reported(stat) \in Int
    BY DEF StatSet, Reported
  <2> QED BY <2>1, <2>2, <2>3, <2>4 DEF Within
<1> QED BY <1>1, AlwaysTransfer, PTL

(***************************************************************************)
(* An upload is a behaviour of the sessions of UdpSession: what is proved  *)
(* of udp_received under any datagrams holds of it under this client's.    *)
(***************************************************************************)
THEOREM TransferIsSession == Spec => SessionSpec
<1>1. Init => InitSessions
  BY DEF Init
<1>2. TransferInv /\ [Next]_vars => [NextSession]_sessionVars
  BY StepIsSession DEF TransferInv, TransferTypeOK
<1> QED BY <1>1, <1>2, AlwaysTransfer, PTL DEF Spec, SessionSpec
=============================================================================
