---------------------------- MODULE MCUdpReceiver ---------------------------
(***************************************************************************)
(* Instances of UdpReceiver for TLC.                                       *)
(***************************************************************************)
EXTENDS UdpReceiver

CONSTANTS p, high, low1, low2, r1, r2
=============================================================================
