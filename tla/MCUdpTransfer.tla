---------------------------- MODULE MCUdpTransfer ---------------------------
(***************************************************************************)
(* Instances of UdpTransfer for TLC.                                       *)
(***************************************************************************)
EXTENDS UdpTransfer

CONSTANTS p
=============================================================================
