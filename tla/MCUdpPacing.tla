----------------------------- MODULE MCUdpPacing ----------------------------
(***************************************************************************)
(* Instances of UdpPacing for TLC.                                         *)
(***************************************************************************)
EXTENDS UdpPacing
=============================================================================
