---------------------------- MODULE MCUdpSession ----------------------------
(***************************************************************************)
(* Instances of UdpSession for TLC.                                        *)
(***************************************************************************)
EXTENDS UdpSession

CONSTANTS p, q, high, low1, low2

MCTransitTimes == {-32768, 0, 30000}
=============================================================================
