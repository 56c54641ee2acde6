---------------------------- MODULE MCTcpReceiver ---------------------------
(***************************************************************************)
(* Instances of TcpReceiver for TLC.                                       *)
(***************************************************************************)
EXTENDS TcpReceiver

CONSTANTS p, q, high, low1, r1, r2
=============================================================================
