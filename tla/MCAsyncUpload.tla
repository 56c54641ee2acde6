---------------------------- MODULE MCAsyncUpload ---------------------------
(***************************************************************************)
(* Instances of AsyncUpload for TLC.                                       *)
(***************************************************************************)
EXTENDS AsyncUpload

CONSTANTS udp, tcp, r1, r2, r3, r4
=============================================================================
