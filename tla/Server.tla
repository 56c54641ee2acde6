------------------------------- MODULE Server -------------------------------
(***************************************************************************)
(* What zperf.h promises of a download server, whatever its protocol: one  *)
(* instance at a time, started by zperf_*_download, ended by               *)
(* zperf_*_download_stop or by an error of its own, and callbacks of the   *)
(* request that started it only until it is told to stop.                  *)
(***************************************************************************)
CONSTANTS Requests, NoReq

VARIABLES
  status,   \* what the server is doing
  owner     \* the request it works for, and calls back

serverVars == <<status, owner>>

ServerInit == status = "idle" /\ owner = NoReq

\* An accepted download.
Start(r) == status = "idle" /\ status' = "running" /\ owner' = r

\* An accepted stop.  The server ends some time later.
Stop == status = "running" /\ status' = "stopping" /\ owner' = NoReq

\* The server has released its sockets, after a stop or after an error.
End == status \in {"running", "stopping"} /\ status' = "idle" /\ owner' = NoReq

\* The program dies.
Die == status # "dead" /\ status' = "dead" /\ owner' = NoReq

ServerNext == (\E r \in Requests : Start(r)) \/ Stop \/ End \/ Die

\* What a server may do, and that it ends once it has been told to stop.
ServerSafety == ServerInit /\ [][ServerNext]_serverVars

ServerSpec == ServerSafety /\ WF_serverVars(status = "stopping" /\ End)
=============================================================================
