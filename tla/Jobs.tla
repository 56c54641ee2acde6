-------------------------------- MODULE Jobs --------------------------------
(***************************************************************************)
(* What zperf.h promises of asynchronous uploads: an accepted upload waits *)
(* for the ones accepted before it, runs alone, and reports one start and  *)
(* one end to the callback, and with the user data, it was given.  The     *)
(* note in zperf.h, one asynchronous upload at a time, is a duty of the    *)
(* application: one that breaks it is promised nothing any more.           *)
(***************************************************************************)
EXTENDS Sequences

CONSTANTS Requests, NoReq

VARIABLES
  waiting,  \* accepted uploads that have not started
  current,  \* the upload that runs
  event,    \* the callback made by the last step, if any
  void      \* the application has broken the rule

jobVars == <<waiting, current, event, void>>

NoEvent == [status |-> "none", callback |-> NoReq, user_data |-> NoReq]

Report(status, r) == [status |-> status, callback |-> r, user_data |-> r]

JobsInit == waiting = <<>> /\ current = NoReq /\ event = NoEvent /\ ~void

Accept(r) ==
  /\ waiting' = Append(waiting, r)
  /\ event' = NoEvent
  /\ UNCHANGED <<current, void>>

Begin ==
  /\ ~void
  /\ current = NoReq
  /\ waiting # <<>>
  /\ current' = Head(waiting)
  /\ waiting' = Tail(waiting)
  /\ event' = Report("STARTED", Head(waiting))
  /\ UNCHANGED void

Finish ==
  /\ ~void
  /\ current # NoReq
  /\ \E status \in {"FINISHED", "ERROR"} : event' = Report(status, current)
  /\ current' = NoReq
  /\ UNCHANGED <<waiting, void>>

\* The callback has returned.
Quiet == event' = NoEvent /\ UNCHANGED <<waiting, current, void>>

\* The application breaks the rule, or has broken it.
Break == void'

JobsNext == (\E r \in Requests : Accept(r)) \/ Begin \/ Finish \/ Quiet \/ Break

JobsSafety == JobsInit /\ [][JobsNext]_jobVars

JobsSpec ==
  /\ JobsSafety
  /\ WF_jobVars(Begin)
  /\ WF_jobVars(Finish)
=============================================================================
