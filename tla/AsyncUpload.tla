----------------------------- MODULE AsyncUpload ----------------------------
(***************************************************************************)
(* Asynchronous uploads: zperf_udp_upload_async and zperf_tcp_upload_async *)
(* fill the static context of their protocol and submit its work item; the *)
(* task of the work queue (work.c) runs the uploads one after the other.   *)
(*                                                                         *)
(* The work task has the highest priority of all and an application task   *)
(* calls the API: the application runs only while the work task is         *)
(* blocked, and may be preempted between any two of its statements.  A     *)
(* step of the work task is the code between two blocking calls (or to the *)
(* next callback), a step of the application one access to shared state.   *)
(* The two halves of a context's param are told apart by when an upload    *)
(* reads them: the address before it connects, the rest afterwards.        *)
(***************************************************************************)
EXTENDS Naturals, Sequences, FiniteSets

CONSTANTS
  Items,       \* the work items: one per protocol
  Requests,    \* calls of the API, told apart by their arguments
  NoReq,       \* the value of a context nobody has filled
  QUEUE_SIZE   \* DEFAULT_QUEUE_SIZE

ASSUME AsyncAssumption ==
  /\ Items # {} /\ IsFiniteSet(Items)
  /\ NoReq \notin Requests
  /\ QUEUE_SIZE \in Nat /\ QUEUE_SIZE >= Cardinality(Items)

VARIABLES
  queue,     \* the FreeRTOS queue of work items
  pending,   \* is_pending of each work item
  ctx,       \* udp_async_upload_ctx and tcp_async_upload_ctx
  wpc,       \* where the work task is
  job,       \* the item it works on and the parameters the upload has read
  event,     \* the callback made by the last step, if any
  cpc,       \* the statement the application is at
  arg,       \* the item and the request of the call it is in
  ret,       \* what its last call returned
  accepted,  \* history: the requests that were submitted, in order
  started,   \* history: the requests whose start was reported, in order
  running,   \* history: the request whose upload runs
  overlap    \* history: an upload was asked for before the last event of the
             \* previous one of the same protocol

workerVars == <<wpc, job, started, running>>
callerVars == <<cpc, arg, ret, accepted, overlap>>
vars == <<queue, pending, ctx, event, workerVars, callerVars>>

NoEvent == [status |-> "none", callback |-> NoReq, user_data |-> NoReq]
EmptyCtx == [peer |-> NoReq, rest |-> NoReq, callback |-> NoReq, user_data |-> NoReq]

\* upload_ctx->callback(status, ..., upload_ctx->user_data)
Callback(item, status) ==
  [status |-> status, callback |-> ctx[item].callback,
   user_data |-> ctx[item].user_data]
-----------------------------------------------------------------------------
(***************************************************************************)
(* The work task.                                                          *)
(***************************************************************************)

\* Mutant of RunHandler: the flag of the item is left alone.
RunHandlerPending ==
  /\ wpc = "receive"
  /\ queue # <<>>
  /\ queue' = Tail(queue)
  /\ UNCHANGED pending
  /\ event' = Callback(Head(queue), "STARTED")
  /\ started' = Append(started, event'.callback)
  /\ running' = event'.callback
  /\ job' = [item |-> Head(queue), peer |-> NoReq, rest |-> NoReq]
  /\ wpc' = "check"
  /\ UNCHANGED ctx

\* An item is received, its flag toggled and its handler called.
RunHandler ==
  /\ wpc = "receive"
  /\ queue # <<>>
  /\ queue' = Tail(queue)
  /\ pending' = [pending EXCEPT ![Head(queue)] = ~@]
  /\ event' = Callback(Head(queue), "STARTED")
  /\ started' = Append(started, event'.callback)
  /\ running' = event'.callback
  /\ job' = [item |-> Head(queue), peer |-> NoReq, rest |-> NoReq]
  /\ wpc' = "check"
  /\ UNCHANGED ctx

\* The synchronous upload is entered and a socket of the family asked for.
OpenSocket ==
  /\ wpc = "check"
  /\ wpc' = "socket"
  /\ event' = NoEvent
  /\ UNCHANGED <<queue, pending, ctx, job, started, running>>

\* zsock_socket returns; the socket is connected to the peer address.
Connect ==
  /\ wpc = "socket"
  /\ wpc' = "connect"
  /\ job' = [job EXCEPT !.peer = ctx[job.item].peer]
  /\ event' = NoEvent
  /\ UNCHANGED <<queue, pending, ctx, started, running>>

\* zsock_connect returns; udp_upload or tcp_upload gets the other parameters.
Upload ==
  /\ wpc = "connect"
  /\ wpc' = "upload"
  /\ job' = [job EXCEPT !.rest = ctx[job.item].rest]
  /\ event' = NoEvent
  /\ UNCHANGED <<queue, pending, ctx, started, running>>

\* Mutant of Return: an error is not reported.
ReturnSilently(status) ==
  /\ event' = IF status = "ERROR" THEN NoEvent ELSE Callback(job.item, status)
  /\ wpc' = "receive"
  /\ running' = NoReq
  /\ UNCHANGED <<queue, pending, ctx, job, started>>

\* The upload returns, its result is reported, and the handler returns.
Return(status) ==
  /\ event' = Callback(job.item, status)
  /\ wpc' = "receive"
  /\ running' = NoReq
  /\ UNCHANGED <<queue, pending, ctx, job, started>>

\* The family is unknown, or one of the socket calls fails.
UploadFails == wpc # "receive" /\ Return("ERROR")

UploadDone == wpc = "upload" /\ Return("FINISHED")

Worker ==
  /\ RunHandler \/ OpenSocket \/ Connect \/ Upload \/ UploadFails \/ UploadDone
  /\ UNCHANGED callerVars

\* The work task waits, so a task of lower priority may run.
WorkerBlocked == wpc # "check" /\ (wpc = "receive" => queue = <<>>)
-----------------------------------------------------------------------------
(***************************************************************************)
(* The application, in zperf_udp_upload_async or zperf_tcp_upload_async.   *)
(***************************************************************************)
Made == {accepted[k] : k \in 1 .. Len(accepted)}

\* An upload of the item has been accepted and not reported its end.
InFlight(item) ==
  pending[item] \/ (wpc # "receive" /\ job.item = item)

\* param or callback is NULL.
Invalid ==
  /\ cpc = "idle"
  /\ ret' = "EINVAL"
  /\ UNCHANGED <<queue, pending, ctx, cpc, arg, accepted, overlap>>

Busy(item) ==
  /\ cpc = "idle"
  /\ pending[item]
  /\ ret' = "EBUSY"
  /\ UNCHANGED <<queue, pending, ctx, cpc, arg, accepted, overlap>>

\* Mutant of CopyPeer: k_work_is_pending is not asked.
CopyPeerUntested(item, r) ==
  /\ cpc = "idle"
  /\ overlap' = (overlap \/ InFlight(item))
  /\ arg' = [item |-> item, req |-> r]
  /\ ctx' = [ctx EXCEPT ![item].peer = r]
  /\ cpc' = "rest"
  /\ UNCHANGED <<queue, pending, ret, accepted>>

\* The item is not pending; memcpy of the parameters begins.
CopyPeer(item, r) ==
  /\ cpc = "idle"
  /\ ~pending[item]
  /\ overlap' = (overlap \/ InFlight(item))
  /\ arg' = [item |-> item, req |-> r]
  /\ ctx' = [ctx EXCEPT ![item].peer = r]
  /\ cpc' = "rest"
  /\ UNCHANGED <<queue, pending, ret, accepted>>

\* Mutant of CopyRest: the copy is too short (sizeof(param), not sizeof(*param)).
CopyRestShort ==
  /\ cpc = "rest"
  /\ cpc' = "callback"
  /\ UNCHANGED <<queue, pending, ctx, arg, ret, accepted, overlap>>

CopyRest ==
  /\ cpc = "rest"
  /\ ctx' = [ctx EXCEPT ![arg.item].rest = arg.req]
  /\ cpc' = "callback"
  /\ UNCHANGED <<queue, pending, arg, ret, accepted, overlap>>

\* Mutant of SetCallback: the assignment is missing.
SetCallbackMissing ==
  /\ cpc = "callback"
  /\ cpc' = "user_data"
  /\ UNCHANGED <<queue, pending, ctx, arg, ret, accepted, overlap>>

SetCallback ==
  /\ cpc = "callback"
  /\ ctx' = [ctx EXCEPT ![arg.item].callback = arg.req]
  /\ cpc' = "user_data"
  /\ UNCHANGED <<queue, pending, arg, ret, accepted, overlap>>

SetUserData ==
  /\ cpc = "user_data"
  /\ ctx' = [ctx EXCEPT ![arg.item].user_data = arg.req]
  /\ cpc' = "pending"
  /\ UNCHANGED <<queue, pending, arg, ret, accepted, overlap>>

\* is_pending |= WORK_ITEM_IS_PENDING_BIT_MASK: not atomic, but the one bit is
\* set whatever was read before.
SetPending ==
  /\ cpc = "pending"
  /\ pending' = [pending EXCEPT ![arg.item] = TRUE]
  /\ cpc' = "send"
  /\ UNCHANGED <<queue, ctx, arg, ret, accepted, overlap>>

\* xQueueSend blocks while the queue is full; the call then returns 0.
Send ==
  /\ cpc = "send"
  /\ Len(queue) < QUEUE_SIZE
  /\ queue' = Append(queue, arg.item)
  /\ accepted' = Append(accepted, arg.req)
  /\ ret' = "0"
  /\ cpc' = "idle"
  /\ UNCHANGED <<pending, ctx, arg, overlap>>

InCall == CopyRest \/ SetCallback \/ SetUserData \/ SetPending \/ Send

NewCall ==
  \/ Invalid
  \/ \E item \in Items :
       Busy(item) \/ \E r \in Requests \ Made : CopyPeer(item, r)

Caller ==
  /\ WorkerBlocked
  /\ InCall \/ NewCall
  /\ event' = NoEvent
  /\ UNCHANGED workerVars

Init ==
  /\ queue = <<>>
  /\ pending = [i \in Items |-> FALSE]
  /\ ctx = [i \in Items |-> EmptyCtx]
  /\ wpc = "receive"
  /\ job = [item |-> CHOOSE i \in Items : TRUE, peer |-> NoReq, rest |-> NoReq]
  /\ event = NoEvent
  /\ cpc = "idle"
  /\ arg = [item |-> CHOOSE i \in Items : TRUE, req |-> NoReq]
  /\ ret = "none"
  /\ accepted = <<>>
  /\ started = <<>>
  /\ running = NoReq
  /\ overlap = FALSE

Next == Worker \/ Caller

(***************************************************************************)
(* The work task has the highest priority and every call it blocks in      *)
(* returns: socket calls have time-outs and an upload ends with its        *)
(* duration (in UdpPacing, unless the tick counter wraps).  Nothing is     *)
(* assumed of the application.                                             *)
(***************************************************************************)
Fairness == WF_vars(Worker)

Spec == Init /\ [][Next]_vars /\ Fairness
-----------------------------------------------------------------------------
WorkerPoints == {"receive", "check", "socket", "connect", "upload"}
CallerPoints == {"idle", "rest", "callback", "user_data", "pending", "send"}
Reqs == Requests \cup {NoReq}

\* Types of the queue, the contexts and the two tasks.
AsyncTypeOK ==
  /\ queue \in Seq(Items)
  /\ pending \in [Items -> BOOLEAN]
  /\ ctx \in [Items -> [peer : Reqs, rest : Reqs, callback : Reqs, user_data : Reqs]]
  /\ wpc \in WorkerPoints
  /\ job \in [item : Items, peer : Reqs, rest : Reqs]
  /\ event \in [status : {"none", "STARTED", "FINISHED", "ERROR"},
                callback : Reqs, user_data : Reqs]
  /\ cpc \in CallerPoints
  /\ arg \in [item : Items, req : Reqs]
  /\ ret \in {"none", "0", "EINVAL", "EBUSY"}
  /\ accepted \in Seq(Requests)
  /\ started \in Seq(Requests)
  /\ running \in Reqs
  /\ overlap \in BOOLEAN

(***************************************************************************)
(* is_pending tells whether the item is in the queue, or about to be put   *)
(* there, although two tasks change it without atomic operations and one   *)
(* of them toggles it: a single lost or doubled change would invert it.    *)
(***************************************************************************)
PendingIffQueued ==
  \A i \in Items :
    pending[i] <=> \/ \E k \in 1 .. Len(queue) : queue[k] = i
                   \/ cpc = "send" /\ arg.item = i

(***************************************************************************)
(* xQueueSend, which would wait for ever, never finds the queue full: the  *)
(* test for a pending item keeps an item from being queued twice.          *)
(***************************************************************************)
QueueNeverFull == cpc = "send" => Len(queue) < QUEUE_SIZE

(***************************************************************************)
(* Every accepted upload is started once, in the order of acceptance, and  *)
(* its start is reported to the callback and user data it came with, even  *)
(* if the application does not wait for the previous one to end.           *)
(***************************************************************************)
StartsInOrder ==
  /\ Len(started) <= Len(accepted)
  /\ \A k \in 1 .. Len(started) : started[k] = accepted[k]
  /\ event.status = "STARTED" => event.user_data = event.callback

(***************************************************************************)
(* An upload runs with the parameters of one request, the one it reports   *)
(* to, as long as the application has waited for the end of each upload of *)
(* a protocol before it asked for the next one of that protocol.           *)
(***************************************************************************)
OwnParameters ==
  wpc = "upload" /\ ~overlap => job.peer = running /\ job.rest = running

Abstract ==
  INSTANCE Jobs WITH
    waiting <- [k \in 1 .. Len(queue) |-> ctx[queue[k]].callback],
    current <- running,
    void <- overlap

(***************************************************************************)
(* The uploads implement what zperf.h says of them, towards an application *)
(* that waits for the end of one upload before it asks for the next.       *)
(***************************************************************************)
ImplementsJobs == Abstract!JobsSpec

(***************************************************************************)
(* Stated by zperf.h of the asynchronous uploads ("user_data A pointer to  *)
(* the user data to be provided with the callback"): a callback gets the   *)
(* user data it was registered with.                                       *)
(***************************************************************************)
UserDataOfCallback == event.user_data = event.callback
=============================================================================
