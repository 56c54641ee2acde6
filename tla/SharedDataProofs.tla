-------------------------- MODULE SharedDataProofs --------------------------
(***************************************************************************)
(* Proofs about the two components whose tasks share static data without a *)
(* lock: the asynchronous uploads (AsyncUpload), one context per protocol  *)
(* that every request is written to, and the servers' sockets (Servers),   *)
(* one struct per family that both servers build their address in.         *)
(*                                                                         *)
(* AsyncUpload, for any work items, any requests, any queue that is large  *)
(* enough to hold every item once, and whether or not the application      *)
(* waits for the end of its uploads: the flag is_pending is right because  *)
(* an item is queued at most once and is in the queue from just after its  *)
(* flag is set until its flag is toggled.  PendingIffQueued is inductive   *)
(* together with NoDuplicates and with what is known of the item while its *)
(* request is being written.                                               *)
(*                                                                         *)
(* Servers, for any addresses, commands and room on the interface: while   *)
(* nobody else has written to a server's struct (alone), the struct holds  *)
(* what the server's request means, field by field as it is written.       *)
(* ServersInv, at the end of this module, says so for every statement.     *)
(***************************************************************************)
EXTENDS AsyncUpload, Servers, TLAPS, FiniteSetTheorems, SequenceTheorems

USE AsyncAssumption

CtxSet == [peer : Reqs, rest : Reqs, callback : Reqs, user_data : Reqs]

\* Type correctness is preserved by the steps of the work task.
LEMMA WorkerTypes ==
  ASSUME AsyncTypeOK, Worker,
         \A i \in Items : (\E k \in 1 .. Len(queue) : queue[k] = i) =>
           ctx[i].callback \in Requests
  PROVE  AsyncTypeOK'
<1>1. CASE RunHandler
  <2>1. Head(queue) \in Items /\ Tail(queue) \in Seq(Items) /\ queue[1] = Head(queue)
        /\ 1 \in 1 .. Len(queue)
    BY <1>1 DEF RunHandler, AsyncTypeOK
  <2>2. ctx[Head(queue)].callback \in Requests /\ ctx[Head(queue)].user_data \in Reqs
    BY <2>1 DEF AsyncTypeOK
  <2>3. event' \in [status : {"none", "STARTED", "FINISHED", "ERROR"},
                    callback : Reqs, user_data : Reqs]
        /\ event'.callback \in Requests
    BY <1>1, <2>2 DEF RunHandler, Callback, Reqs
  <2>4. started' \in Seq(Requests) /\ running' \in Reqs
    BY <1>1, <2>3 DEF RunHandler, AsyncTypeOK, Reqs
  <2>5. job' \in [item : Items, peer : Reqs, rest : Reqs]
    BY <1>1, <2>1 DEF RunHandler, Reqs
  <2>6. pending' \in [Items -> BOOLEAN] /\ queue' \in Seq(Items)
    BY <1>1, <2>1 DEF RunHandler, AsyncTypeOK
  <2>7. wpc' \in WorkerPoints
    BY <1>1 DEF RunHandler, WorkerPoints
  <2> QED BY <1>1, <2>3, <2>4, <2>5, <2>6, <2>7
          DEF RunHandler, Worker, AsyncTypeOK, callerVars
<1>2. NoEvent \in [status : {"none", "STARTED", "FINISHED", "ERROR"},
                   callback : Reqs, user_data : Reqs]
  BY DEF NoEvent, Reqs
<1>3. CASE OpenSocket
  BY <1>2, <1>3 DEF OpenSocket, Worker, AsyncTypeOK, callerVars, WorkerPoints
<1>4. CASE Connect \/ Upload
  <2>1. job.item \in Items
    BY DEF AsyncTypeOK
  <2>2. ctx[job.item].peer \in Reqs /\ ctx[job.item].rest \in Reqs
    BY <2>1 DEF AsyncTypeOK
  <2>3. job' \in [item : Items, peer : Reqs, rest : Reqs]
    BY <1>4, <2>2 DEF Connect, Upload, AsyncTypeOK
  <2> QED BY <1>2, <1>4, <2>3
          DEF Connect, Upload, Worker, AsyncTypeOK, callerVars, WorkerPoints
<1>5. CASE UploadFails \/ UploadDone
  <2>1. ctx[job.item] \in CtxSet
    BY DEF AsyncTypeOK, CtxSet
  <2>2. event' \in [status : {"none", "STARTED", "FINISHED", "ERROR"},
                    callback : Reqs, user_data : Reqs]
    BY <1>5, <2>1 DEF UploadFails, UploadDone, Return, Callback, CtxSet
  <2> QED BY <1>5, <2>2
          DEF UploadFails, UploadDone, Return, Worker, AsyncTypeOK, callerVars,
              WorkerPoints, Reqs
<1> QED BY <1>1, <1>3, <1>4, <1>5 DEF Worker

\* Type correctness is preserved by the steps of the application.
LEMMA CallerTypes ==
  ASSUME AsyncTypeOK, Caller, cpc # "idle" => arg.req \in Requests
  PROVE  AsyncTypeOK' /\ (cpc' # "idle" => arg'.req \in Requests)
<1>1. NoEvent \in [status : {"none", "STARTED", "FINISHED", "ERROR"},
                   callback : Reqs, user_data : Reqs]
  BY DEF NoEvent, Reqs
<1>2. CASE Invalid \/ \E item \in Items : Busy(item)
  BY <1>1, <1>2 DEF Invalid, Busy, Caller, AsyncTypeOK, workerVars
<1>3. ASSUME NEW item \in Items, NEW r \in Requests \ Made, CopyPeer(item, r)
      PROVE  AsyncTypeOK' /\ (cpc' # "idle" => arg'.req \in Requests)
  <2>1. ctx' \in [Items -> CtxSet]
    BY <1>3 DEF CopyPeer, AsyncTypeOK, CtxSet, Reqs
  <2>2. arg' \in [item : Items, req : Reqs] /\ arg'.req \in Requests
    BY <1>3 DEF CopyPeer, Reqs
  <2> QED BY <1>1, <1>3, <2>1, <2>2
          DEF CopyPeer, Caller, AsyncTypeOK, workerVars, CallerPoints, CtxSet
<1>4. CASE CopyRest \/ SetCallback \/ SetUserData
  <2>1. arg.item \in Items /\ arg.req \in Reqs /\ ctx \in [Items -> CtxSet]
    BY DEF AsyncTypeOK, CtxSet
  <2>2. ctx[arg.item] \in CtxSet
    BY <2>1
  <2>3. /\ [ctx[arg.item] EXCEPT !.rest = arg.req] \in CtxSet
        /\ [ctx[arg.item] EXCEPT !.callback = arg.req] \in CtxSet
        /\ [ctx[arg.item] EXCEPT !.user_data = arg.req] \in CtxSet
    BY <2>1, <2>2 DEF CtxSet
  <2>4. ctx' \in [Items -> CtxSet]
    BY <1>4, <2>1, <2>3 DEF CopyRest, SetCallback, SetUserData
  <2> QED BY <1>1, <1>4, <2>4
          DEF CopyRest, SetCallback, SetUserData, Caller, AsyncTypeOK, workerVars,
              CallerPoints, CtxSet
<1>5. CASE SetPending
  BY <1>1, <1>5 DEF SetPending, Caller, AsyncTypeOK, workerVars, CallerPoints
<1>6. CASE Send
  <2>1. arg.item \in Items /\ arg.req \in Requests
    BY <1>6 DEF Send, AsyncTypeOK
  <2>2. queue' \in Seq(Items) /\ accepted' \in Seq(Requests)
    BY <1>6, <2>1 DEF Send, AsyncTypeOK
  <2> QED BY <1>1, <1>6, <2>2 DEF Send, Caller, AsyncTypeOK, workerVars, CallerPoints
<1> QED BY <1>2, <1>3, <1>4, <1>5, <1>6 DEF Caller, InCall, NewCall
-----------------------------------------------------------------------------
\* No item is queued twice.
NoDuplicates ==
  \A j, k \in 1 .. Len(queue) : queue[j] = queue[k] => j = k

\* The item of a request that is being written is not queued, and its flag
\* is set last.
BeingWritten ==
  /\ cpc # "idle" => /\ arg.req \in Requests
                     /\ \A k \in 1 .. Len(queue) : queue[k] # arg.item
  /\ cpc \notin {"idle", "send"} => ~pending[arg.item]

\* What has been written of a request by the time it is submitted.
Written ==
  /\ cpc \in {"user_data", "pending", "send"} => ctx[arg.item].callback = arg.req
  /\ cpc \in {"pending", "send"} => ctx[arg.item].user_data = arg.req

\* The queue is the part of the accepted requests that has not started.
Backlog ==
  /\ Len(accepted) = Len(started) + Len(queue)
  /\ \A k \in 1 .. Len(started) : started[k] = accepted[k]
  /\ \A k \in 1 .. Len(queue) :
       /\ ctx[queue[k]].callback = accepted[Len(started) + k]
       /\ ctx[queue[k]].user_data = accepted[Len(started) + k]

\* A start is reported with the user data of its callback.
StartReport == event.status = "STARTED" => event.user_data = event.callback

AsyncInv ==
  AsyncTypeOK /\ NoDuplicates /\ PendingIffQueued /\ BeingWritten
  /\ Written /\ Backlog /\ StartReport

LEMMA AsyncInit == Init => AsyncInv
<1> SUFFICES ASSUME Init PROVE AsyncInv
  OBVIOUS
<1>1. (CHOOSE i \in Items : TRUE) \in Items
  OBVIOUS
<1>2. /\ queue \in Seq(Items)
      /\ pending \in [Items -> BOOLEAN]
      /\ ctx \in [Items -> [peer : Reqs, rest : Reqs, callback : Reqs, user_data : Reqs]]
      /\ job \in [item : Items, peer : Reqs, rest : Reqs]
      /\ arg \in [item : Items, req : Reqs]
  BY <1>1 DEF Init, EmptyCtx, Reqs
<1>3. overlap \in BOOLEAN
  BY Zenon DEF Init
<1>4. AsyncTypeOK
  BY <1>2, <1>3 DEF Init, AsyncTypeOK, NoEvent, WorkerPoints, CallerPoints, Reqs
<1> QED BY <1>4 DEF Init, AsyncInv, NoDuplicates, PendingIffQueued, BeingWritten,
                    Written, Backlog, StartReport, NoEvent

\* What receiving an item does to the queue.
LEMMA Received ==
  ASSUME AsyncInv, RunHandler
  PROVE  /\ Len(queue) \in Nat /\ Len(queue') = Len(queue) - 1
         /\ \A k \in 1 .. Len(queue') : queue'[k] = queue[k + 1]
         /\ 1 \in 1 .. Len(queue) /\ Head(queue) = queue[1] /\ queue[1] \in Items
  BY DEF AsyncInv, AsyncTypeOK, RunHandler

LEMMA HandlerStep ==
  ASSUME AsyncInv, RunHandler, Worker
  PROVE  AsyncInv'
<1> DEFINE i == queue[1]
<1>1. /\ Len(queue) \in Nat /\ Len(queue') = Len(queue) - 1
      /\ \A k \in 1 .. Len(queue') : queue'[k] = queue[k + 1]
      /\ 1 \in 1 .. Len(queue) /\ Head(queue) = i /\ i \in Items
  BY Received
<1>2. \A k \in 1 .. Len(queue') : k + 1 \in 1 .. Len(queue) /\ k + 1 # 1
  BY <1>1
<1>3. UNCHANGED <<ctx, cpc, arg, ret, accepted>>
  BY DEF RunHandler, Worker, callerVars
<1>4. AsyncTypeOK'
  <2>1. \A j \in Items : (\E k \in 1 .. Len(queue) : queue[k] = j) =>
          ctx[j].callback \in Requests
    <3> SUFFICES ASSUME NEW k \in 1 .. Len(queue)
                 PROVE  ctx[queue[k]].callback \in Requests
      OBVIOUS
    <3>1. Len(started) \in Nat /\ accepted \in Seq(Requests)
      BY DEF AsyncInv, AsyncTypeOK
    <3>2. Len(started) + k \in 1 .. Len(accepted)
      BY <1>1, <3>1 DEF AsyncInv, Backlog
    <3> QED BY <3>1, <3>2 DEF AsyncInv, Backlog
  <2> QED BY <2>1, WorkerTypes DEF AsyncInv
<1>5. NoDuplicates'
  BY <1>1, <1>2 DEF AsyncInv, NoDuplicates
<1>6. PendingIffQueued'
  <2> SUFFICES ASSUME NEW j \in Items
               PROVE  pending'[j] <=> \/ \E k \in 1 .. Len(queue') : queue'[k] = j
                                      \/ cpc = "send" /\ arg.item = j
    BY <1>3 DEF PendingIffQueued
  <2>1. pending[j] <=> \/ \E k \in 1 .. Len(queue) : queue[k] = j
                       \/ cpc = "send" /\ arg.item = j
    BY DEF AsyncInv, PendingIffQueued
  <2>2. CASE j = i
    <3>1. pending'[j] <=> ~pending[j]
      BY <1>1, <2>2 DEF RunHandler, AsyncInv, AsyncTypeOK
    <3>2. pending[j]
      BY <1>1, <2>1, <2>2
    <3>3. ~ \E k \in 1 .. Len(queue') : queue'[k] = j
      BY <1>1, <1>2, <2>2 DEF AsyncInv, NoDuplicates
    <3>4. ~(cpc = "send" /\ arg.item = j)
      BY <1>1, <2>2 DEF AsyncInv, BeingWritten
    <3> QED BY <3>1, <3>2, <3>3, <3>4
  <2>3. CASE j # i
    <3>1. pending'[j] <=> pending[j]
      BY <1>1, <2>3 DEF RunHandler, AsyncInv, AsyncTypeOK
    <3>2. (\E k \in 1 .. Len(queue) : queue[k] = j)
            <=> (\E k \in 1 .. Len(queue') : queue'[k] = j)
      <4>1. ASSUME NEW k \in 1 .. Len(queue), queue[k] = j
            PROVE  \E m \in 1 .. Len(queue') : queue'[m] = j
        <5>1. k # 1
          BY <2>3, <4>1
        <5>2. k - 1 \in 1 .. Len(queue') /\ (k - 1) + 1 = k
          BY <1>1, <5>1
        <5> QED BY <1>1, <4>1, <5>2
      <4> QED BY <1>1, <1>2, <4>1
    <3> QED BY <2>1, <3>1, <3>2
  <2> QED BY <2>2, <2>3
<1>7. BeingWritten'
  <2>1. cpc # "idle" => \A k \in 1 .. Len(queue') : queue'[k] # arg.item
    BY <1>1, <1>2 DEF AsyncInv, BeingWritten
  <2>2. cpc \notin {"idle", "send"} => ~pending'[arg.item]
    <3>1. cpc \notin {"idle", "send"} => arg.item # i /\ ~pending[arg.item]
      BY <1>1 DEF AsyncInv, BeingWritten
    <3>2. arg.item \in Items
      BY DEF AsyncInv, AsyncTypeOK
    <3> QED BY <1>1, <3>1, <3>2 DEF RunHandler, AsyncInv, AsyncTypeOK
  <2> QED BY <1>3, <2>1, <2>2 DEF AsyncInv, BeingWritten
<1>8. Written'
  BY <1>3 DEF AsyncInv, Written
<1>9. Backlog'
  <2>1. started \in Seq(Requests) /\ Len(started) \in Nat
    BY DEF AsyncInv, AsyncTypeOK
  <2>2. event'.callback = ctx[i].callback
    BY <1>1 DEF RunHandler, Callback
  <2>3. /\ ctx[i].callback = accepted[Len(started) + 1]
        /\ ctx[i].callback \in Requests
    <3>1. Len(started) + 1 \in 1 .. Len(accepted)
      BY <1>1, <2>1 DEF AsyncInv, Backlog
    <3>2. ctx[queue[1]].callback = accepted[Len(started) + 1]
      BY <1>1 DEF AsyncInv, Backlog
    <3>3. accepted \in Seq(Requests)
      BY DEF AsyncInv, AsyncTypeOK
    <3>4. accepted[Len(started) + 1] \in Requests
      BY <3>1, <3>3
    <3> QED BY <3>2, <3>4
  <2>4. /\ Len(started') = Len(started) + 1
        /\ started'[Len(started) + 1] = ctx[i].callback
        /\ \A k \in 1 .. Len(started) : started'[k] = started[k]
    BY <2>1, <2>2, <2>3 DEF RunHandler
  <2>5. Len(accepted') = Len(started') + Len(queue')
    <3>1. Len(accepted) = Len(started) + Len(queue) /\ accepted' = accepted
      BY <1>3 DEF AsyncInv, Backlog
    <3>2. Len(queue) \in Nat /\ Len(queue') = Len(queue) - 1
      BY <1>1
    <3>3. Len(started) \in Nat /\ Len(started') = Len(started) + 1
      BY <2>1, <2>4
    <3>4. Len(accepted') = Len(started) + Len(queue)
      BY <3>1
    <3> QED BY <3>2, <3>3, <3>4
  <2>6. \A k \in 1 .. Len(started') : started'[k] = accepted'[k]
    BY <1>3, <2>1, <2>3, <2>4 DEF AsyncInv, Backlog
  <2>7. \A k \in 1 .. Len(queue') :
          /\ ctx'[queue'[k]].callback = accepted'[Len(started') + k]
          /\ ctx'[queue'[k]].user_data = accepted'[Len(started') + k]
    <3> SUFFICES ASSUME NEW k \in 1 .. Len(queue')
                 PROVE  /\ ctx[queue[k + 1]].callback = accepted[Len(started') + k]
                        /\ ctx[queue[k + 1]].user_data = accepted[Len(started') + k]
      BY <1>1, <1>3
    <3>1. Len(started') + k = Len(started) + (k + 1)
      BY <1>1, <2>1, <2>4
    <3> QED BY <1>2, <3>1 DEF AsyncInv, Backlog
  <2> QED BY <2>5, <2>6, <2>7 DEF Backlog
<1>10. StartReport'
  <2>1. ctx[i].callback = ctx[i].user_data
    BY <1>1 DEF AsyncInv, Backlog
  <2> QED BY <1>1, <2>1 DEF RunHandler, Callback, StartReport
<1> QED BY <1>4, <1>5, <1>6, <1>7, <1>8, <1>9, <1>10 DEF AsyncInv

\* The other steps of the work task change neither queue nor contexts.
LEMMA UploadStep ==
  ASSUME AsyncInv, Worker, ~RunHandler
  PROVE  AsyncInv'
<1>1. /\ UNCHANGED <<queue, pending, ctx, started, cpc, arg, ret, accepted>>
      /\ event'.status # "STARTED"
  BY DEF Worker, OpenSocket, Connect, Upload, UploadFails, UploadDone, Return,
         Callback, callerVars, NoEvent
<1>2. AsyncTypeOK'
  <2>1. CASE OpenSocket \/ Connect \/ Upload \/ UploadFails \/ UploadDone
    <3>1. \A j \in Items : (\E k \in 1 .. Len(queue) : queue[k] = j) =>
            ctx[j].callback \in Requests
      <4> SUFFICES ASSUME NEW k \in 1 .. Len(queue)
                   PROVE  ctx[queue[k]].callback \in Requests
        OBVIOUS
      <4>1. Len(started) \in Nat /\ Len(queue) \in Nat /\ accepted \in Seq(Requests)
        BY DEF AsyncInv, AsyncTypeOK
      <4>2. Len(started) + k \in 1 .. Len(accepted)
        BY <4>1 DEF AsyncInv, Backlog
      <4>3. accepted[Len(started) + k] \in Requests
        BY <4>1, <4>2
      <4> QED BY <4>3 DEF AsyncInv, Backlog
    <3> QED BY <3>1, WorkerTypes DEF AsyncInv
  <2> QED BY <2>1 DEF Worker
<1>3. NoDuplicates' /\ PendingIffQueued'
  BY <1>1 DEF AsyncInv, NoDuplicates, PendingIffQueued
<1>4. BeingWritten' /\ Written'
  BY <1>1 DEF AsyncInv, BeingWritten, Written
<1>5. Backlog' /\ StartReport'
  BY <1>1 DEF AsyncInv, Backlog, StartReport
<1> QED BY <1>2, <1>3, <1>4, <1>5 DEF AsyncInv

\* Writing to the context of an item that is not queued disturbs no request
\* that waits in the queue.
LEMMA WritingIsPrivate ==
  ASSUME AsyncInv, NEW item \in Items, \A k \in 1 .. Len(queue) : queue[k] # item,
         ctx' \in [Items -> CtxSet],
         \A i \in Items \ {item} : ctx'[i] = ctx[i],
         UNCHANGED <<queue, started, accepted>>
  PROVE  Backlog'
<1>1. \A k \in 1 .. Len(queue) : queue[k] \in Items
  BY DEF AsyncInv, AsyncTypeOK
<1>2. \A k \in 1 .. Len(queue) : ctx'[queue[k]] = ctx[queue[k]]
  BY <1>1
<1> QED BY <1>2 DEF AsyncInv, Backlog

LEMMA CallerStep ==
  ASSUME AsyncInv, Caller
  PROVE  AsyncInv'
<1>1. AsyncTypeOK' /\ (cpc' # "idle" => arg'.req \in Requests)
  BY CallerTypes DEF AsyncInv, BeingWritten
<1>2. StartReport' /\ started' = started
  BY DEF Caller, StartReport, NoEvent, workerVars
<1>3. AsyncTypeOK /\ arg.item \in Items /\ ctx \in [Items -> CtxSet] /\ ctx' \in [Items -> CtxSet]
  BY <1>1 DEF AsyncInv, AsyncTypeOK, CtxSet
<1>4. CASE Invalid \/ \E item \in Items : Busy(item)
  <2>1. UNCHANGED <<queue, pending, ctx, cpc, arg, accepted, started>>
    BY <1>2, <1>4 DEF Invalid, Busy
  <2> QED BY <1>1, <1>2, <2>1
          DEF AsyncInv, NoDuplicates, PendingIffQueued, BeingWritten, Written, Backlog
<1>5. ASSUME NEW item \in Items, NEW r \in Requests \ Made, CopyPeer(item, r)
      PROVE  AsyncInv'
  <2>1. /\ UNCHANGED <<queue, pending, accepted, started>>
        /\ cpc = "idle" /\ cpc' = "rest" /\ arg'.item = item /\ ~pending[item]
        /\ ctx' = [ctx EXCEPT ![item].peer = r]
    BY <1>2, <1>5 DEF CopyPeer
  <2>2. \A k \in 1 .. Len(queue) : queue[k] # item
    BY <2>1 DEF AsyncInv, PendingIffQueued
  <2>3. \A i \in Items \ {item} : ctx'[i] = ctx[i]
    BY <1>3, <2>1
  <2>4. Backlog'
    BY <1>3, <2>1, <2>2, <2>3, WritingIsPrivate
  <2>5. NoDuplicates' /\ PendingIffQueued'
    BY <2>1 DEF AsyncInv, NoDuplicates, PendingIffQueued
  <2>6. BeingWritten' /\ Written'
    BY <1>1, <2>1, <2>2 DEF BeingWritten, Written
  <2> QED BY <1>1, <1>2, <2>4, <2>5, <2>6 DEF AsyncInv
<1>6. CASE CopyRest \/ SetCallback \/ SetUserData
  <2>1. /\ UNCHANGED <<queue, pending, accepted, started, arg>>
        /\ cpc \notin {"idle", "send"} /\ cpc' \notin {"idle", "send"}
    BY <1>2, <1>6 DEF CopyRest, SetCallback, SetUserData
  <2>2. \A k \in 1 .. Len(queue) : queue[k] # arg.item
    BY <2>1 DEF AsyncInv, BeingWritten
  <2>3. \A i \in Items \ {arg.item} : ctx'[i] = ctx[i]
    BY <1>3, <1>6 DEF CopyRest, SetCallback, SetUserData
  <2>4. Backlog'
    BY <1>3, <2>1, <2>2, <2>3, WritingIsPrivate
  <2>5. NoDuplicates' /\ PendingIffQueued'
    BY <2>1 DEF AsyncInv, NoDuplicates, PendingIffQueued
  <2>6. BeingWritten'
    BY <1>1, <2>1, <2>2 DEF AsyncInv, BeingWritten
  <2>7. Written'
    <3>1. CASE CopyRest
      BY <3>1 DEF CopyRest, Written
    <3>2. CASE SetCallback
      <4>1. ctx'[arg.item].callback = arg.req
        BY <1>3, <3>2 DEF SetCallback, CtxSet
      <4> QED BY <3>2, <4>1 DEF SetCallback, Written
    <3>3. CASE SetUserData
      <4>1. /\ ctx'[arg.item].user_data = arg.req
            /\ ctx'[arg.item].callback = ctx[arg.item].callback
        BY <1>3, <3>3 DEF SetUserData, CtxSet
      <4> QED BY <3>3, <4>1 DEF SetUserData, AsyncInv, Written
    <3> QED BY <1>6, <3>1, <3>2, <3>3
  <2> QED BY <1>1, <1>2, <2>4, <2>5, <2>6, <2>7 DEF AsyncInv
<1>7. CASE SetPending
  <2>1. /\ UNCHANGED <<queue, ctx, accepted, started, arg>>
        /\ cpc = "pending" /\ cpc' = "send"
        /\ pending' = [pending EXCEPT ![arg.item] = TRUE]
        /\ pending \in [Items -> BOOLEAN]
    BY <1>2, <1>3, <1>7 DEF SetPending, AsyncTypeOK
  <2>2. PendingIffQueued'
    <3> SUFFICES ASSUME NEW j \in Items
                 PROVE  pending'[j] <=> \/ \E k \in 1 .. Len(queue) : queue[k] = j
                                        \/ arg.item = j
      BY <2>1 DEF PendingIffQueued
    <3>1. pending[j] <=> \E k \in 1 .. Len(queue) : queue[k] = j
      BY <2>1 DEF AsyncInv, PendingIffQueued
    <3>2. pending'[j] <=> (pending[j] \/ arg.item = j)
      BY <1>3, <2>1
    <3> QED BY <3>1, <3>2
  <2>3. NoDuplicates' /\ Backlog'
    BY <2>1 DEF AsyncInv, NoDuplicates, Backlog
  <2>4. BeingWritten' /\ Written'
    BY <1>1, <2>1 DEF AsyncInv, BeingWritten, Written
  <2> QED BY <1>1, <1>2, <2>2, <2>3, <2>4 DEF AsyncInv
<1>8. CASE Send
  <2> DEFINE n == Len(queue)
  <2>1. /\ UNCHANGED <<pending, ctx, started, arg>>
        /\ cpc = "send" /\ cpc' = "idle"
        /\ queue' = Append(queue, arg.item) /\ accepted' = Append(accepted, arg.req)
    BY <1>2, <1>8 DEF Send
  <2>2. queue \in Seq(Items) /\ accepted \in Seq(Requests) /\ arg.req \in Requests
        /\ n \in Nat /\ Len(started) \in Nat
    BY <1>3, <2>1 DEF AsyncInv, AsyncTypeOK, BeingWritten
  <2>3. /\ Len(queue') = n + 1 /\ queue'[n + 1] = arg.item
        /\ \A k \in 1 .. n : queue'[k] = queue[k]
    BY <1>3, <2>1, <2>2
  <2>4. \A k \in 1 .. n : queue[k] # arg.item
    BY <2>1 DEF AsyncInv, BeingWritten
  <2>5. NoDuplicates'
    BY <2>2, <2>3, <2>4 DEF AsyncInv, NoDuplicates
  <2>6. PendingIffQueued'
    <3> SUFFICES ASSUME NEW j \in Items
                 PROVE  pending[j] <=> \E k \in 1 .. Len(queue') : queue'[k] = j
      BY <2>1 DEF PendingIffQueued
    <3>1. pending[j] <=> ((\E k \in 1 .. n : queue[k] = j) \/ arg.item = j)
      BY <2>1 DEF AsyncInv, PendingIffQueued
    <3>2. (\E k \in 1 .. Len(queue') : queue'[k] = j)
            <=> ((\E k \in 1 .. n : queue[k] = j) \/ arg.item = j)
      BY <2>2, <2>3
    <3> QED BY <3>1, <3>2
  <2>7. BeingWritten' /\ Written'
    BY <2>1 DEF BeingWritten, Written
  <2>8. Backlog'
    <3> DEFINE m == Len(accepted)
    <3>1. m = Len(started) + n /\ m \in Nat
      BY <2>2 DEF AsyncInv, Backlog
    <3>2. /\ Len(accepted') = m + 1 /\ accepted'[m + 1] = arg.req
          /\ \A k \in 1 .. m : accepted'[k] = accepted[k]
      BY <2>1, <2>2
    <3>3. Len(accepted') = Len(started) + Len(queue')
      BY <2>2, <2>3, <3>1, <3>2
    <3>4. \A k \in 1 .. Len(started) : started[k] = accepted'[k]
      BY <2>2, <3>1, <3>2 DEF AsyncInv, Backlog
    <3>5. ASSUME NEW k \in 1 .. Len(queue')
          PROVE  /\ ctx[queue'[k]].callback = accepted'[Len(started) + k]
                 /\ ctx[queue'[k]].user_data = accepted'[Len(started) + k]
      <4>1. CASE k \in 1 .. n
        <5>1. Len(started) + k \in 1 .. m
          BY <2>2, <3>1, <4>1
        <5>2. accepted'[Len(started) + k] = accepted[Len(started) + k]
          BY <3>2, <5>1
        <5> QED BY <2>3, <4>1, <5>2 DEF AsyncInv, Backlog
      <4>2. CASE k = n + 1
        <5>1. Len(started) + k = m + 1
          BY <2>2, <3>1, <4>2
        <5> QED BY <2>1, <2>3, <3>2, <4>2, <5>1 DEF AsyncInv, Written
      <4> QED BY <2>2, <2>3, <4>1, <4>2
    <3>6. started' = started /\ ctx' = ctx
      BY <2>1
    <3> QED BY <3>3, <3>4, <3>5, <3>6 DEF Backlog
  <2> QED BY <1>1, <1>2, <2>5, <2>6, <2>7, <2>8 DEF AsyncInv
<1> QED BY <1>4, <1>5, <1>6, <1>7, <1>8 DEF Caller, InCall, NewCall

\* All of the above is an invariant of the asynchronous uploads.
THEOREM AsyncInvariant == Spec => []AsyncInv
<1>1. AsyncInv /\ [Next]_vars => AsyncInv'
  <2>1. ASSUME AsyncInv, Next PROVE AsyncInv'
    BY <2>1, HandlerStep, UploadStep, CallerStep DEF Next
  <2>2. ASSUME AsyncInv, UNCHANGED vars PROVE AsyncInv'
    BY <2>2 DEF vars, workerVars, callerVars, AsyncInv, AsyncTypeOK, NoDuplicates,
                PendingIffQueued, BeingWritten, Written, Backlog, StartReport
  <2> QED BY <2>1, <2>2
<1> QED BY <1>1, AsyncInit, PTL DEF Spec
-----------------------------------------------------------------------------
\* Type correctness of the work queue, the contexts and the two tasks.
THEOREM AsyncTypeCorrect == Spec => []AsyncTypeOK
  BY AsyncInvariant, PTL DEF AsyncInv

(***************************************************************************)
(* is_pending of work.c is set exactly while its item is in the queue or   *)
(* about to be sent, although it is toggled and not atomic.                *)
(***************************************************************************)
THEOREM PendingAlwaysQueued == Spec => []PendingIffQueued
  BY AsyncInvariant, PTL DEF AsyncInv

(***************************************************************************)
(* Every accepted upload is started once, in order, with its own callback  *)
(* and user data, for an application that waits and for one that does not. *)
(***************************************************************************)
THEOREM StartsAlwaysInOrder == Spec => []StartsInOrder
<1>1. AsyncInv => StartsInOrder
  <2> SUFFICES ASSUME AsyncInv PROVE StartsInOrder
    OBVIOUS
  <2>1. Len(started) \in Nat /\ Len(queue) \in Nat
    BY DEF AsyncInv, AsyncTypeOK
  <2> QED BY <2>1 DEF AsyncInv, Backlog, StartReport, StartsInOrder
<1> QED BY <1>1, AsyncInvariant, PTL

(***************************************************************************)
(* The application never waits in xQueueSend: distinct items other than    *)
(* the one it sends cannot fill a queue that has room for all of them.     *)
(***************************************************************************)
THEOREM QueueNeverFills == Spec => []QueueNeverFull
<1>1. AsyncInv => QueueNeverFull
  <2> SUFFICES ASSUME AsyncInv, cpc = "send" PROVE Len(queue) < QUEUE_SIZE
    BY DEF QueueNeverFull
  <2> DEFINE Others == Items \ {arg.item}
             n == Len(queue)
  <2>1. /\ n \in Nat /\ arg.item \in Items
        /\ \A k \in 1 .. n : queue[k] \in Others
        /\ queue \in [1 .. n -> Items]
    BY DEF AsyncInv, AsyncTypeOK, BeingWritten
  <2>2. queue \in [1 .. n -> Others]
    BY <2>1
  <2>3. /\ IsFiniteSet(Others) /\ Cardinality(Others) = Cardinality(Items) - 1
        /\ Cardinality(Items) \in Nat
    BY <2>1, FS_RemoveElement, FS_CardinalityType
  <2>4. IsFiniteSet(1 .. n) /\ Cardinality(1 .. n) = n
    <3> HIDE DEF n
    <3>1. n \in Int /\ 1 \in Int /\ n >= 0
      BY <2>1
    <3>2. IsFiniteSet(1 .. n) /\ Cardinality(1 .. n) = IF 1 > n THEN 0 ELSE n - 1 + 1
      BY <3>1, FS_Interval, Zenon
    <3> QED BY <3>1, <3>2
  <2>5. ~(Cardinality(Others) < n)
    <3> SUFFICES ASSUME Cardinality(Others) < n PROVE FALSE
      OBVIOUS
    <3>1. \E x, y \in 1 .. n : x # y /\ queue[x] = queue[y]
      BY <2>2, <2>3, <2>4, FS_PigeonHole
    <3> QED BY <3>1 DEF AsyncInv, NoDuplicates
  <2>6. QUEUE_SIZE \in Nat /\ QUEUE_SIZE >= Cardinality(Items)
    OBVIOUS
  <2> HIDE DEF Others, n
  <2>7. n \in Nat
    BY <2>1
  <2> QED BY <2>3, <2>5, <2>6, <2>7 DEF n
<1> QED BY <1>1, AsyncInvariant, PTL
-----------------------------------------------------------------------------
(***************************************************************************)
(* What the application is promised if it waits for the end of one upload  *)
(* before it asks for the next of the same protocol: each runs with its    *)
(* own parameters, and every step is a step of Jobs.                       *)
(*                                                                         *)
(* AsyncInv says that nobody writes to the context of a queued item.  What *)
(* is needed beyond it is that nobody writes to the context of the running *)
(* one either, which is true only as long as there was no overlap.         *)
(***************************************************************************)
\* How far the parameters of the request being written have got.
Copied ==
  /\ cpc # "idle" => ctx[arg.item].peer = arg.req
  /\ cpc \notin {"idle", "rest"} => ctx[arg.item].rest = arg.req

\* A queued context holds the parameters of the request it will report to.
Complete ==
  \A k \in 1 .. Len(queue) :
    /\ ctx[queue[k]].peer = ctx[queue[k]].callback
    /\ ctx[queue[k]].rest = ctx[queue[k]].callback

\* An upload runs for a request exactly while the work task is not waiting.
Occupied == running \in Requests <=> wpc # "receive"

\* Without overlap the running upload's context is its own, and so are the
\* parameters it has read.
Undisturbed ==
  ~overlap /\ wpc # "receive" =>
    /\ cpc # "idle" => arg.item # job.item
    /\ ctx[job.item].peer = running
    /\ ctx[job.item].rest = running
    /\ ctx[job.item].callback = running
    /\ ctx[job.item].user_data = running
    /\ wpc \in {"connect", "upload"} => job.peer = running
    /\ wpc = "upload" => job.rest = running

OwnInv == Copied /\ Complete /\ Occupied /\ Undisturbed
-----------------------------------------------------------------------------
LEMMA OwnInit == Init => OwnInv
<1> SUFFICES ASSUME Init PROVE OwnInv
  OBVIOUS
<1>1. Copied /\ Complete
  BY DEF Init, Copied, Complete
<1>2. Occupied /\ Undisturbed
  BY AsyncAssumption DEF Init, Occupied, Undisturbed
<1> QED BY <1>1, <1>2 DEF OwnInv

\* An item is received: its context is complete and not being written.
LEMMA HandlerOwn ==
  ASSUME AsyncInv, OwnInv, RunHandler, Worker
  PROVE  OwnInv'
<1> DEFINE i == queue[1]
<1>1. /\ Len(queue) \in Nat /\ Len(queue') = Len(queue) - 1
      /\ \A k \in 1 .. Len(queue') : queue'[k] = queue[k + 1]
      /\ 1 \in 1 .. Len(queue) /\ Head(queue) = i /\ i \in Items
  BY Received
<1>2. \A k \in 1 .. Len(queue') : k + 1 \in 1 .. Len(queue)
  BY <1>1
<1>3. UNCHANGED <<ctx, cpc, arg, overlap>>
  BY DEF RunHandler, Worker, callerVars
<1>4. Copied' /\ Complete'
  BY <1>1, <1>2, <1>3 DEF OwnInv, Copied, Complete
<1>5. /\ running' = ctx[i].callback /\ job'.item = i /\ wpc' = "check"
  BY <1>1 DEF RunHandler, Callback
<1>6. ctx[i].callback \in Requests
  <2>1. Len(started) \in Nat /\ accepted \in Seq(Requests)
    BY DEF AsyncInv, AsyncTypeOK
  <2>2. Len(started) + 1 \in 1 .. Len(accepted)
    BY <1>1, <2>1 DEF AsyncInv, Backlog
  <2>3. accepted[Len(started) + 1] \in Requests
    BY <2>1, <2>2
  <2> QED BY <1>1, <2>3 DEF AsyncInv, Backlog
<1>7. /\ ctx[i].peer = ctx[i].callback
      /\ ctx[i].rest = ctx[i].callback
      /\ ctx[i].user_data = ctx[i].callback
  BY <1>1 DEF OwnInv, Complete, AsyncInv, Backlog
<1>8. cpc # "idle" => arg.item # i
  BY <1>1 DEF AsyncInv, BeingWritten
<1>9. Occupied' /\ Undisturbed'
  BY <1>3, <1>5, <1>6, <1>7, <1>8 DEF Occupied, Undisturbed
<1> QED BY <1>4, <1>9 DEF OwnInv

\* The upload goes on: it reads its parameters from its context, or ends.
LEMMA UploadOwn ==
  ASSUME AsyncInv, OwnInv, Worker, ~RunHandler
  PROVE  OwnInv'
<1>1. UNCHANGED <<queue, ctx, cpc, arg, overlap>>
  BY DEF Worker, OpenSocket, Connect, Upload, UploadFails, UploadDone, Return,
         callerVars
<1>2. Copied' /\ Complete'
  BY <1>1 DEF OwnInv, Copied, Complete
<1>3. job \in [item : Items, peer : Reqs, rest : Reqs]
  BY DEF AsyncInv, AsyncTypeOK
<1>4. CASE OpenSocket
  BY <1>1, <1>2, <1>4 DEF OpenSocket, OwnInv, Occupied, Undisturbed
<1>5. CASE Connect
  <2>1. job'.item = job.item /\ job'.peer = ctx[job.item].peer
    BY <1>3, <1>5 DEF Connect
  <2> QED BY <1>1, <1>2, <1>5, <2>1 DEF Connect, OwnInv, Occupied, Undisturbed
<1>6. CASE Upload
  <2>1. /\ job'.item = job.item /\ job'.peer = job.peer
        /\ job'.rest = ctx[job.item].rest
    BY <1>3, <1>6 DEF Upload
  <2> QED BY <1>1, <1>2, <1>6, <2>1 DEF Upload, OwnInv, Occupied, Undisturbed
<1>7. CASE UploadFails \/ UploadDone
  <2>1. wpc' = "receive" /\ running' = NoReq
    BY <1>7 DEF UploadFails, UploadDone, Return
  <2> QED BY <1>2, <2>1, AsyncAssumption DEF OwnInv, Occupied, Undisturbed
<1> QED BY <1>4, <1>5, <1>6, <1>7 DEF Worker

\* The application writes to one context, which is neither queued nor, as
\* long as there is no overlap, in use.
LEMMA CallerOwn ==
  ASSUME AsyncInv, OwnInv, Caller
  PROVE  OwnInv'
<1>1. /\ UNCHANGED <<wpc, job, running>>
      /\ Occupied'
  BY DEF Caller, workerVars, OwnInv, Occupied
<1>2. /\ arg.item \in Items /\ ctx \in [Items -> CtxSet]
      /\ \A k \in 1 .. Len(queue) : queue[k] \in Items
      /\ job.item \in Items
  BY DEF AsyncInv, AsyncTypeOK, CtxSet
<1>3. CASE Invalid \/ \E item \in Items : Busy(item)
  <2>1. UNCHANGED <<queue, ctx, cpc, arg, overlap>>
    BY <1>3 DEF Invalid, Busy
  <2> QED BY <1>1, <2>1 DEF OwnInv, Copied, Complete, Undisturbed
<1>4. ASSUME NEW item \in Items, NEW r \in Requests \ Made, CopyPeer(item, r)
      PROVE  OwnInv'
  <2>1. /\ queue' = queue /\ cpc' = "rest" /\ arg'.item = item /\ arg'.req = r
        /\ ~pending[item] /\ ctx' = [ctx EXCEPT ![item].peer = r]
    BY <1>4 DEF CopyPeer
  <2>2. \A k \in 1 .. Len(queue) : queue[k] # item
    BY <2>1 DEF AsyncInv, PendingIffQueued
  <2>3. ctx'[item].peer = r /\ \A j \in Items \ {item} : ctx'[j] = ctx[j]
    BY <1>2, <2>1 DEF CtxSet
  <2>4. Copied' /\ Complete'
    BY <1>2, <2>1, <2>2, <2>3 DEF OwnInv, Copied, Complete
  <2>5. ~overlap' /\ wpc # "receive" => ~overlap /\ item # job.item
    BY <1>4 DEF CopyPeer, InFlight
  <2>6. Undisturbed'
    BY <1>1, <1>2, <2>1, <2>3, <2>5 DEF OwnInv, Undisturbed
  <2> QED BY <1>1, <2>4, <2>6 DEF OwnInv
<1>5. CASE CopyRest \/ SetCallback \/ SetUserData
  <2>1. UNCHANGED <<queue, arg, overlap>> /\ cpc # "idle" /\ cpc' # "idle"
    BY <1>5 DEF CopyRest, SetCallback, SetUserData
  <2>2. \A k \in 1 .. Len(queue) : queue[k] # arg.item
    BY <2>1 DEF AsyncInv, BeingWritten
  <2>3. \A j \in Items \ {arg.item} : ctx'[j] = ctx[j]
    BY <1>2, <1>5 DEF CopyRest, SetCallback, SetUserData
  <2>4. Complete'
    BY <1>2, <2>1, <2>2, <2>3 DEF OwnInv, Complete
  <2>5. Undisturbed'
    BY <1>1, <1>2, <2>1, <2>3 DEF OwnInv, Undisturbed
  <2>6. Copied'
    <3>1. CASE CopyRest
      <4>1. /\ ctx'[arg.item].rest = arg.req
            /\ ctx'[arg.item].peer = ctx[arg.item].peer
        BY <1>2, <3>1 DEF CopyRest, CtxSet
      <4> QED BY <2>1, <4>1 DEF OwnInv, Copied
    <3>2. CASE SetCallback
      <4>1. /\ ctx'[arg.item].rest = ctx[arg.item].rest
            /\ ctx'[arg.item].peer = ctx[arg.item].peer
        BY <1>2, <3>2 DEF SetCallback, CtxSet
      <4> QED BY <2>1, <3>2, <4>1 DEF SetCallback, OwnInv, Copied
    <3>3. CASE SetUserData
      <4>1. /\ ctx'[arg.item].rest = ctx[arg.item].rest
            /\ ctx'[arg.item].peer = ctx[arg.item].peer
        BY <1>2, <3>3 DEF SetUserData, CtxSet
      <4> QED BY <2>1, <3>3, <4>1 DEF SetUserData, OwnInv, Copied
    <3> QED BY <1>5, <3>1, <3>2, <3>3
  <2> QED BY <1>1, <2>4, <2>5, <2>6 DEF OwnInv
<1>6. CASE SetPending
  <2>1. /\ UNCHANGED <<queue, ctx, arg, overlap>>
        /\ cpc = "pending" /\ cpc' = "send"
    BY <1>6 DEF SetPending
  <2>2. Copied' /\ Complete'
    BY <2>1 DEF OwnInv, Copied, Complete
  <2>3. Undisturbed'
    BY <1>1, <2>1 DEF OwnInv, Undisturbed
  <2> QED BY <1>1, <2>2, <2>3 DEF OwnInv
<1>7. CASE Send
  <2> DEFINE n == Len(queue)
  <2>1. /\ UNCHANGED <<ctx, arg, overlap>>
        /\ cpc = "send" /\ cpc' = "idle" /\ queue' = Append(queue, arg.item)
    BY <1>7 DEF Send
  <2>2. queue \in Seq(Items) /\ n \in Nat
    BY DEF AsyncInv, AsyncTypeOK
  <2>3. /\ Len(queue') = n + 1 /\ queue'[n + 1] = arg.item
        /\ \A k \in 1 .. n : queue'[k] = queue[k]
    BY <1>2, <2>1, <2>2
  <2>4. ASSUME NEW k \in 1 .. Len(queue')
        PROVE  /\ ctx[queue'[k]].peer = ctx[queue'[k]].callback
               /\ ctx[queue'[k]].rest = ctx[queue'[k]].callback
    <3>1. CASE k \in 1 .. n
      BY <2>3, <3>1 DEF OwnInv, Complete
    <3>2. CASE k = n + 1
      BY <2>1, <2>3, <3>2 DEF OwnInv, Copied, AsyncInv, Written
    <3> QED BY <2>2, <2>3, <3>1, <3>2
  <2>5. Copied' /\ Complete'
    BY <2>1, <2>4 DEF Copied, Complete
  <2>6. Undisturbed'
    BY <1>1, <2>1 DEF OwnInv, Undisturbed
  <2> QED BY <1>1, <2>5, <2>6 DEF OwnInv
<1> QED BY <1>3, <1>4, <1>5, <1>6, <1>7 DEF Caller, InCall, NewCall

LEMMA OwnInvariant == Spec => []OwnInv
<1>1. AsyncInv /\ OwnInv /\ [Next]_vars => OwnInv'
  <2>1. ASSUME AsyncInv, OwnInv, Next PROVE OwnInv'
    BY <2>1, HandlerOwn, UploadOwn, CallerOwn DEF Next
  <2>2. ASSUME OwnInv, UNCHANGED vars PROVE OwnInv'
    BY <2>2 DEF vars, workerVars, callerVars, OwnInv, Copied, Complete, Occupied,
                Undisturbed
  <2> QED BY <2>1, <2>2
<1> QED BY <1>1, OwnInit, AsyncInvariant, PTL DEF Spec

(***************************************************************************)
(* Without overlap an upload connects to the address and sends with the    *)
(* parameters of the request whose callback it has reported its start to,  *)
(* although the context is static and is written again for every request.  *)
(***************************************************************************)
THEOREM ParametersAreOwn == Spec => []OwnParameters
<1>1. OwnInv => OwnParameters
  BY DEF OwnInv, Undisturbed, OwnParameters
<1> QED BY <1>1, OwnInvariant, PTL
-----------------------------------------------------------------------------
(***************************************************************************)
(* Every step of the asynchronous uploads is a step of Jobs.               *)
(***************************************************************************)

\* The requests that wait, as the refinement mapping has them.
Waits == [k \in 1 .. Len(queue) |-> ctx[queue[k]].callback]

\* A step that leaves the queue and its callbacks alone leaves Waits alone.
LEMMA SameWaits ==
  ASSUME AsyncInv, queue' = queue,
         \A k \in 1 .. Len(queue) : ctx'[queue[k]] = ctx[queue[k]]
  PROVE  Waits' = Waits
  BY DEF Waits

\* RunHandler takes the first of the requests that wait.
LEMMA HandlerBegins ==
  ASSUME AsyncInv, OwnInv, RunHandler, Worker, ~overlap'
  PROVE  Abstract!Begin
<1> DEFINE i == queue[1]
<1>1. /\ Len(queue) \in Nat /\ Len(queue') = Len(queue) - 1
      /\ \A k \in 1 .. Len(queue') : queue'[k] = queue[k + 1]
      /\ 1 \in 1 .. Len(queue) /\ Head(queue) = i /\ i \in Items
  BY Received
<1>2. UNCHANGED <<ctx, overlap>>
  BY DEF RunHandler, Worker, callerVars
<1>3. Waits \in Seq(Reqs) /\ Len(Waits) = Len(queue) /\ Waits # <<>>
  <2>1. \A k \in 1 .. Len(queue) : ctx[queue[k]].callback \in Reqs
    BY DEF AsyncInv, AsyncTypeOK
  <2>2. Waits \in Seq(Reqs) /\ Len(Waits) = Len(queue)
    BY <1>1, <2>1 DEF Waits
  <2> QED BY <1>1, <2>2
<1>4. Head(Waits) = ctx[i].callback
  BY <1>1, <1>3 DEF Waits
<1>5. Waits' = Tail(Waits)
  <2>1. \A k \in 1 .. Len(queue') : ctx'[queue'[k]].callback = Waits[k + 1]
    BY <1>1, <1>2 DEF Waits
  <2>2. \A k \in 1 .. Len(queue') : Waits[k + 1] \in Reqs
    BY <1>1, <1>3
  <2>3. /\ Waits' \in Seq(Reqs) /\ Len(Waits') = Len(Waits) - 1
        /\ \A k \in 1 .. Len(Waits') : Waits'[k] = Waits[k + 1]
    <3>1. Waits' = [k \in 1 .. Len(queue') |-> Waits[k + 1]]
      BY <2>1 DEF Waits
    <3>2. Len(queue') \in Nat /\ Len(queue') = Len(Waits) - 1
      BY <1>1, <1>3
    <3> QED BY <2>2, <3>1, <3>2
  <2>4. /\ Tail(Waits) \in Seq(Reqs) /\ Len(Tail(Waits)) = Len(Waits) - 1
        /\ \A k \in 1 .. Len(Tail(Waits)) : Tail(Waits)[k] = Waits[k + 1]
    BY <1>3, HeadTailProperties
  <2> QED BY <2>3, <2>4, SeqEqual
<1>6. running = NoReq
  BY DEF RunHandler, OwnInv, Occupied, AsyncInv, AsyncTypeOK, Reqs
<1>7. ctx[i].user_data = ctx[i].callback
  BY <1>1 DEF AsyncInv, Backlog
<1>8. /\ event' = [status |-> "STARTED", callback |-> ctx[i].callback,
                   user_data |-> ctx[i].callback]
      /\ running' = ctx[i].callback
  BY <1>1, <1>7 DEF RunHandler, Callback
<1> QED BY <1>2, <1>3, <1>4, <1>5, <1>6, <1>8
        DEF Abstract!Begin, Abstract!Report, Waits

\* The other steps of the work task end the upload, or report nothing.
LEMMA UploadRefines ==
  ASSUME AsyncInv, OwnInv, Worker, ~RunHandler, ~overlap'
  PROVE  Abstract!Finish \/ Abstract!Quiet
<1>1. UNCHANGED <<queue, ctx, overlap>>
  BY DEF Worker, OpenSocket, Connect, Upload, UploadFails, UploadDone, Return,
         callerVars
<1>2. Waits' = Waits
  BY <1>1, SameWaits
<1>3. CASE OpenSocket \/ Connect \/ Upload
  <2>1. event' = NoEvent /\ running' = running
    BY <1>3 DEF OpenSocket, Connect, Upload
  <2> QED BY <1>1, <1>2, <2>1 DEF Abstract!Quiet, Abstract!NoEvent, NoEvent, Waits
<1>4. ASSUME NEW status \in {"FINISHED", "ERROR"}, Return(status), wpc # "receive"
      PROVE  Abstract!Finish
  <2>1. running # NoReq
    BY <1>4, AsyncAssumption DEF OwnInv, Occupied
  <2>2. /\ ctx[job.item].callback = running
        /\ ctx[job.item].user_data = running
    BY <1>1, <1>4 DEF OwnInv, Undisturbed
  <2>3. /\ event' = [status |-> status, callback |-> running, user_data |-> running]
        /\ running' = NoReq
    BY <1>4, <2>2 DEF Return, Callback
  <2> QED BY <1>1, <1>2, <2>1, <2>3 DEF Abstract!Finish, Abstract!Report, Waits
<1>5. CASE UploadFails \/ UploadDone
  BY <1>4, <1>5 DEF UploadFails, UploadDone
<1> QED BY <1>3, <1>5 DEF Worker

\* The application's steps do not show, but for the one that submits.
LEMMA CallerRefines ==
  ASSUME AsyncInv, OwnInv, Caller, ~overlap'
  PROVE  Abstract!Quiet \/ \E r \in Requests : Abstract!Accept(r)
<1>1. event' = NoEvent /\ running' = running
  BY DEF Caller, workerVars
<1>2. arg.item \in Items /\ ctx \in [Items -> CtxSet]
      /\ \A k \in 1 .. Len(queue) : queue[k] \in Items
  BY DEF AsyncInv, AsyncTypeOK, CtxSet
<1>3. ASSUME overlap' = overlap, Waits' = Waits PROVE Abstract!Quiet
  BY <1>1, <1>3 DEF Abstract!Quiet, Abstract!NoEvent, NoEvent, Waits
<1>4. CASE Invalid \/ (\E item \in Items : Busy(item)) \/ SetPending
  <2>1. UNCHANGED <<queue, ctx, overlap>>
    BY <1>4 DEF Invalid, Busy, SetPending
  <2> QED BY <1>3, <2>1, SameWaits
<1>5. ASSUME NEW item \in Items, NEW r \in Requests \ Made, CopyPeer(item, r)
      PROVE  Abstract!Quiet
  <2>1. \A k \in 1 .. Len(queue) : queue[k] # item
    BY <1>5 DEF CopyPeer, AsyncInv, PendingIffQueued
  <2>2. queue' = queue /\ \A k \in 1 .. Len(queue) : ctx'[queue[k]] = ctx[queue[k]]
    BY <1>2, <1>5, <2>1 DEF CopyPeer
  <2>3. ~overlap /\ overlap \in BOOLEAN /\ overlap' \in BOOLEAN
    <3>1. AsyncTypeOK /\ AsyncTypeOK'
      BY CallerStep DEF AsyncInv
    <3>2. overlap \in BOOLEAN /\ overlap' \in BOOLEAN
      BY <3>1, Zenon DEF AsyncTypeOK
    <3> QED BY <1>5, <3>2 DEF CopyPeer
  <2>4. overlap' = overlap
    BY <2>3
  <2> QED BY <1>3, <2>2, <2>4, SameWaits
<1>6. CASE CopyRest \/ SetCallback \/ SetUserData
  <2>1. UNCHANGED <<queue, overlap>> /\ cpc # "idle"
    BY <1>6 DEF CopyRest, SetCallback, SetUserData
  <2>2. \A k \in 1 .. Len(queue) : queue[k] # arg.item
    BY <2>1 DEF AsyncInv, BeingWritten
  <2>3. \A k \in 1 .. Len(queue) : ctx'[queue[k]] = ctx[queue[k]]
    BY <1>2, <1>6, <2>2 DEF CopyRest, SetCallback, SetUserData
  <2> QED BY <1>3, <2>1, <2>3, SameWaits
<1>7. ASSUME Send PROVE \E r \in Requests : Abstract!Accept(r)
  <2> DEFINE n == Len(queue)
  <2>1. /\ UNCHANGED <<ctx, overlap>> /\ cpc = "send"
        /\ queue' = Append(queue, arg.item)
    BY <1>7 DEF Send
  <2>2. queue \in Seq(Items) /\ n \in Nat
    BY DEF AsyncInv, AsyncTypeOK
  <2>3. /\ Len(queue') = n + 1 /\ queue'[n + 1] = arg.item
        /\ \A k \in 1 .. n : queue'[k] = queue[k]
    BY <1>2, <2>1, <2>2
  <2>4. ctx[arg.item].callback = arg.req /\ arg.req \in Requests
    BY <2>1 DEF AsyncInv, Written, BeingWritten
  <2>5. Waits' = [k \in 1 .. (n + 1) |-> IF k \in 1 .. n THEN Waits[k] ELSE arg.req]
    <3>1. Waits' = [k \in 1 .. (n + 1) |-> ctx[queue'[k]].callback]
      BY <2>1, <2>3 DEF Waits
    <3>2. ASSUME NEW k \in 1 .. (n + 1)
          PROVE  ctx[queue'[k]].callback = IF k \in 1 .. n THEN Waits[k] ELSE arg.req
      <4>1. k \in 1 .. n \/ k = n + 1
        BY <2>2
      <4> QED BY <2>2, <2>3, <2>4, <4>1 DEF Waits
    <3> QED BY <3>1, <3>2
  <2>6. Waits \in Seq(Reqs) /\ Len(Waits) = n
    <3>1. \A k \in 1 .. n : ctx[queue[k]].callback \in Reqs
      BY DEF AsyncInv, AsyncTypeOK
    <3> QED BY <2>2, <3>1 DEF Waits
  <2>7. Waits' = Append(Waits, arg.req)
    BY <2>2, <2>4, <2>5, <2>6 DEF Reqs
  <2> QED BY <1>1, <2>1, <2>4, <2>7
          DEF Abstract!Accept, Abstract!NoEvent, NoEvent, Waits
<1> QED BY <1>4, <1>5, <1>6, <1>7 DEF Caller, InCall, NewCall

(***************************************************************************)
(* The uploads implement Jobs, as far as safety goes: one start and one    *)
(* end for each accepted upload, in order, each with the callback and the  *)
(* user data of its request, until the application breaks the rule of one  *)
(* upload at a time.                                                       *)
(***************************************************************************)
THEOREM RefinesJobs == Spec => Abstract!JobsSafety
<1>1. Init => Abstract!JobsInit
  <2> SUFFICES ASSUME Init PROVE Abstract!JobsInit
    OBVIOUS
  <2>1. Waits = <<>>
    BY DEF Init, Waits
  <2> QED BY <2>1 DEF Init, Abstract!JobsInit, Abstract!NoEvent, NoEvent, Waits
<1>2. ASSUME AsyncInv, OwnInv, [Next]_vars
      PROVE  [Abstract!JobsNext]_(Abstract!jobVars)
  <2>1. CASE UNCHANGED vars
    <3>1. Waits' = Waits
      BY <2>1 DEF vars, Waits
    <3> QED BY <2>1, <3>1 DEF vars, workerVars, callerVars, Abstract!jobVars, Waits
  <2>2. CASE Next /\ overlap'
    BY <2>2 DEF Abstract!JobsNext, Abstract!Break
  <2>3. CASE Next /\ ~overlap'
    BY <1>2, <2>3, HandlerBegins, UploadRefines, CallerRefines
       DEF Next, Abstract!JobsNext
  <2> QED BY <1>2, <2>1, <2>2, <2>3
<1> QED BY <1>1, <1>2, AsyncInvariant, OwnInvariant, PTL DEF Spec, Abstract!JobsSafety
-----------------------------------------------------------------------------
(***************************************************************************)
(* The servers' sockets.                                                   *)
(***************************************************************************)
USE AddressAssumption, ServersAssumption

\* The statements of a server between its request and its end.
Statements == {"idle", "socket", "addr", "iface", "port", "copy", "bind", "serve"}

\* What the struct for IPv6 may be given.
Addrs6 == {MyIp6, Any6} \cup {<<addr[1], 0>> : addr \in V6}

\* A struct of family f has these two fields.
IsAddr(f, sin) ==
  /\ sin = [addr |-> sin.addr, port |-> sin.port]
  /\ f = "v6" => sin.addr \in Addrs6

ServersTypes ==
  /\ at \in [Server -> Statements \X Family]
  /\ DOMAIN argv = Server /\ \A s \in Server : argv[s] \in Argvs \cup {<<>>}
  /\ DOMAIN my = Family
  /\ \A f \in Family : IsAddr(f, my[f])
  /\ DOMAIN copy = Family
  /\ DOMAIN bound = Server /\ \A s \in Server : DOMAIN bound[s] = Family
  /\ alone \in [Server -> BOOLEAN]
  /\ if6 \in Seq(Addrs6) /\ Len(if6) <= IP6_ADDRS

Full == Len(if6) = IP6_ADDRS /\ \A n \in DOMAIN if6 : if6[n] # MyIp6

\* The addresses that the request of s may mean in family f.
Meant(s, f) ==
  IF Given(s, f) # Any(f) THEN {Given(s, f)}
  ELSE {MyIp(f)} \cup (IF f = "v6" /\ Full THEN {Any6} ELSE {})

\* The struct, from the first write of a server nobody has disturbed.
Built(s, f) ==
  alone[s] =>
    /\ at[s] = <<"iface", f>> => f = "v6" /\ Given(s, f) = Any(f) /\ my[f].addr = MyIp(f)
    /\ at[s] = <<"port", f>> => my[f].addr \in Meant(s, f)
    /\ at[s] = <<"copy", f>> => my[f].addr \in Meant(s, f) /\ my[f].port = Port(s)
    /\ at[s] = <<"bind", f>> /\ s = "udp" => my[f].addr \in Meant(s, f) /\ my[f].port = Port(s)

\* What a server owns: the copy and the bound addresses.
Owned(s, f) ==
  /\ at[s] = <<"bind", f>> /\ s = "tcp" /\ copy[f].own =>
       copy[f].addr \in Meant(s, f) /\ copy[f].port = Port(s)
  /\ IsBound(s, f) /\ bound[s][f].own =>
       bound[s][f].addr \in Meant(s, f) /\ bound[s][f].port = Port(s)
  /\ at[s] = Idle => ~IsBound(s, f)

ServersInv ==
  /\ ServersTypes
  /\ \A s \in Server, f \in Family : Built(s, f) /\ Owned(s, f)
-----------------------------------------------------------------------------
\* What the block for IPv4 reads from the request.
LEMMA GivenV4 ==
  ASSUME NEW s \in Server, argv[s] \in Argvs \cup {<<>>}
  PROVE  Given(s, "v4") = IF Host(s) \in V4 /\ ~Bracketed(s) THEN Host(s) ELSE Any4
<1> DEFINE text == argv[s][2]
<1>1. CASE Len(argv[s]) = 2
  <2>1. zperf_bind_host(argv[s]).addr = net_ipaddr_parse(text, NoSockaddr).sa
    BY <1>1 DEF zperf_bind_host
  <2>2. Host(s) = text.addr /\ (Bracketed(s) <=> text.open)
    BY <1>1 DEF Host, Bracketed
  <2> HIDE DEF text
  <2>3. text.addr \in V4 => text.addr = <<text.addr[1]>> /\ text.addr \notin V6
    OBVIOUS
  <2>4. net_ipaddr_parse(text, NoSockaddr).sa.word =
          IF text.addr \in V4 /\ ~text.open THEN text.addr[1] ELSE 0
    <3>1. CASE text.open
      BY <3>1 DEF net_ipaddr_parse, parse_ipv6, PortParsed, Parsed, NoSockaddr
    <3>2. CASE ~text.open /\ text.addr \in V4
      BY <3>2, <2>3 DEF net_ipaddr_parse, OneColon, parse_ipv4, PortParsed, Parsed, NoSockaddr
    <3>3. CASE ~text.open /\ text.addr \notin V4
      BY <3>3 DEF net_ipaddr_parse, OneColon, parse_ipv4, parse_ipv6,
                         PortParsed, Parsed, NoSockaddr
    <3> QED BY <3>1, <3>2, <3>3
  <2> QED BY <2>1, <2>2, <2>3, <2>4 DEF Given, sin_addr, Any4
<1>2. CASE Len(argv[s]) # 2
  <2>1. Len(argv[s]) < 2
    <3>1. argv[s] = <<>> \/ Len(argv[s]) \in {1, 2}
      BY Zenon
    <3>2. Len(<<>>) = 0
      OBVIOUS
    <3>3. Len(argv[s]) \in {0, 1}
      BY <1>2, <3>1, <3>2, Zenon
    <3>4. \A n \in {0, 1} : n < 2
      OBVIOUS
    <3> QED BY <3>3, <3>4, Zenon
  <2>2. zperf_bind_host(argv[s]).addr = NoSockaddr
    BY <2>1 DEF zperf_bind_host
  <2> QED BY <1>2, <2>2 DEF Given, Host, sin_addr, Any4, NoSockaddr
<1> QED BY <1>1, <1>2

\* What the block for IPv6 reads from it: the first half of the address only.
LEMMA GivenV6 ==
  ASSUME NEW s \in Server, argv[s] \in Argvs \cup {<<>>}
  PROVE  Given(s, "v6") =
           IF Host(s) \in V6 /\ (Bracketed(s) => Closed(s)) THEN <<Host(s)[1], 0>> ELSE Any6
<1> DEFINE text == argv[s][2]
<1>1. CASE Len(argv[s]) = 2
  <2>1. zperf_bind_host(argv[s]).addr = net_ipaddr_parse(text, NoSockaddr).sa
    BY <1>1 DEF zperf_bind_host
  <2>2. Host(s) = text.addr /\ (Bracketed(s) <=> text.open) /\ (Closed(s) <=> text.close)
    BY <1>1 DEF Host, Bracketed, Closed
  <2> HIDE DEF text
  <2>3. text.addr \in V6 => text.addr \notin V4
    OBVIOUS
  <2>4. net_ipaddr_parse(text, NoSockaddr).sa.half =
          IF text.addr \in V6 /\ (text.open => text.close) THEN text.addr[1] ELSE 0
    <3>1. CASE text.open
      BY <3>1 DEF net_ipaddr_parse, parse_ipv6, PortParsed, Parsed, NoSockaddr
    <3>2. CASE ~text.open /\ text.addr \in V6
      BY <3>2, <2>3 DEF net_ipaddr_parse, OneColon, parse_ipv4, parse_ipv6,
                         PortParsed, Parsed, NoSockaddr
    <3>3. CASE ~text.open /\ text.addr \notin V6
      BY <3>3 DEF net_ipaddr_parse, OneColon, parse_ipv4, parse_ipv6,
                         PortParsed, Parsed, NoSockaddr
    <3> QED BY <3>1, <3>2, <3>3
  <2> QED BY <2>1, <2>2, <2>4 DEF Given, sin6_addr, Any6
<1>2. CASE Len(argv[s]) # 2
  <2>1. Len(argv[s]) < 2
    <3>1. argv[s] = <<>> \/ Len(argv[s]) \in {1, 2}
      BY Zenon
    <3>2. Len(<<>>) = 0
      OBVIOUS
    <3>3. Len(argv[s]) \in {0, 1}
      BY <1>2, <3>1, <3>2, Zenon
    <3>4. \A n \in {0, 1} : n < 2
      OBVIOUS
    <3> QED BY <3>3, <3>4, Zenon
  <2>2. zperf_bind_host(argv[s]).addr = NoSockaddr
    BY <2>1 DEF zperf_bind_host
  <2> QED BY <1>2, <2>2 DEF Given, Host, sin6_addr, Any6, NoSockaddr
<1> QED BY <1>1, <1>2

\* The meaning of a request stays the same while the server is up: what it
\* depends on beside the request is an interface that is full of others.
LEMMA MeantStable ==
  ASSUME NEW s \in Server, NEW f \in Family, argv'[s] = argv[s], Full => Full'
  PROVE  Meant(s, f) \subseteq Meant(s, f)'
<1>1. Given(s, f)' = Given(s, f)
  BY DEF Given
<1> QED BY <1>1 DEF Meant, Any, MyIp

\* An interface full of others stays so.
LEMMA FullStable ==
  ASSUME if6 \in Seq(Addrs6), NEW addr \in Addrs6, if6' = IfAdded(addr), Len(if6') <= IP6_ADDRS
  PROVE  /\ Full => Full'
         /\ if6' \in Seq(Addrs6)
         /\ \E n \in DOMAIN if6' : if6'[n] = addr
<1> HIDE DEF Addrs6
<1>1. CASE \E n \in DOMAIN if6 : if6[n] = addr
  BY <1>1 DEF IfAdded, Full
<1>2. CASE ~\E n \in DOMAIN if6 : if6[n] = addr
  <2>1. if6' = Append(if6, addr)
    BY <1>2 DEF IfAdded
  <2>2. Len(if6') = Len(if6) + 1 /\ if6' \in Seq(Addrs6) /\ if6'[Len(if6) + 1] = addr
        /\ Len(if6) \in Nat /\ Len(if6) + 1 \in DOMAIN if6'
    BY <2>1
  <2>3. ~Full
    BY <2>2 DEF Full
  <2> QED BY <2>2, <2>3
<1> QED BY <1>1, <1>2

\* A server that does not move: the other one has not written to the struct it
\* is building its address in, or it is not alone any more.
LEMMA OthersKeep ==
  ASSUME ServersInv, NEW o \in Server, NEW f \in Family,
         at'[o] = at[o], argv'[o] = argv[o], bound'[o] = bound[o],
         o = "tcp" => copy'[f] = copy[f],
         Full => Full',
         alone'[o] => alone[o] /\ (my'[f] = my[f] \/ ~Building(o, f))
  PROVE  Built(o, f)' /\ Owned(o, f)'
<1>1. Built(o, f) /\ Owned(o, f) /\ at[o] \in Statements \X Family
  BY DEF ServersInv, ServersTypes
<1>2. Given(o, f)' = Given(o, f) /\ Port(o)' = Port(o) /\ IsBound(o, f)' = IsBound(o, f)
  BY DEF Given, Port, IsBound, NoBinding, Any
<1>3. Meant(o, f) \subseteq Meant(o, f)'
  BY MeantStable
<1>4. Built(o, f)'
  <2>1. CASE ~alone'[o]
    BY <2>1 DEF Built
  <2>2. CASE alone'[o] /\ my'[f] = my[f]
    BY <1>1, <1>2, <1>3, <2>2 DEF Built, Any, MyIp
  <2>3. CASE alone'[o] /\ ~Building(o, f)
    BY <1>1, <2>3 DEF Built, Building
  <2> QED BY <2>1, <2>2, <2>3
<1>5. Owned(o, f)'
  BY <1>1, <1>2, <1>3 DEF Owned, Idle
<1> QED BY <1>4, <1>5
-----------------------------------------------------------------------------
\* What a request means is an address of its family.
LEMMA GivenType ==
  ASSUME NEW s \in Server, argv[s] \in Argvs \cup {<<>>}
  PROVE  Given(s, "v6") \in Addrs6
  BY GivenV6 DEF Addrs6

\* Nothing is bound at the start.
LEMMA InitServersInv == InitServers => ServersInv
<1> SUFFICES ASSUME InitServers
             PROVE  ServersInv
  OBVIOUS
<1>1. ServersTypes
  <2>1. at \in [Server -> Statements \X Family]
    BY DEF InitServers, Idle, Statements, Family
  <2>2. /\ DOMAIN argv = Server /\ \A s \in Server : argv[s] \in Argvs \cup {<<>>}
        /\ DOMAIN my = Family
        /\ DOMAIN copy = Family
        /\ DOMAIN bound = Server /\ \A s \in Server : DOMAIN bound[s] = Family
        /\ alone \in [Server -> BOOLEAN]
    BY DEF InitServers, Unbound
  <2>3. my["v6"].addr \in Addrs6
    BY DEF InitServers, Family, Any, Addrs6
  <2>4. \A f \in Family : IsAddr(f, my[f])
    BY <2>3 DEF InitServers, IsAddr
  <2>5. if6 \in Seq(Addrs6) /\ Len(if6) <= IP6_ADDRS
    BY DEF InitServers
  <2> QED BY <2>1, <2>2, <2>3, <2>4, <2>5 DEF ServersTypes
<1>2. ASSUME NEW s \in Server, NEW f \in Family
      PROVE  Built(s, f) /\ Owned(s, f)
  <2>1. at[s] = <<"idle", "v4">> /\ bound[s][f] = NoBinding(f)
    BY DEF InitServers, Idle, Unbound
  <2> QED BY <2>1 DEF Built, Owned, IsBound
<1> QED BY <1>1, <1>2 DEF ServersInv

\* There are two servers.
LEMMA OtherServer ==
  ASSUME NEW s \in Server, NEW o \in Server, o # s
  PROVE  Other(s) = o
  BY DEF Other, Server

\* One server moves, and writes to nothing that is shared.
LEMMA OwnStep ==
  ASSUME ServersInv, NEW s \in Server, NEW where \in Statements \X Family,
         at' = [at EXCEPT ![s] = where],
         \A o \in Server : o # s => argv'[o] = argv[o] /\ bound'[o] = bound[o]
                                    /\ (alone'[o] => alone[o]),
         s # "tcp" => \A f \in Family : copy'[f] = copy[f],
         Full => Full',
         my' = my
  PROVE  \A o \in Server, f \in Family : o # s => Built(o, f)' /\ Owned(o, f)'
<1> SUFFICES ASSUME NEW o \in Server, NEW f \in Family, o # s
             PROVE  Built(o, f)' /\ Owned(o, f)'
  OBVIOUS
<1>1. at'[o] = at[o]
  BY DEF ServersInv, ServersTypes
<1>2. o = "tcp" => copy'[f] = copy[f]
  OBVIOUS
<1> QED BY <1>1, <1>2, OthersKeep

\* One server writes to the struct of a family.
LEMMA WriteStep ==
  ASSUME ServersInv, NEW s \in Server, NEW where \in Statements \X Family,
         NEW g \in Family, NEW value,
         at' = [at EXCEPT ![s] = where],
         Writes(s, g, value),
         UNCHANGED <<argv, copy, bound, if6>>
  PROVE  \A o \in Server, f \in Family : o # s => Built(o, f)' /\ Owned(o, f)'
<1> SUFFICES ASSUME NEW o \in Server, NEW f \in Family, o # s
             PROVE  Built(o, f)' /\ Owned(o, f)'
  OBVIOUS
<1>1. at'[o] = at[o] /\ (Full => Full')
  BY DEF ServersInv, ServersTypes, Full
<1>2. alone' = [alone EXCEPT ![o] = alone[o] /\ ~Building(o, g)] /\ my' = [my EXCEPT ![g] = value]
  <2>1. Other(s) = o
    BY OtherServer
  <2> QED BY <2>1 DEF Writes
<1>3. alone'[o] => alone[o] /\ ~Building(o, g)
  BY <1>2 DEF ServersInv, ServersTypes
<1>4. f # g => my'[f] = my[f]
  BY <1>2 DEF ServersInv, ServersTypes
<1> QED BY <1>1, <1>3, <1>4, OthersKeep

\* What a write to the struct keeps, beside what is built there.
LEMMA WriteTypes ==
  ASSUME ServersTypes, NEW s \in Server, NEW where \in Statements \X Family,
         NEW g \in Family, NEW value,
         IsAddr(g, value),
         at' = [at EXCEPT ![s] = where],
         Writes(s, g, value),
         UNCHANGED <<argv, copy, bound, if6>>
  PROVE  ServersTypes' /\ my'[g] = value
<1>1. at' \in [Server -> Statements \X Family]
  BY DEF ServersTypes
<1>2. Other(s) \in Server
  BY DEF Other, Server
<1>3. alone' \in [Server -> BOOLEAN]
  BY <1>2 DEF Writes, ServersTypes
<1>4. my' = [my EXCEPT ![g] = value] /\ DOMAIN my = Family
  BY DEF Writes, ServersTypes
<1>5. DOMAIN my' = Family /\ my'[g] = value /\ \A f \in Family : f # g => my'[f] = my[f]
  BY <1>4
<1>6. \A f \in Family : IsAddr(f, my'[f])
  BY <1>5 DEF ServersTypes
<1> QED BY <1>1, <1>3, <1>5, <1>6 DEF ServersTypes, IsAddr
-----------------------------------------------------------------------------
(***************************************************************************)
(* The steps.  For each: the types, the other server, and the one that     *)
(* moves.                                                                  *)
(***************************************************************************)
LEMMA AcceptStep ==
  ASSUME ServersInv, NEW s \in Server, Accepted(s)
  PROVE  ServersInv'
<1>1. PICK a \in Argvs : argv' = [argv EXCEPT ![s] = a]
  BY DEF Accepted
<1>2. /\ at[s] = Idle /\ at' = [at EXCEPT ![s] = <<"socket", "v4">>]
      /\ UNCHANGED <<my, copy, bound, if6, alone>>
  BY DEF Accepted, Goto
<1>3. <<"socket", "v4">> \in Statements \X Family /\ ServersTypes
  BY DEF Statements, Family, ServersInv
<1>4. ServersTypes'
  <2>1. at' \in [Server -> Statements \X Family] /\ at'[s] = <<"socket", "v4">>
    BY <1>2, <1>3 DEF ServersTypes
  <2>2. DOMAIN argv' = Server /\ \A o \in Server : argv'[o] \in Argvs \cup {<<>>}
    BY <1>1, <1>3 DEF ServersTypes
  <2> QED BY <1>2, <1>3, <2>1, <2>2 DEF ServersTypes
<1>5. \A o \in Server, f \in Family : o # s => Built(o, f)' /\ Owned(o, f)'
  <2>1. \A o \in Server : o # s => argv'[o] = argv[o]
    BY <1>1, <1>3 DEF ServersTypes
  <2>2. Full => Full'
    BY <1>2 DEF Full
  <2> QED BY <1>2, <1>3, <2>1, <2>2, OwnStep
<1>6. ASSUME NEW f \in Family
      PROVE  Built(s, f)' /\ Owned(s, f)'
  <2>1. at'[s] = <<"socket", "v4">>
    BY <1>2, <1>3 DEF ServersTypes
  <2>2. ~IsBound(s, f)
    BY <1>2 DEF ServersInv, Owned
  <2>3. ~IsBound(s, f)'
    BY <1>2, <2>2 DEF IsBound, NoBinding, Any
  <2> QED BY <2>1, <2>3 DEF Built, Owned
<1> QED BY <1>4, <1>5, <1>6 DEF ServersInv

\* A socket is created.
LEMMA SocketStep ==
  ASSUME ServersInv, NEW s \in Server, NEW g \in Family, Socket(s, g)
  PROVE  ServersInv'
<1>1. /\ at' = [at EXCEPT ![s] = <<"addr", g>>]
      /\ UNCHANGED <<argv, my, copy, bound, if6, alone>>
  BY DEF Socket, Goto
<1>2. <<"addr", g>> \in Statements \X Family /\ ServersTypes
  BY DEF Statements, ServersInv
<1>3. at'[s] = <<"addr", g>>
  BY <1>1, <1>2 DEF ServersTypes
<1>4. ServersTypes'
  <2>1. at' \in [Server -> Statements \X Family]
    BY <1>1, <1>2 DEF ServersTypes
  <2> QED BY <1>1, <1>2, <2>1 DEF ServersTypes
<1>5. Full => Full'
  BY <1>1 DEF Full
<1>6. \A o \in Server, f \in Family : o # s => Built(o, f)' /\ Owned(o, f)'
  BY <1>1, <1>2, <1>5, OwnStep
<1>7. ASSUME NEW f \in Family
      PROVE  Built(s, f)' /\ Owned(s, f)'
  <2>1. Owned(s, f)
    BY DEF ServersInv
  <2>2. /\ IsBound(s, f)' = IsBound(s, f) /\ Port(s)' = Port(s) /\ bound'[s][f] = bound[s][f]
        /\ Meant(s, f) \subseteq Meant(s, f)'
    BY <1>1, <1>5, MeantStable DEF IsBound, NoBinding, Any, Port
  <2> QED BY <1>3, <2>1, <2>2 DEF Built, Owned, Idle
<1> QED BY <1>4, <1>6, <1>7 DEF ServersInv

\* The statement behind the one that writes the address.
AfterAddress(s, g, where) ==
  \/ where = <<"port", g>>
  \/ where = <<"iface", g>> /\ g = "v6" /\ Given(s, g) = Any(g)

\* The first write: the address.
LEMMA AddressStep ==
  ASSUME ServersInv, NEW s \in Server, NEW g \in Family,
         NEW addr, addr = IF Given(s, g) # Any(g) THEN Given(s, g) ELSE MyIp(g),
         NEW value, value = [my[g] EXCEPT !.addr = addr],
         Writes(s, g, value),
         NEW where \in Statements \X Family,
         AfterAddress(s, g, where),
         at' = [at EXCEPT ![s] = where],
         UNCHANGED <<argv, copy, bound, if6>>
  PROVE  ServersInv'
<1>1. where \in Statements \X Family /\ ServersTypes
  BY DEF Statements, ServersInv
<1>2. at'[s] = where
  BY <1>1 DEF ServersTypes
<1>3. value.addr = addr /\ value = [addr |-> value.addr, port |-> value.port]
  BY <1>1 DEF ServersTypes, IsAddr
<1>4. IsAddr(g, value)
  BY <1>1, <1>3, GivenType DEF ServersTypes, IsAddr, Addrs6, MyIp
<1>5. ServersTypes' /\ my'[g] = value
  BY <1>1, <1>4, WriteTypes
<1>6. \A o \in Server, f \in Family : o # s => Built(o, f)' /\ Owned(o, f)'
  BY <1>1, WriteStep
<1>7. ASSUME NEW f \in Family
      PROVE  Built(s, f)' /\ Owned(s, f)'
  <2>1. Owned(s, f)
    BY DEF ServersInv
  <2>2. Full => Full'
    BY DEF Full
  <2>3. /\ IsBound(s, f)' = IsBound(s, f) /\ Port(s)' = Port(s) /\ bound'[s][f] = bound[s][f]
        /\ Meant(s, f) \subseteq Meant(s, f)'
    BY <2>2, MeantStable DEF IsBound, NoBinding, Any, Port
  <2>4. Owned(s, f)'
    BY <1>2, <2>1, <2>3 DEF Owned, Idle, AfterAddress
  <2>5. addr \in Meant(s, g)
    BY DEF Meant
  <2>6. Given(s, f)' = Given(s, f) /\ Any(f)' = Any(f) /\ MyIp(f)' = MyIp(f)
    BY DEF Given, Any, MyIp
  <2>7. my'[g].addr = addr
    BY <1>3, <1>5
  <2>8. Built(s, f)'
    BY <1>2, <2>3, <2>5, <2>6, <2>7 DEF Built, AfterAddress
  <2> QED BY <2>4, <2>8
<1> QED BY <1>5, <1>6, <1>7 DEF ServersInv

\* The interface is given the address, or any address is used.
LEMMA InterfaceStep ==
  ASSUME ServersInv, NEW s \in Server, net_if_ipv6_addr_add(s)
  PROVE  ServersInv'
<1> DEFINE addr == my["v6"].addr
           added == IfAdded(addr)
<1>1. /\ at[s] = <<"iface", "v6">> /\ at' = [at EXCEPT ![s] = <<"port", "v6">>]
      /\ UNCHANGED <<argv, copy, bound>>
  BY DEF net_if_ipv6_addr_add, Goto
<1>2. /\ <<"port", "v6">> \in Statements \X Family /\ ServersTypes /\ "v6" \in Family
      /\ if6 \in Seq(Addrs6) /\ addr \in Addrs6
  BY DEF Statements, Family, ServersInv, ServersTypes, IsAddr
<1>3. at'[s] = <<"port", "v6">>
  BY <1>1, <1>2 DEF ServersTypes
<1>4. alone[s] => Given(s, "v6") = Any6 /\ addr = MyIp6
  BY <1>1, <1>2 DEF ServersInv, Built, Any, MyIp
<1>5. Given(s, "v6")' = Given(s, "v6") /\ \A f \in Family : Any(f)' = Any(f) /\ MyIp(f)' = MyIp(f)
  BY <1>1 DEF Given, Any, MyIp
<1>6. ASSUME Full => Full', NEW f \in Family
      PROVE  Owned(s, f)'
  <2>1. Owned(s, f)
    BY DEF ServersInv
  <2>2. /\ IsBound(s, f)' = IsBound(s, f) /\ Port(s)' = Port(s) /\ bound'[s][f] = bound[s][f]
        /\ Meant(s, f) \subseteq Meant(s, f)'
    BY <1>1, <1>6, MeantStable DEF IsBound, NoBinding, Any, Port
  <2> QED BY <1>3, <2>1, <2>2 DEF Owned, Idle
<1>7. CASE Len(added) <= IP6_ADDRS
  <2>1. if6' = added /\ my' = my /\ alone' = alone
    BY <1>7 DEF net_if_ipv6_addr_add
  <2>2. (Full => Full') /\ if6' \in Seq(Addrs6) /\ Len(if6') <= IP6_ADDRS
    BY <1>2, <1>7, <2>1, FullStable
  <2>3. ServersTypes'
    <3>1. at' \in [Server -> Statements \X Family]
      BY <1>1, <1>2 DEF ServersTypes
    <3> QED BY <1>1, <1>2, <2>1, <2>2, <3>1 DEF ServersTypes
  <2>4. \A o \in Server, f \in Family : o # s => Built(o, f)' /\ Owned(o, f)'
    BY <1>1, <1>2, <2>1, <2>2, OwnStep
  <2>5. ASSUME NEW f \in Family
        PROVE  Built(s, f)'
    <3>1. alone'[s] => my'["v6"].addr \in Meant(s, "v6")'
      BY <1>4, <1>5, <2>1 DEF Meant, Any, MyIp
    <3> QED BY <1>3, <3>1 DEF Built
  <2> QED BY <1>6, <2>2, <2>3, <2>4, <2>5 DEF ServersInv
<1>8. CASE ~(Len(added) <= IP6_ADDRS)
  <2> DEFINE value == [my["v6"] EXCEPT !.addr = Any6]
  <2>1. Writes(s, "v6", value) /\ if6' = if6
    BY <1>8 DEF net_if_ipv6_addr_add
  <2>2. value.addr = Any6 /\ value = [addr |-> value.addr, port |-> value.port]
    BY <1>2 DEF ServersTypes, IsAddr
  <2> HIDE DEF value
  <2>3. IsAddr("v6", value)
    BY <2>2 DEF Addrs6, IsAddr
  <2>4. ServersTypes' /\ my'["v6"] = value
    <3> DEFINE where == <<"port", "v6">>
    <3>1. where \in Statements \X Family /\ at' = [at EXCEPT ![s] = where]
      BY <1>1, <1>2
    <3>2. UNCHANGED <<argv, copy, bound, if6>> /\ ServersTypes /\ "v6" \in Family
      BY <1>1, <1>2, <2>1
    <3> HIDE DEF where
    <3> QED BY <2>1, <2>3, <3>1, <3>2, WriteTypes
  <2>5. \A o \in Server, f \in Family : o # s => Built(o, f)' /\ Owned(o, f)'
    BY <1>1, <1>2, <2>1, WriteStep
  <2>6. Full => Full'
    BY <2>1 DEF Full
  <2>7. alone'[s] = alone[s]
    <3>1. Other(s) # s
      BY DEF Other, Server
    <3> QED BY <1>2, <2>1, <3>1 DEF Writes, ServersTypes
  <2>8. alone[s] => Full
    <3>1. added # if6
      BY <1>2, <1>8 DEF ServersTypes
    <3>2. added = Append(if6, addr) /\ ~\E n \in DOMAIN if6 : if6[n] = addr
      BY <3>1 DEF IfAdded
    <3>3. Len(added) = Len(if6) + 1 /\ Len(if6) \in Nat /\ Len(if6) <= IP6_ADDRS
      BY <1>2, <3>2 DEF ServersTypes
    <3>4. Len(if6) = IP6_ADDRS
      <4> HIDE DEF added
      <4> QED BY <1>8, <3>3
    <3> QED BY <1>4, <3>2, <3>4 DEF Full
  <2>9. ASSUME NEW f \in Family
        PROVE  Built(s, f)'
    <3>1. alone'[s] => my'["v6"].addr \in Meant(s, "v6")'
      BY <1>4, <1>5, <2>2, <2>4, <2>6, <2>7, <2>8 DEF Meant, Any
    <3> QED BY <1>3, <3>1 DEF Built
  <2> QED BY <1>6, <2>4, <2>5, <2>6, <2>9 DEF ServersInv
<1> QED BY <1>7, <1>8

\* The second write: the port.
LEMMA PortStep ==
  ASSUME ServersInv, NEW s \in Server, NEW g \in Family, WritePort(s, g)
  PROVE  ServersInv'
<1> DEFINE value == [my[g] EXCEPT !.port = Port(s)]
           next == IF s = "udp" THEN "bind" ELSE "copy"
<1>1. /\ at[s] = <<"port", g>> /\ at' = [at EXCEPT ![s] = <<next, g>>]
      /\ UNCHANGED <<argv, copy, bound, if6>> /\ Writes(s, g, value)
  BY DEF WritePort, Goto
<1>2. <<next, g>> \in Statements \X Family /\ ServersTypes
  BY DEF Statements, ServersInv
<1>3. /\ value.addr = my[g].addr /\ value.port = Port(s)
      /\ value = [addr |-> value.addr, port |-> value.port]
  BY <1>2 DEF ServersTypes, IsAddr
<1> HIDE DEF value
<1>4. IsAddr(g, value)
  BY <1>2, <1>3 DEF ServersTypes, IsAddr
<1>5. ServersTypes' /\ my'[g] = value
  <2> DEFINE where == <<next, g>>
  <2>1. where \in Statements \X Family /\ at' = [at EXCEPT ![s] = where]
    BY <1>1, <1>2
  <2>2. UNCHANGED <<argv, copy, bound, if6>> /\ ServersTypes /\ Writes(s, g, value)
    BY <1>1, <1>2
  <2> HIDE DEF where
  <2> QED BY <1>4, <2>1, <2>2, WriteTypes
<1>6. \A o \in Server, f \in Family : o # s => Built(o, f)' /\ Owned(o, f)'
  BY <1>1, <1>2, WriteStep
<1>7. at'[s] = <<next, g>>
  BY <1>1, <1>2 DEF ServersTypes
<1>8. alone'[s] = alone[s]
  <2>1. Other(s) # s
    BY DEF Other, Server
  <2> QED BY <1>1, <1>2, <2>1 DEF Writes, ServersTypes
<1>9. ASSUME NEW f \in Family
      PROVE  Built(s, f)' /\ Owned(s, f)'
  <2>1. Owned(s, f) /\ Built(s, f)
    BY DEF ServersInv
  <2>2. Full => Full'
    BY <1>1 DEF Full
  <2>3. /\ IsBound(s, f)' = IsBound(s, f) /\ Port(s)' = Port(s) /\ bound'[s][f] = bound[s][f]
        /\ Meant(s, f) \subseteq Meant(s, f)'
    BY <1>1, <2>2, MeantStable DEF IsBound, NoBinding, Any, Port
  <2>4. Owned(s, f)'
    BY <1>7, <2>1, <2>3 DEF Owned, Idle, Server
  <2>5. f = g => my'[f].addr = my[f].addr /\ my'[f].port = Port(s)
    BY <1>3, <1>5
  <2>6. Built(s, f)'
    BY <1>1, <1>7, <1>8, <2>1, <2>3, <2>5 DEF Built
  <2> QED BY <2>4, <2>6
<1> QED BY <1>5, <1>6, <1>9 DEF ServersInv

\* The ways to the address: the host of the request, ...
LEMMA HostStep ==
  ASSUME ServersInv, NEW s \in Server, NEW g \in Family, CopyHost(s, g)
  PROVE  ServersInv'
<1> DEFINE addr == Given(s, g)
           value == [my[g] EXCEPT !.addr = addr]
           where == <<"port", g>>
<1>1. addr = IF Given(s, g) # Any(g) THEN Given(s, g) ELSE MyIp(g)
  BY DEF CopyHost
<1>2. Writes(s, g, value) /\ at' = [at EXCEPT ![s] = where] /\ UNCHANGED <<argv, copy, bound, if6>>
  BY DEF CopyHost, Goto
<1>3. where \in Statements \X Family /\ AfterAddress(s, g, where)
  BY DEF Statements, AfterAddress
<1>4. value = [my[g] EXCEPT !.addr = addr]
  OBVIOUS
<1> HIDE DEF addr, value, where
<1> QED BY <1>1, <1>2, <1>3, <1>4, AddressStep

\* ... and the configured address, for either family.
LEMMA ConfiguredStep ==
  ASSUME ServersInv, NEW s \in Server, zperf_get_ipv4_addr(s) \/ zperf_get_ipv6_addr(s)
  PROVE  ServersInv'
<1> DEFINE g == IF zperf_get_ipv4_addr(s) THEN "v4" ELSE "v6"
           addr == MyIp(g)
           value == [my[g] EXCEPT !.addr = addr]
           where == <<IF g = "v4" THEN "port" ELSE "iface", g>>
<1>1. /\ g \in Family /\ addr = IF Given(s, g) # Any(g) THEN Given(s, g) ELSE MyIp(g)
      /\ Given(s, g) = Any(g)
  BY DEF zperf_get_ipv4_addr, zperf_get_ipv6_addr, Any, Family
<1>2. Writes(s, g, value) /\ at' = [at EXCEPT ![s] = where] /\ UNCHANGED <<argv, copy, bound, if6>>
  BY DEF zperf_get_ipv4_addr, zperf_get_ipv6_addr, Goto, MyIp
<1> HIDE DEF g, addr
<1>3. where \in Statements \X Family /\ AfterAddress(s, g, where)
  BY <1>1 DEF Statements, AfterAddress, Family
<1>4. value = [my[g] EXCEPT !.addr = addr]
  OBVIOUS
<1> HIDE DEF value, where
<1> QED BY <1>1, <1>2, <1>3, <1>4, AddressStep

\* The TCP server takes its copy.
LEMMA CopyStep ==
  ASSUME ServersInv, NEW g \in Family, CopyAddr(g)
  PROVE  ServersInv'
<1> DEFINE taken == [addr |-> my[g].addr, port |-> my[g].port, own |-> alone["tcp"]]
<1>1. /\ at["tcp"] = <<"copy", g>> /\ at' = [at EXCEPT !["tcp"] = <<"bind", g>>]
      /\ copy' = [copy EXCEPT ![g] = taken] /\ alone' = [alone EXCEPT !["tcp"] = TRUE]
      /\ UNCHANGED <<argv, my, bound, if6>>
  BY DEF CopyAddr, Goto
<1>2. <<"bind", g>> \in Statements \X Family /\ ServersTypes /\ "tcp" \in Server
  BY DEF Statements, ServersInv, Server
<1>3. at'["tcp"] = <<"bind", g>> /\ copy'[g] = taken
  BY <1>1, <1>2 DEF ServersTypes
<1>4. ServersTypes'
  <2>1. at' \in [Server -> Statements \X Family] /\ alone' \in [Server -> BOOLEAN]
        /\ DOMAIN copy' = Family
    BY <1>1, <1>2 DEF ServersTypes
  <2> QED BY <1>1, <1>2, <2>1 DEF ServersTypes
<1>5. Full => Full'
  BY <1>1 DEF Full
<1>6. \A o \in Server, f \in Family : o # "tcp" => Built(o, f)' /\ Owned(o, f)'
  <2>1. \A o \in Server : o # "tcp" => alone'[o] = alone[o]
    BY <1>1, <1>2 DEF ServersTypes
  <2> QED BY <1>1, <1>2, <1>5, <2>1, OwnStep
<1>7. ASSUME NEW f \in Family
      PROVE  Built("tcp", f)' /\ Owned("tcp", f)'
  <2>1. Owned("tcp", f) /\ Built("tcp", f)
    BY <1>2 DEF ServersInv
  <2>2. /\ IsBound("tcp", f)' = IsBound("tcp", f) /\ Port("tcp")' = Port("tcp")
        /\ bound'["tcp"][f] = bound["tcp"][f]
        /\ Meant("tcp", f) \subseteq Meant("tcp", f)'
    BY <1>1, <1>2, <1>5, MeantStable DEF IsBound, NoBinding, Any, Port
  <2>3. f = g => (copy'[f].own => my[f].addr \in Meant("tcp", f) /\ my[f].port = Port("tcp"))
                 /\ copy'[f].addr = my[f].addr /\ copy'[f].port = my[f].port
    BY <1>1, <1>3, <2>1 DEF Built
  <2>4. Owned("tcp", f)'
    BY <1>3, <2>1, <2>2, <2>3 DEF Owned, Idle
  <2>5. Built("tcp", f)'
    BY <1>3 DEF Built
  <2> QED BY <2>4, <2>5
<1> QED BY <1>4, <1>6, <1>7 DEF ServersInv

\* A server binds: from the struct (UDP) or from its copy (TCP).
LEMMA BindStep ==
  ASSUME ServersInv, NEW s \in Server, NEW g \in Family, Bind(s, g)
  PROVE  ServersInv'
<1> DEFINE where == IF g = "v4" THEN <<"socket", "v6">> ELSE <<"serve", "v6">>
<1>1. /\ at[s] = <<"bind", g>> /\ at' = [at EXCEPT ![s] = where]
      /\ bound' = [bound EXCEPT ![s][g] = BindAddr(s, g)]
      /\ copy' = [copy EXCEPT ![g] = IF s = "tcp" THEN NoBinding(g) ELSE copy[g]]
      /\ alone' = [alone EXCEPT ![s] = TRUE]
      /\ UNCHANGED <<argv, my, if6>>
  BY DEF Bind, Goto
<1>2. where \in Statements \X Family /\ ServersTypes
  BY DEF Statements, ServersInv, Family
<1>3. at'[s] = where
  BY <1>1, <1>2 DEF ServersTypes
<1>4. /\ bound'[s][g] = BindAddr(s, g)
      /\ \A f \in Family : f # g => bound'[s][f] = bound[s][f]
      /\ \A o \in Server : o # s => bound'[o] = bound[o]
      /\ DOMAIN bound' = Server /\ \A o \in Server : DOMAIN bound'[o] = Family
  BY <1>1, <1>2 DEF ServersTypes
<1>5. ServersTypes'
  <2>1. at' \in [Server -> Statements \X Family] /\ alone' \in [Server -> BOOLEAN]
        /\ DOMAIN copy' = Family
    BY <1>1, <1>2 DEF ServersTypes
  <2> QED BY <1>1, <1>2, <1>4, <2>1 DEF ServersTypes
<1>6. Full => Full'
  BY <1>1 DEF Full
<1>7. s # "tcp" => \A f \in Family : copy'[f] = copy[f]
  BY <1>1, <1>2 DEF ServersTypes
<1> HIDE DEF where
<1>8. \A o \in Server, f \in Family : o # s => Built(o, f)' /\ Owned(o, f)'
  <2>1. \A o \in Server : o # s => alone'[o] = alone[o]
    BY <1>1, <1>2 DEF ServersTypes
  <2> QED BY <1>1, <1>2, <1>4, <1>6, <1>7, <2>1, OwnStep
<1>9. ASSUME NEW f \in Family
      PROVE  Built(s, f)' /\ Owned(s, f)'
  <2>1. Owned(s, f) /\ Built(s, f)
    BY DEF ServersInv
  <2>2. /\ Port(s)' = Port(s)
        /\ Meant(s, f) \subseteq Meant(s, f)'
        /\ NoBinding(f)' = NoBinding(f)
    BY <1>1, <1>6, MeantStable DEF Port, NoBinding, Any
  <2>3. at'[s] = <<"socket", "v6">> \/ at'[s] = <<"serve", "v6">>
    BY <1>3 DEF where
  <2>4. Built(s, f)'
    BY <2>3 DEF Built
  <2>5. CASE f = g
    <3>1. BindAddr(s, f).own =>
            BindAddr(s, f).addr \in Meant(s, f) /\ BindAddr(s, f).port = Port(s)
      BY <1>1, <2>1, <2>5 DEF BindAddr, Built, Owned, Server
    <3>2. bound'[s][f] = BindAddr(s, f)
      BY <1>4, <2>5
    <3> QED BY <2>2, <2>3, <2>4, <3>1, <3>2 DEF Owned, Idle
  <2>6. CASE f # g
    <3>1. bound'[s][f] = bound[s][f]
      BY <1>4, <2>6
    <3>2. IsBound(s, f)' = IsBound(s, f)
      BY <2>2, <3>1 DEF IsBound
    <3> QED BY <2>1, <2>2, <2>3, <2>4, <3>1, <3>2 DEF Owned, Idle
  <2> QED BY <2>5, <2>6
<1> QED BY <1>5, <1>8, <1>9 DEF ServersInv

\* A server ends, from wherever it is.
LEMMA EndStep ==
  ASSUME ServersInv, NEW s \in Server, End(s)
  PROVE  ServersInv'
<1>1. /\ at' = [at EXCEPT ![s] = Idle] /\ bound' = [bound EXCEPT ![s] = Unbound]
      /\ argv' = [argv EXCEPT ![s] = <<>>] /\ copy' = (IF s = "tcp" THEN Unbound ELSE copy)
      /\ alone' = [alone EXCEPT ![s] = TRUE]
      /\ UNCHANGED <<my, if6>>
  BY DEF End
<1>2. Idle \in Statements \X Family /\ ServersTypes
  BY DEF Idle, Statements, ServersInv, Family
<1>3. at'[s] = Idle /\ bound'[s] = Unbound
  BY <1>1, <1>2 DEF ServersTypes
<1>4. ServersTypes'
  <2>1. at' \in [Server -> Statements \X Family] /\ alone' \in [Server -> BOOLEAN]
    BY <1>1, <1>2 DEF ServersTypes
  <2>2. DOMAIN copy' = Family /\ DOMAIN bound' = Server
        /\ \A o \in Server : DOMAIN bound'[o] = Family
    BY <1>1, <1>2 DEF ServersTypes, Unbound
  <2>3. DOMAIN argv' = Server /\ \A o \in Server : argv'[o] \in Argvs \cup {<<>>}
    BY <1>1, <1>2 DEF ServersTypes
  <2> QED BY <1>1, <1>2, <2>1, <2>2, <2>3 DEF ServersTypes
<1>5. Full => Full'
  BY <1>1 DEF Full
<1>6. \A o \in Server, f \in Family : o # s => Built(o, f)' /\ Owned(o, f)'
  <2>1. \A o \in Server : o # s => argv'[o] = argv[o] /\ bound'[o] = bound[o]
                                   /\ alone'[o] = alone[o]
    BY <1>1, <1>2 DEF ServersTypes
  <2> QED BY <1>1, <1>2, <1>5, <2>1, OwnStep
<1>7. ASSUME NEW f \in Family
      PROVE  Built(s, f)' /\ Owned(s, f)'
  <2>1. bound'[s][f] = NoBinding(f)
    BY <1>3 DEF Unbound
  <2>2. ~IsBound(s, f)'
    BY <2>1 DEF IsBound, NoBinding, Any
  <2> QED BY <1>3, <2>2 DEF Built, Owned, Idle
<1> QED BY <1>4, <1>6, <1>7 DEF ServersInv

\* Every step keeps the invariant.
LEMMA NextServersInv == ServersInv /\ [NextServers]_serversVars => ServersInv'
<1> SUFFICES ASSUME ServersInv, [NextServers]_serversVars
             PROVE  ServersInv'
  OBVIOUS
<1>1. CASE UNCHANGED serversVars
  <2>1. UNCHANGED <<at, argv, my, copy, bound, if6, alone>>
    BY <1>1 DEF serversVars
  <2>2. ServersTypes'
    BY <2>1 DEF ServersInv, ServersTypes, IsAddr
  <2>3. Full => Full'
    BY <2>1 DEF Full
  <2>4. ASSUME NEW s \in Server, NEW f \in Family
        PROVE  Built(s, f)' /\ Owned(s, f)'
    BY <2>1, <2>3, OthersKeep
  <2> QED BY <2>2, <2>4 DEF ServersInv
<1>2. CASE NextServers
  BY <1>2, AcceptStep, SocketStep, HostStep, ConfiguredStep, InterfaceStep,
     PortStep, CopyStep, BindStep, EndStep
     DEF NextServers, cmd_udp_download, cmd_tcp_download, Server
<1> QED BY <1>1, <1>2

\* The invariant of the two servers, in every reachable state.
LEMMA AlwaysServers == ServersSpec => []ServersInv
  BY InitServersInv, NextServersInv, PTL DEF ServersSpec

(***************************************************************************)
(* A server that is bound, and whose struct nobody else wrote to while it  *)
(* built its address (udp_server_session, tcp_server_session), is bound to *)
(* the port and the host of its own command, for any hosts and ports: what *)
(* net_ipaddr_parse leaves of the text (GivenV4, GivenV6) is what comes    *)
(* out of the struct at the bind or the copy (Built, Owned).               *)
(***************************************************************************)
THEOREM AlwaysBindsAsAsked == ServersSpec => []BindsWhatWasAsked
<1>1. ASSUME ServersInv
      PROVE  BindsWhatWasAsked
  <2> SUFFICES ASSUME NEW s \in Server, NEW f \in Family, IsBound(s, f), bound[s][f].own
               PROVE  AskedFor(s, f)
    BY DEF BindsWhatWasAsked
  <2> DEFINE addr == bound[s][f].addr
  <2>1. addr \in Meant(s, f) /\ bound[s][f].port = Port(s)
    BY <1>1 DEF ServersInv, Owned
  <2>2. argv[s] \in Argvs \cup {<<>>}
    BY <1>1 DEF ServersInv, ServersTypes
  <2>3. Port(s) = IF argv[s] = <<>> THEN 5001 ELSE argv[s][1] % 65536
    BY DEF Port, zperf_bind_host, DEF_PORT
  <2>4. addr = Given(s, f) \/ (Given(s, f) = Any(f) /\ addr \in {MyIp(f), Any(f)})
    <3>1. f # "v4" => Any(f) = Any6
      BY DEF Any
    <3> HIDE DEF addr
    <3> QED BY <2>1, <3>1 DEF Meant
  <2> DEFINE Fits ==
        CASE f = "v4" /\ Host(s) \in V4 /\ ~Bracketed(s) /\ Host(s) # Any4 -> addr = Host(s)
          [] f = "v6" /\ Host(s) \in V6 /\ (Bracketed(s) => Closed(s)) /\ Host(s)[1] # 0 ->
               addr[1] = Host(s)[1] /\ (Host(s)[2] = 0 => addr = Host(s))
          [] OTHER -> addr \in {MyIp(f), Any(f)}
  <2> HIDE DEF addr
  <2>5. ASSUME f = "v4" PROVE Fits
    <3>1. Given(s, f) = IF Host(s) \in V4 /\ ~Bracketed(s) THEN Host(s) ELSE Any(f)
      BY <2>2, <2>5, GivenV4 DEF Any
    <3>2. Any(f) = Any4
      BY <2>5 DEF Any
    <3>3. CASE Host(s) \in V4 /\ ~Bracketed(s) /\ Host(s) # Any4
      BY <2>4, <2>5, <3>1, <3>2, <3>3, Zenon
    <3>4. CASE ~(Host(s) \in V4 /\ ~Bracketed(s) /\ Host(s) # Any4)
      <4>1. addr \in {MyIp(f), Any(f)}
        BY <2>4, <3>1, <3>2, <3>4
      <4> QED BY <2>5, <3>4, <4>1
    <3> QED BY <3>3, <3>4
  <2>6. ASSUME f = "v6" PROVE Fits
    <3>1. Given(s, f) = IF Host(s) \in V6 /\ (Bracketed(s) => Closed(s))
                          THEN <<Host(s)[1], 0>> ELSE Any(f)
      BY <2>2, <2>6, GivenV6 DEF Any
    <3>2. Any(f) = <<0, 0>>
      BY <2>6 DEF Any, Any6
    <3>3. CASE Host(s) \in V6 /\ (Bracketed(s) => Closed(s)) /\ Host(s)[1] # 0
      <4>1. addr = <<Host(s)[1], 0>>
        BY <2>4, <3>1, <3>2, <3>3
      <4>2. Host(s) = <<Host(s)[1], Host(s)[2]>>
        BY <3>3
      <4>3. addr[1] = Host(s)[1] /\ (Host(s)[2] = 0 => addr = Host(s))
        BY <4>1, <4>2
      <4> QED BY <2>6, <3>3, <4>3
    <3>4. CASE ~(Host(s) \in V6 /\ (Bracketed(s) => Closed(s)) /\ Host(s)[1] # 0)
      <4>1. addr \in {MyIp(f), Any(f)}
        BY <2>4, <3>1, <3>2, <3>4
      <4> QED BY <2>6, <3>4, <4>1
    <3> QED BY <3>3, <3>4
  <2>7. Fits
    BY <2>5, <2>6 DEF Family
  <2>8. bound[s][f].port = IF argv[s] = <<>> THEN 5001 ELSE argv[s][1] % 65536
    BY <2>1, <2>3
  <2> QED BY <2>7, <2>8 DEF addr, AskedFor
<1> QED BY <1>1, AlwaysServers, PTL

(***************************************************************************)
(* An undisturbed server falls back to any address only on an interface    *)
(* that is full of other addresses, whatever its room and however often    *)
(* the servers are started: net_if_ipv6_addr_add does not add an address   *)
(* twice, and an interface full of others stays so.                        *)
(***************************************************************************)
THEOREM AnyAddressOnlyWhenFull == ServersSpec => []AnyOnlyWhenFull
<1>1. ASSUME ServersInv
      PROVE  AnyOnlyWhenFull
  <2> SUFFICES ASSUME NEW s \in Server, NEW f \in Family, IsBound(s, f), bound[s][f].own,
                      bound[s][f].addr = Any(f)
               PROVE  f = "v6" /\ Full
    BY DEF AnyOnlyWhenFull, Full
  <2>1. Any(f) \in Meant(s, f)
    BY <1>1 DEF ServersInv, Owned
  <2>2. MyIp(f) # Any(f)
    BY DEF MyIp, Any, Family
  <2> QED BY <2>1, <2>2 DEF Meant
<1> QED BY <1>1, AlwaysServers, PTL
=============================================================================
