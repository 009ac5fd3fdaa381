---------------------------- MODULE FeeExchange ----------------------------
(***************************************************************************)
(* The core of the mining proxy: the miner sessions (handle_stream) and    *)
(* the two fee tasks (fee_tcp / fee_ssl and develop_fee_ssl), which share  *)
(* one job queue and one bounded channel per fee pool.                     *)
(*                                                                         *)
(* A session sits between one miner and one connection to the main pool.   *)
(* On each job of the main pool it draws a lot and hands the miner either  *)
(* that job or the newest job of a fee pool, remembering the ids of the    *)
(* fee jobs in a list of its own.  A share is routed by looking its job id *)
(* up in those lists: to a fee pool through the bounded channel, otherwise *)
(* to the main pool.  A timer trims the lists and reports the worker.      *)
(*                                                                         *)
(* Each handler of the session's select! loop is one action: nothing it    *)
(* awaits lets another handler of the same session run, and what the other *)
(* tasks can do meanwhile commutes with it, except for the read guard on   *)
(* the job queue, which JobLock models.                                    *)
(***************************************************************************)
EXTENDS WorkerState, Sequences, FiniteSets

CONSTANTS
  Miner,      \* the connecting miners, one session at a time each
  MainJob,    \* ids of the jobs (header hashes) the main pool issues
  FeeJob,     \* ids of the jobs the operator's fee pool issues
  DevJob,     \* ids of the jobs the developer's fee pool issues
  Cap,        \* capacity of the share channels: 15 in the code
  Limit,      \* length a fee-job list may reach before a trim: 1000
  Cut,        \* how many of the oldest ids a trim drops: 750
  Calls,      \* methods the miners call, besides eth_submitWork
  MaxSend,    \* bound: jobs the main pool pushes in one session
  MaxQueue,   \* bound: jobs a fee pool issues
  MaxShare,   \* bound: shares the miners submit
  MaxPipe     \* bound: messages in a direction of a main-pool connection

ASSUME CapacityAssumption == Cap \in Nat \ {0}
ASSUME TrimAssumption     == Limit \in Nat /\ Cut \in 0..Limit
ASSUME CallsAssumption    ==
  Calls \subseteq {"eth_submitLogin", "eth_getWork", "eth_submitHashrate"}
ASSUME BoundAssumption    == /\ MaxSend \in Nat /\ MaxQueue \in Nat
                             /\ MaxShare \in Nat /\ MaxPipe \in Nat

FeePool == {"fee", "dev"}
JobsOf(p) == IF p = "fee" THEN FeeJob ELSE DevJob
Job == MainJob \cup FeeJob \cup DevJob

(* The params of eth_submitWork: the job id, and a nonce that tells the    *)
(* shares apart.                                                           *)
Share == [job : Job, nonce : Nat]

(* What a session sends to the main pool; the ids it stamps on them        *)
(* (CLIENT_LOGIN, CLIENT_SUBMITWORK, ...) come back in the replies.        *)
LoginReq      == [method |-> "eth_submitLogin"]
GetWorkReq    == [method |-> "eth_getWork"]
HashrateReq   == [method |-> "eth_submitHashrate"]
SubmitReq(sh) == [method |-> "eth_submitWork", share |-> sh]
Request == {LoginReq, GetWorkReq, HashrateReq}
             \cup [method : {"eth_submitWork"}, share : Share]

(* What the main pool sends: a job, or a verdict on the request with id.   *)
ReplyId == {"CLIENT_LOGIN", "CLIENT_SUBMITWORK", "CLIENT_SUBHASHRATE"}
Line    == [job : MainJob] \cup [id : ReplyId, result : BOOLEAN]

VARIABLES
  (* one miner session each *)
  open,      \* the session task is running
  lists,     \* fee_job and dev_fee_job: ids handed out, oldest first
  worker,    \* the session's Worker
  reported,  \* the online flag of the Worker last put on worker_tx
  (* the session's connection to the main pool *)
  poolUp,    \* the main pool has not closed the connection
  toPool,    \* requests the main pool has not answered
  fromPool,  \* lines the session has not read
  (* the miner *)
  known,     \* ids of the jobs the miner ever received
  (* the fee tasks *)
  jobQ,      \* Proxy.fee_job and Proxy.develop_job, never popped
  chan,      \* the mpsc channels of shares, tx / rx and dev_tx / dev_rx
  feeUp,     \* the fee pool has not closed the task's connection
  got,       \* shares the fee pool received
  (* the process *)
  alive,     \* try_join! has not returned
  (* history *)
  nonce,     \* shares submitted so far
  handed     \* every fee job the current session handed out, in order

session  == <<open, lists, worker, reported>>
mainPool == <<poolUp, toPool, fromPool>>
feeTask  == <<jobQ, chan, feeUp, got>>
vars == <<session, mainPool, known, feeTask, alive, nonce, handed>>

Elems(s) == {s[i] : i \in 1..Len(s)}
EmptyLists == [p \in FeePool |-> <<>>]
NoName == "none"

Init ==
  /\ open = [m \in Miner |-> FALSE]
  /\ lists = [m \in Miner |-> EmptyLists]
  /\ worker = [m \in Miner |-> Default(NoName)]
  /\ reported = [m \in Miner |-> FALSE]
  /\ poolUp = [m \in Miner |-> FALSE]
  /\ toPool = [m \in Miner |-> <<>>]
  /\ fromPool = [m \in Miner |-> <<>>]
  /\ known = [m \in Miner |-> {}]
  /\ jobQ = [p \in FeePool |-> <<>>]
  /\ chan = [p \in FeePool |-> <<>>]
  /\ feeUp = [p \in FeePool |-> TRUE]
  /\ got = [p \in FeePool |-> <<>>]
  /\ alive = TRUE
  /\ nonce = 0
  /\ handed = [m \in Miner |-> EmptyLists]

-----------------------------------------------------------------------------
(* The life of a session.                                                  *)

(* The locals a session task starts with; they are gone when it ends.      *)
FreshLocals(m) ==
  /\ lists' = [lists EXCEPT ![m] = EmptyLists]
  /\ handed' = [handed EXCEPT ![m] = EmptyLists]
  /\ worker' = [worker EXCEPT ![m] = Default(NoName)]
  /\ toPool' = [toPool EXCEPT ![m] = <<>>]
  /\ fromPool' = [fromPool EXCEPT ![m] = <<>>]

(* The accept loop spawns a task with a fresh Worker, and handle_stream    *)
(* starts with empty lists on a new connection to the main pool.  (When no *)
(* pool is reachable the task ends having changed nothing.)                *)
Accept(m) ==
  /\ alive /\ ~open[m]
  /\ open' = [open EXCEPT ![m] = TRUE]
  /\ poolUp' = [poolUp EXCEPT ![m] = TRUE]
  /\ FreshLocals(m)
  /\ UNCHANGED <<reported, known, feeTask, alive, nonce>>

(* Mutant: the Err arm forgets to report the worker.                       *)
ReportEndForgotten(m) == UNCHANGED reported

(* What the spawned task does when transfer returns, Ok or Err alike: a    *)
(* worker that is online goes offline and is reported; another is not.     *)
ReportEnd(m) ==
  reported' = IF worker[m].online
              THEN [reported EXCEPT ![m] = Offline(worker[m]).online]
              ELSE reported

EndSession(m) ==
  /\ alive /\ open[m]
  /\ open' = [open EXCEPT ![m] = FALSE]
  /\ poolUp' = [poolUp EXCEPT ![m] = FALSE]
  /\ ReportEnd(m)
  /\ FreshLocals(m)
  /\ UNCHANGED <<known, feeTask, alive, nonce>>

(* The miner closes, a read or a write on its socket fails, or it sends a  *)
(* request with no handler: the session returns.                           *)
MinerGone(m) == EndSession(m)

(* The main pool closed: once its lines are read the next read is an error *)
(* and the session returns.  A write may fail before that.                 *)
PoolGone(m) == ~poolUp[m] /\ EndSession(m)

-----------------------------------------------------------------------------
(* Requests of the miner, the first branch of the select!.                 *)

SendToPool(m, req) ==
  /\ Len(toPool[m]) < MaxPipe
  /\ toPool' = [toPool EXCEPT ![m] = Append(@, req)]
  /\ UNCHANGED <<poolUp, fromPool>>

Submitting(m, j) ==
  /\ alive /\ open[m]
  /\ j \in known[m] /\ nonce < MaxShare
  /\ nonce' = nonce + 1

(* The reply `true` is written to the miner at once; the pool's own answer *)
(* only decides the moment the worker counts as logged in.                 *)
SubmitLogin(m) ==
  /\ alive /\ open[m] /\ "eth_submitLogin" \in Calls
  /\ worker' = [worker EXCEPT ![m] = Login(@, m)]
  /\ SendToPool(m, LoginReq)
  /\ UNCHANGED <<open, lists, reported, known, feeTask, alive, nonce, handed>>

(* Mutant: a channel that takes one share too many.                        *)
TrySendOverfull(p, sh) ==
  chan' = IF Len(chan[p]) <= Cap THEN [chan EXCEPT ![p] = Append(@, sh)] ELSE chan

(* try_send: a share that finds the channel full is dropped.               *)
TrySend(p, sh) ==
  chan' = IF Len(chan[p]) < Cap THEN [chan EXCEPT ![p] = Append(@, sh)] ELSE chan

(* Mutant: one list for the jobs of both fee pools.                        *)
SubmitDevWorkEitherList(m, j) ==
  /\ Submitting(m, j)
  /\ j \in Elems(lists[m]["dev"]) \cup Elems(lists[m]["fee"])
  /\ TrySend("dev", [job |-> j, nonce |-> nonce])
  /\ UNCHANGED <<session, mainPool, known, jobQ, feeUp, got, alive, handed>>

(* The developer's list is looked at first, and leaves no counter behind.  *)
SubmitDevWork(m, j) ==
  /\ Submitting(m, j)
  /\ j \in Elems(lists[m]["dev"])
  /\ TrySend("dev", [job |-> j, nonce |-> nonce])
  /\ UNCHANGED <<session, mainPool, known, jobQ, feeUp, got, alive, handed>>

(* Both fee counters move before try_send and whatever it returns.         *)
SubmitFeeWork(m, j) ==
  /\ Submitting(m, j)
  /\ j \in Elems(lists[m]["fee"]) \ Elems(lists[m]["dev"])
  /\ worker' = [worker EXCEPT ![m] = FeeShareAccept(FeeShareIndexAdd(@))]
  /\ TrySend("fee", [job |-> j, nonce |-> nonce])
  /\ UNCHANGED <<open, lists, reported, mainPool, known, jobQ, feeUp, got, alive, handed>>

(* Every other share goes to the main pool, as CLIENT_SUBMITWORK.          *)
SubmitMainWork(m, j) ==
  /\ Submitting(m, j)
  /\ j \notin Elems(lists[m]["dev"]) \cup Elems(lists[m]["fee"])
  /\ worker' = [worker EXCEPT ![m] = ShareIndexAdd(@)]
  /\ SendToPool(m, SubmitReq([job |-> j, nonce |-> nonce]))
  /\ UNCHANGED <<open, lists, reported, known, feeTask, alive, handed>>

(* eth_getWork and mining.subscribe are forwarded, and so is a hash rate.  *)
Forward(m, req) ==
  /\ alive /\ open[m] /\ req.method \in Calls
  /\ SendToPool(m, req)
  /\ UNCHANGED <<session, known, feeTask, alive, nonce, handed>>
GetWork(m)        == Forward(m, GetWorkReq)
SubmitHashrate(m) == Forward(m, HashrateReq)

-----------------------------------------------------------------------------
(* Lines of the main pool, the second branch.                              *)

ReadLine(m) ==
  /\ alive /\ open[m] /\ fromPool[m] # <<>>
  /\ fromPool' = [fromPool EXCEPT ![m] = Tail(@)]
  /\ UNCHANGED <<poolUp, toPool>>

ReadJob(m) ==
  /\ ReadLine(m) /\ "job" \in DOMAIN Head(fromPool[m])
  /\ worker[m].total_send_idx < MaxSend

(* fee.back() of the VecDeque, when there is one.                          *)
Newest(p) == jobQ[p][Len(jobQ[p])]

CountHandOut(w, p) == IF p = "dev" THEN SendDevelopJob(w) ELSE SendFeeJob(w)

(* A fee round: the lot fell on p and p has issued a job.  The miner gets  *)
(* the newest one instead of the main pool's, which is dropped.            *)
HandOutFeeJob(m, p) ==
  /\ ReadJob(m) /\ jobQ[p] # <<>>
  /\ worker' = [worker EXCEPT ![m] = CountHandOut(SendJob(@), p)]
  /\ lists' = [lists EXCEPT ![m][p] = Append(@, Newest(p))]
  /\ handed' = [handed EXCEPT ![m][p] = Append(@, Newest(p))]
  /\ known' = [known EXCEPT ![m] = @ \cup {Newest(p)}]
  /\ UNCHANGED <<open, reported, feeTask, alive, nonce>>

(* No fee round, or one whose pool has issued nothing yet.                 *)
ForwardJob(m) ==
  /\ ReadJob(m)
  /\ worker' = [worker EXCEPT ![m] = SendJob(@)]
  /\ known' = [known EXCEPT ![m] = @ \cup {Head(fromPool[m]).job}]
  /\ UNCHANGED <<open, lists, reported, feeTask, alive, nonce, handed>>

(* Mutant: the last else-if is missing, rejected shares are not counted.   *)
ApplyReplyNoReject(w, line) ==
  IF line.id = "CLIENT_LOGIN" THEN Logind(w)
  ELSE IF line.id = "CLIENT_SUBMITWORK" /\ line.result THEN ShareAccept(w)
  ELSE w

(* The verdict is matched to a request by its id alone.                    *)
ApplyReply(w, line) ==
  IF line.id = "CLIENT_LOGIN" THEN Logind(w)
  ELSE IF line.id = "CLIENT_SUBMITWORK" /\ line.result THEN ShareAccept(w)
  ELSE IF line.id = "CLIENT_SUBMITWORK" THEN ShareReject(w)
  ELSE w

ReadReply(m) ==
  /\ ReadLine(m) /\ "id" \in DOMAIN Head(fromPool[m])
  /\ worker' = [worker EXCEPT ![m] = ApplyReply(@, Head(fromPool[m]))]
  /\ UNCHANGED <<open, lists, reported, known, feeTask, alive, nonce, handed>>

-----------------------------------------------------------------------------
(* The timer of the session, the third branch.                             *)

(* Mutant: the trim keeps what truncate(750) would.                        *)
TrimNewest(l) == IF Len(l) > Limit THEN SubSeq(l, 1, Cut) ELSE l

(* dev_fee_job.drain(750..) keeps what follows the 750 oldest ids.         *)
Trim(l) == IF Len(l) > Limit THEN SubSeq(l, Cut + 1, Len(l)) ELSE l

Timer(m) ==
  /\ alive /\ open[m]
  /\ lists' = [lists EXCEPT ![m] = [p \in FeePool |-> Trim(@[p])]]
  /\ reported' = [reported EXCEPT ![m] = worker[m].online]
  /\ UNCHANGED <<open, worker, mainPool, known, feeTask, alive, nonce, handed>>

-----------------------------------------------------------------------------
(* The main pool, as a session sees it.                                    *)

PoolSends(m, line) ==
  /\ alive /\ poolUp[m] /\ Len(fromPool[m]) < MaxPipe
  /\ fromPool' = [fromPool EXCEPT ![m] = Append(@, line)]
  /\ UNCHANGED <<session, poolUp, known, feeTask, alive, nonce, handed>>

PoolPushJob(m, j) == PoolSends(m, [job |-> j]) /\ UNCHANGED toPool

(* It answers the requests of a connection in their order.                 *)
AnswerTo(req) ==
  CASE req.method = "eth_getWork"        -> [job : MainJob]
    [] req.method = "eth_submitLogin"    -> [id : {"CLIENT_LOGIN"}, result : BOOLEAN]
    [] req.method = "eth_submitWork"     -> [id : {"CLIENT_SUBMITWORK"}, result : BOOLEAN]
    [] req.method = "eth_submitHashrate" -> [id : {"CLIENT_SUBHASHRATE"}, result : {TRUE}]

PoolAnswer(m) ==
  /\ toPool[m] # <<>>
  /\ \E line \in AnswerTo(Head(toPool[m])) : PoolSends(m, line)
  /\ toPool' = [toPool EXCEPT ![m] = Tail(@)]

PoolClose(m) ==
  /\ alive /\ poolUp[m]
  /\ poolUp' = [poolUp EXCEPT ![m] = FALSE]
  /\ UNCHANGED <<session, toPool, fromPool, known, feeTask, alive, nonce, handed>>

-----------------------------------------------------------------------------
(* The task of fee pool p.                                                 *)

(* A job arrives: push_back under the write lock.  A pool that is asked    *)
(* again for work (the task does so every ten seconds) repeats its job.    *)
FeeJobArrives(p, j) ==
  /\ alive /\ feeUp[p] /\ Len(jobQ[p]) < MaxQueue
  /\ jobQ' = [jobQ EXCEPT ![p] = Append(@, j)]
  /\ UNCHANGED <<session, mainPool, known, chan, feeUp, got, alive, nonce, handed>>

TakeShare(p) ==
  /\ alive /\ chan[p] # <<>>
  /\ chan' = [chan EXCEPT ![p] = Tail(@)]
  /\ UNCHANGED <<session, mainPool, known, jobQ, feeUp, nonce, handed>>

(* Mutant: a share leaves the channel some time after it was written.      *)
ForwardShareKept(p) ==
  /\ alive /\ chan[p] # <<>> /\ feeUp[p]
  /\ got' = [got EXCEPT ![p] = Append(@, Head(chan[p]))]
  /\ chan' \in {chan, [chan EXCEPT ![p] = Tail(@)]}
  /\ UNCHANGED <<session, mainPool, known, jobQ, feeUp, alive, nonce, handed>>

(* rx.recv(), then one write to the pool.                                  *)
ForwardShare(p) ==
  /\ TakeShare(p) /\ feeUp[p]
  /\ got' = [got EXCEPT ![p] = Append(@, Head(chan[p]))]
  /\ UNCHANGED alive

(* The pool has closed but the task has not read the end of stream yet: a  *)
(* first write may vanish in the socket, a later one returns an error that *)
(* `?` carries out of try_join!, ending the process.                       *)
ForwardShareLost(p)  == TakeShare(p) /\ ~feeUp[p] /\ UNCHANGED <<got, alive>>
ForwardShareFails(p) == TakeShare(p) /\ ~feeUp[p] /\ alive' = FALSE /\ UNCHANGED got

FeePoolClose(p) ==
  /\ alive /\ feeUp[p]
  /\ feeUp' = [feeUp EXCEPT ![p] = FALSE]
  /\ UNCHANGED <<session, mainPool, known, jobQ, chan, got, alive, nonce, handed>>

(* The end of stream: the task logs in again and keeps its channel and its *)
(* queue; or the login fails, or the timer's eth_getWork fails on the dead *)
(* connection before that, and the process ends.                           *)
Relogin(p) ==
  /\ alive /\ ~feeUp[p]
  /\ feeUp' = [feeUp EXCEPT ![p] = TRUE]
  /\ UNCHANGED <<session, mainPool, known, jobQ, chan, got, alive, nonce, handed>>

ReloginFails(p) ==
  /\ alive /\ ~feeUp[p]
  /\ alive' = FALSE
  /\ UNCHANGED <<session, mainPool, known, feeTask, nonce, handed>>

-----------------------------------------------------------------------------
SessionStep(m) ==
  \/ Accept(m) \/ MinerGone(m) \/ PoolGone(m)
  \/ SubmitLogin(m) \/ GetWork(m) \/ SubmitHashrate(m)
  \/ \E j \in Job : SubmitDevWork(m, j) \/ SubmitFeeWork(m, j) \/ SubmitMainWork(m, j)
  \/ ForwardJob(m) \/ ReadReply(m) \/ Timer(m)
  \/ \E p \in FeePool : HandOutFeeJob(m, p)

PoolStep(m) ==
  \/ PoolAnswer(m) \/ PoolClose(m)
  \/ \E j \in MainJob : PoolPushJob(m, j)

FeeTaskStep(p) ==
  \/ \E j \in JobsOf(p) : FeeJobArrives(p, j)
  \/ ForwardShare(p) \/ ForwardShareLost(p) \/ ForwardShareFails(p)
  \/ FeePoolClose(p) \/ Relogin(p) \/ ReloginFails(p)

Next ==
  \/ \E m \in Miner : SessionStep(m) \/ PoolStep(m)
  \/ \E p \in FeePool : FeeTaskStep(p)

Spec == Init /\ [][Next]_vars

-----------------------------------------------------------------------------
(* Every variable stays in its type, and no channel outgrows its capacity. *)
SessionTypeOK ==
  /\ open \in [Miner -> BOOLEAN]
  /\ reported \in [Miner -> BOOLEAN]
  /\ worker \in [Miner -> Worker(Miner \cup {NoName})]
  /\ known \in [Miner -> SUBSET Job]
ListTypeOK ==
  /\ lists \in [Miner -> [FeePool -> Seq(Job)]]
  /\ handed \in [Miner -> [FeePool -> Seq(Job)]]
PipeTypeOK ==
  /\ poolUp \in [Miner -> BOOLEAN]
  /\ toPool \in [Miner -> Seq(Request)]
  /\ fromPool \in [Miner -> Seq(Line)]
FeeTaskTypeOK ==
  /\ jobQ \in [FeePool -> Seq(Job)]
  /\ chan \in [FeePool -> Seq(Share)]
  /\ \A p \in FeePool : Len(chan[p]) <= Cap
  /\ feeUp \in [FeePool -> BOOLEAN]
  /\ got \in [FeePool -> Seq(Share)]
  /\ alive \in BOOLEAN
  /\ nonce \in Nat
TypeOK == SessionTypeOK /\ ListTypeOK /\ PipeTypeOK /\ FeeTaskTypeOK

(* How many of the newest ids survive any number of trims: a trim happens  *)
(* above Limit ids and drops Cut of them.                                  *)
Kept == Limit + 1 - Cut

(* What the routing of submitted shares rests on: a session's list is the  *)
(* tail of what the session handed out, complete or at least Kept long.    *)
TailOf(l, h) ==
  /\ Len(l) <= Len(h)
  /\ \A i \in 1..Len(l) : l[i] = h[i + (Len(h) - Len(l))]
  /\ Len(l) = Len(h) \/ Len(l) >= Kept
ListsAreTails ==
  \A m \in Miner, p \in FeePool : TailOf(lists[m][p], handed[m][p])

(* The ids of the Kept fee jobs of p that m was handed last.               *)
Recent(m, p) ==
  {handed[m][p][i] : i \in {k \in 1..Len(handed[m][p]) : k + Kept > Len(handed[m][p])}}

(* The proxy never pays its own main account with work it owes to a fee    *)
(* pool: a submit forwarded to the main pool is never for one of the jobs  *)
(* of a fee pool that this session handed out recently, whatever trims the *)
(* timer made in between (handle_stream.rs:124-144, 285-291).              *)
NewSubmit(m, j) ==
  \E n \in 0..MaxShare : toPool'[m] = Append(toPool[m], SubmitReq([job |-> j, nonce |-> n]))
NoRecentFeeShareToMain ==
  [][\A m \in Miner, p \in FeePool : \A j \in Recent(m, p) : ~NewSubmit(m, j)]_vars

(* A fee pool is only ever sent, and only ever has queued for it, shares   *)
(* of jobs it issued itself: no share of the miner's own pool and none of  *)
(* the other fee pool is diverted to it, even when pools issue equal ids.  *)
FeeSharesAreEarned ==
  \A p \in FeePool :
    \A sh \in Elems(chan[p]) \cup Elems(got[p]) : sh.job \in Elems(jobQ[p])

(* Shares reach a fee pool in the order they were submitted, none twice,   *)
(* across full channels, lost connections and new logins.                  *)
Increasing(s) == \A i, k \in 1..Len(s) : i < k => s[i].nonce < s[k].nonce
FeeSharesInOrder == \A p \in FeePool : Increasing(got[p] \o chan[p])

(* Shares of m the main pool still owes an answer the session has read.    *)
Undecided(m) ==
    Cardinality({i \in 1..Len(toPool[m]) : toPool[m][i].method = "eth_submitWork"})
  + Cardinality({i \in 1..Len(fromPool[m]) :
                   "id" \in DOMAIN fromPool[m][i] /\ fromPool[m][i].id = "CLIENT_SUBMITWORK"})

(* No share counted for the main pool goes astray: it is accepted, it is   *)
(* rejected, or the pool's verdict on it is still on its way, also when a  *)
(* login reply zeroed the counters while shares were in flight.            *)
NoMainShareAstray ==
  \A m \in Miner :
    worker[m].share_index <= worker[m].accept_index + worker[m].invalid_index + Undecided(m)

(* A worker whose session is over is not left online at the parent: the    *)
(* last report of every session that ever reported it online is offline.   *)
NoOnlineReportAfterEnd == \A m \in Miner : reported[m] => open[m]
=============================================================================
