------------------------- MODULE FeeExchangeProofs -------------------------
(* Theorems about FeeExchange, for any miners, jobs, capacities and bounds,  *)
(* and, at the end, about the draw that FeeExchange leaves open (FeeMath).   *)
EXTENDS FeeExchange, FeeMath, SequenceTheorems, FiniteSetTheorems, TLAPS

(* The methods of Worker return a Worker. *)
LEMMA WorkerOps ==
  ASSUME NEW Name, NEW w \in Worker(Name), NEW name \in Name
  PROVE  /\ Default(name) \in Worker(Name)
         /\ Login(w, name) \in Worker(Name)
         /\ Logind(w) \in Worker(Name)
         /\ SendJob(w) \in Worker(Name)
         /\ SendDevelopJob(w) \in Worker(Name)
         /\ SendFeeJob(w) \in Worker(Name)
         /\ ShareIndexAdd(w) \in Worker(Name)
         /\ ShareAccept(w) \in Worker(Name)
         /\ ShareReject(w) \in Worker(Name)
         /\ FeeShareIndexAdd(w) \in Worker(Name)
         /\ FeeShareAccept(w) \in Worker(Name)
<1>1. Default(name) \in Worker(Name)
  BY DEF Worker, Default
<1>2. Login(w, name) \in Worker(Name)
  BY DEF Worker, Login
<1>3. Logind(w) \in Worker(Name)
  BY DEF Worker, Logind, ClearState
<1>4. SendJob(w) \in Worker(Name)
  BY DEF Worker, SendJob
<1>5. SendDevelopJob(w) \in Worker(Name)
  BY DEF Worker, SendDevelopJob
<1>6. SendFeeJob(w) \in Worker(Name)
  BY DEF Worker, SendFeeJob
<1>7. ShareIndexAdd(w) \in Worker(Name)
  BY DEF Worker, ShareIndexAdd
<1>8. ShareAccept(w) \in Worker(Name)
  BY DEF Worker, ShareAccept
<1>9. ShareReject(w) \in Worker(Name)
  BY DEF Worker, ShareReject
<1>10. FeeShareIndexAdd(w) \in Worker(Name)
  BY DEF Worker, FeeShareIndexAdd
<1>11. FeeShareAccept(w) \in Worker(Name)
  BY DEF Worker, FeeShareAccept
<1> QED
  BY <1>1, <1>2, <1>3, <1>4, <1>5, <1>6, <1>7, <1>8, <1>9, <1>10, <1>11

(* A trim returns a list of job ids. *)
LEMMA TrimType ==
  ASSUME NEW l \in Seq(Job)
  PROVE  Trim(l) \in Seq(Job)
<1>1. Cut + 1 \in Nat \ {0}
  BY TrimAssumption
<1>2. CASE Len(l) > Limit
  BY <1>1, <1>2, SubSeqProperties, TrimAssumption DEF Trim
<1>3. CASE ~(Len(l) > Limit)
  BY <1>3 DEF Trim
<1> QED BY <1>2, <1>3

(* The initial state is well typed. *)
LEMMA InitType == Init => TypeOK
<1> SUFFICES ASSUME Init PROVE TypeOK
  OBVIOUS
<1>1. Default(NoName) \in Worker(Miner \cup {NoName})
  BY DEF Default, Worker
<1>2. EmptyLists \in [FeePool -> Seq(Job)]
  BY DEF EmptyLists
<1> QED BY <1>1, <1>2, CapacityAssumption
  DEF Init, TypeOK, SessionTypeOK, ListTypeOK, PipeTypeOK, FeeTaskTypeOK

(* The messages the actions build are messages. *)
LEMMA MessageTypes ==
  /\ LoginReq \in Request /\ GetWorkReq \in Request /\ HashrateReq \in Request
  /\ \A sh \in Share : SubmitReq(sh) \in Request
  /\ \A j \in MainJob : [job |-> j] \in Line
  /\ \A req \in Request : AnswerTo(req) \subseteq Line
<1>1. /\ LoginReq \in Request /\ GetWorkReq \in Request /\ HashrateReq \in Request
      /\ \A sh \in Share : SubmitReq(sh) \in Request
  BY DEF Request, SubmitReq
<1>2. \A j \in MainJob : [job |-> j] \in Line
  BY DEF Line
<1>3. ASSUME NEW req \in Request PROVE AnswerTo(req) \subseteq Line
  <2>1. CASE req.method = "eth_getWork"
    BY <2>1 DEF AnswerTo, Line
  <2>2. CASE req.method = "eth_submitLogin"
    BY <2>2 DEF AnswerTo, Line, ReplyId
  <2>3. CASE req.method = "eth_submitWork"
    BY <2>3 DEF AnswerTo, Line, ReplyId
  <2>4. CASE req.method = "eth_submitHashrate"
    BY <2>4 DEF AnswerTo, Line, ReplyId
  <2>5. req.method \in {"eth_getWork", "eth_submitLogin", "eth_submitWork", "eth_submitHashrate"}
    BY DEF Request, LoginReq, GetWorkReq, HashrateReq
  <2> QED BY <2>1, <2>2, <2>3, <2>4, <2>5
<1> QED BY <1>1, <1>2, <1>3

(* A step of a session keeps every variable in its type. *)
LEMMA SessionType ==
  ASSUME TypeOK, NEW m \in Miner, SessionStep(m)
  PROVE  TypeOK'
<1> DEFINE W == Worker(Miner \cup {NoName})
<1>a. EmptyLists \in [FeePool -> Seq(Job)] /\ Default(NoName) \in W
  BY DEF EmptyLists, Default, Worker
<1>b. worker[m] \in W /\ m \in Miner \cup {NoName}
  BY DEF TypeOK, SessionTypeOK
<1>c. \A j \in Job : [job |-> j, nonce |-> nonce] \in Share
  BY DEF Share, TypeOK, FeeTaskTypeOK
<1>d. ASSUME NEW p \in FeePool, NEW sh \in Share, TrySend(p, sh)
      PROVE  chan' \in [FeePool -> Seq(Share)] /\ \A q \in FeePool : Len(chan'[q]) <= Cap
  BY <1>d, CapacityAssumption DEF TrySend, TypeOK, FeeTaskTypeOK
<1>1. CASE Accept(m)
  <2>1. SessionTypeOK'
    BY <1>1, <1>a DEF TypeOK, SessionTypeOK, Accept, FreshLocals
  <2>2. ListTypeOK'
    BY <1>1, <1>a DEF TypeOK, ListTypeOK, Accept, FreshLocals
  <2>3. PipeTypeOK'
    BY <1>1 DEF TypeOK, PipeTypeOK, Accept, FreshLocals
  <2>4. FeeTaskTypeOK'
    BY <1>1 DEF TypeOK, FeeTaskTypeOK, Accept, FreshLocals, feeTask
  <2> QED BY <2>1, <2>2, <2>3, <2>4 DEF TypeOK
<1>2. CASE EndSession(m)
  <2>1. SessionTypeOK'
    BY <1>2, <1>a, <1>b DEF TypeOK, SessionTypeOK, EndSession, FreshLocals, ReportEnd, Offline, Worker
  <2>2. ListTypeOK'
    BY <1>2, <1>a DEF TypeOK, ListTypeOK, EndSession, FreshLocals
  <2>3. PipeTypeOK'
    BY <1>2 DEF TypeOK, PipeTypeOK, EndSession, FreshLocals
  <2>4. FeeTaskTypeOK'
    BY <1>2 DEF TypeOK, FeeTaskTypeOK, EndSession, FreshLocals, feeTask
  <2> QED BY <2>1, <2>2, <2>3, <2>4 DEF TypeOK
<1>3. CASE SubmitLogin(m)
  <2>w. Login(worker[m], m) \in W
    BY <1>b, WorkerOps
  <2>1. SessionTypeOK'
    BY <1>3, <2>w DEF TypeOK, SessionTypeOK, SubmitLogin
  <2>2. ListTypeOK'
    BY <1>3 DEF TypeOK, ListTypeOK, SubmitLogin
  <2>3. PipeTypeOK'
    BY <1>3, MessageTypes DEF TypeOK, PipeTypeOK, SubmitLogin, SendToPool
  <2>4. FeeTaskTypeOK'
    BY <1>3 DEF TypeOK, FeeTaskTypeOK, SubmitLogin, feeTask
  <2> QED BY <2>1, <2>2, <2>3, <2>4 DEF TypeOK
<1>4. ASSUME NEW req \in {GetWorkReq, HashrateReq}, Forward(m, req) PROVE TypeOK'
  <2>1. SessionTypeOK'
    BY <1>4 DEF TypeOK, SessionTypeOK, Forward, session
  <2>2. ListTypeOK'
    BY <1>4 DEF TypeOK, ListTypeOK, Forward, session
  <2>3. PipeTypeOK'
    BY <1>4, MessageTypes DEF TypeOK, PipeTypeOK, Forward, SendToPool
  <2>4. FeeTaskTypeOK'
    BY <1>4 DEF TypeOK, FeeTaskTypeOK, Forward, feeTask
  <2> QED BY <2>1, <2>2, <2>3, <2>4 DEF TypeOK
<1>5. ASSUME NEW j \in Job, SubmitDevWork(m, j) PROVE TypeOK'
  <2>1. SessionTypeOK'
    BY <1>5 DEF TypeOK, SessionTypeOK, SubmitDevWork, session
  <2>2. ListTypeOK'
    BY <1>5 DEF TypeOK, ListTypeOK, SubmitDevWork, session
  <2>3. PipeTypeOK'
    BY <1>5 DEF TypeOK, PipeTypeOK, SubmitDevWork, mainPool
  <2>4. FeeTaskTypeOK'
    BY <1>5, <1>c, <1>d DEF TypeOK, FeeTaskTypeOK, SubmitDevWork, Submitting, FeePool
  <2> QED BY <2>1, <2>2, <2>3, <2>4 DEF TypeOK
<1>6. ASSUME NEW j \in Job, SubmitFeeWork(m, j) PROVE TypeOK'
  <2>w. FeeShareAccept(FeeShareIndexAdd(worker[m])) \in W
    BY <1>b, WorkerOps
  <2>1. SessionTypeOK'
    BY <1>6, <2>w DEF TypeOK, SessionTypeOK, SubmitFeeWork
  <2>2. ListTypeOK'
    BY <1>6 DEF TypeOK, ListTypeOK, SubmitFeeWork
  <2>3. PipeTypeOK'
    BY <1>6 DEF TypeOK, PipeTypeOK, SubmitFeeWork, mainPool
  <2>4. FeeTaskTypeOK'
    BY <1>6, <1>c, <1>d DEF TypeOK, FeeTaskTypeOK, SubmitFeeWork, Submitting, FeePool
  <2> QED BY <2>1, <2>2, <2>3, <2>4 DEF TypeOK
<1>7. ASSUME NEW j \in Job, SubmitMainWork(m, j) PROVE TypeOK'
  <2>w. ShareIndexAdd(worker[m]) \in W
    BY <1>b, WorkerOps
  <2>1. SessionTypeOK'
    BY <1>7, <2>w DEF TypeOK, SessionTypeOK, SubmitMainWork
  <2>2. ListTypeOK'
    BY <1>7 DEF TypeOK, ListTypeOK, SubmitMainWork
  <2>3. PipeTypeOK'
    BY <1>7, <1>c, MessageTypes DEF TypeOK, PipeTypeOK, SubmitMainWork, SendToPool
  <2>4. FeeTaskTypeOK'
    BY <1>7 DEF TypeOK, FeeTaskTypeOK, SubmitMainWork, feeTask, Submitting
  <2> QED BY <2>1, <2>2, <2>3, <2>4 DEF TypeOK
<1>8. CASE ForwardJob(m)
  <2>w. SendJob(worker[m]) \in W
    BY <1>b, WorkerOps
  <2>j. Head(fromPool[m]).job \in Job
    <3>1. Head(fromPool[m]) \in Line /\ "job" \in DOMAIN Head(fromPool[m])
      BY <1>8 DEF ForwardJob, ReadJob, ReadLine, TypeOK, PipeTypeOK
    <3>2. Head(fromPool[m]) \in [job : MainJob]
      BY <3>1 DEF Line
    <3> QED BY <3>2 DEF Job
  <2>1. SessionTypeOK'
    BY <1>8, <2>w, <2>j DEF TypeOK, SessionTypeOK, ForwardJob, ReadJob, ReadLine
  <2>2. ListTypeOK'
    BY <1>8 DEF TypeOK, ListTypeOK, ForwardJob, ReadJob, ReadLine
  <2>3. PipeTypeOK'
    BY <1>8 DEF TypeOK, PipeTypeOK, ForwardJob, ReadJob, ReadLine
  <2>4. FeeTaskTypeOK'
    BY <1>8 DEF TypeOK, FeeTaskTypeOK, ForwardJob, ReadJob, ReadLine, feeTask
  <2> QED BY <2>1, <2>2, <2>3, <2>4 DEF TypeOK
<1>9. CASE ReadReply(m)
  <2>w. ApplyReply(worker[m], Head(fromPool[m])) \in W
    BY <1>b, WorkerOps DEF ApplyReply
  <2>1. SessionTypeOK'
    BY <1>9, <2>w DEF TypeOK, SessionTypeOK, ReadReply, ReadLine
  <2>2. ListTypeOK'
    BY <1>9 DEF TypeOK, ListTypeOK, ReadReply, ReadLine
  <2>3. PipeTypeOK'
    BY <1>9 DEF TypeOK, PipeTypeOK, ReadReply, ReadLine
  <2>4. FeeTaskTypeOK'
    BY <1>9 DEF TypeOK, FeeTaskTypeOK, ReadReply, ReadLine, feeTask
  <2> QED BY <2>1, <2>2, <2>3, <2>4 DEF TypeOK
<1>10. CASE Timer(m)
  <2>1. SessionTypeOK'
    BY <1>10, <1>b DEF TypeOK, SessionTypeOK, Timer, Worker
  <2>2. ListTypeOK'
    BY <1>10, TrimType DEF TypeOK, ListTypeOK, Timer
  <2>3. PipeTypeOK'
    BY <1>10 DEF TypeOK, PipeTypeOK, Timer, mainPool
  <2>4. FeeTaskTypeOK'
    BY <1>10 DEF TypeOK, FeeTaskTypeOK, Timer, feeTask
  <2> QED BY <2>1, <2>2, <2>3, <2>4 DEF TypeOK
<1>11. ASSUME NEW p \in FeePool, HandOutFeeJob(m, p) PROVE TypeOK'
  <2>w. CountHandOut(SendJob(worker[m]), p) \in W
    BY <1>b, WorkerOps DEF CountHandOut
  <2>j. Newest(p) \in Job
    BY <1>11 DEF HandOutFeeJob, Newest, TypeOK, FeeTaskTypeOK
  <2>1. SessionTypeOK'
    BY <1>11, <2>w, <2>j DEF TypeOK, SessionTypeOK, HandOutFeeJob, ReadJob, ReadLine
  <2>2. ListTypeOK'
    BY <1>11, <2>j DEF TypeOK, ListTypeOK, HandOutFeeJob, ReadJob, ReadLine
  <2>3. PipeTypeOK'
    BY <1>11 DEF TypeOK, PipeTypeOK, HandOutFeeJob, ReadJob, ReadLine
  <2>4. FeeTaskTypeOK'
    BY <1>11 DEF TypeOK, FeeTaskTypeOK, HandOutFeeJob, ReadJob, ReadLine, feeTask
  <2> QED BY <2>1, <2>2, <2>3, <2>4 DEF TypeOK
<1> QED
  BY <1>1, <1>2, <1>3, <1>4, <1>5, <1>6, <1>7, <1>8, <1>9, <1>10, <1>11
  DEF SessionStep, MinerGone, PoolGone, GetWork, SubmitHashrate

(* A step of the main pool keeps every variable in its type. *)
LEMMA PoolType ==
  ASSUME TypeOK, NEW m \in Miner, PoolStep(m)
  PROVE  TypeOK'
<1>1. ASSUME NEW line \in Line, PoolSends(m, line), toPool' \in [Miner -> Seq(Request)]
      PROVE  TypeOK'
  <2>1. PipeTypeOK'
    BY <1>1 DEF PoolSends, TypeOK, PipeTypeOK
  <2>2. SessionTypeOK' /\ ListTypeOK' /\ FeeTaskTypeOK'
    BY <1>1 DEF PoolSends, session, feeTask, TypeOK, SessionTypeOK, ListTypeOK, FeeTaskTypeOK
  <2> QED BY <2>1, <2>2 DEF TypeOK
<1>2. CASE PoolAnswer(m)
  <2>1. Head(toPool[m]) \in Request
    BY <1>2 DEF PoolAnswer, TypeOK, PipeTypeOK
  <2>2. toPool' \in [Miner -> Seq(Request)]
    BY <1>2 DEF PoolAnswer, TypeOK, PipeTypeOK
  <2> QED BY <1>1, <1>2, <2>1, <2>2, MessageTypes DEF PoolAnswer
<1>3. CASE PoolClose(m)
  BY <1>3 DEF PoolClose, session, feeTask, TypeOK, SessionTypeOK, ListTypeOK, PipeTypeOK,
              FeeTaskTypeOK
<1>4. ASSUME NEW j \in MainJob, PoolPushJob(m, j) PROVE TypeOK'
  BY <1>1, <1>4, MessageTypes DEF PoolPushJob, TypeOK, PipeTypeOK
<1> QED BY <1>2, <1>3, <1>4 DEF PoolStep

(* A step of a fee task keeps every variable in its type. *)
LEMMA FeeTaskType ==
  ASSUME TypeOK, NEW p \in FeePool, FeeTaskStep(p)
  PROVE  TypeOK'
<1>1. SessionTypeOK' /\ ListTypeOK' /\ PipeTypeOK'
  BY DEF FeeTaskStep, FeeJobArrives, ForwardShare, ForwardShareLost, ForwardShareFails, TakeShare,
         FeePoolClose, Relogin, ReloginFails, session, mainPool,
         TypeOK, SessionTypeOK, ListTypeOK, PipeTypeOK
<1>2. CASE TakeShare(p) /\ (got' = got \/ got' = [got EXCEPT ![p] = Append(@, Head(chan[p]))])
           /\ (alive' = alive \/ alive' = FALSE)
  <2>1. Head(chan[p]) \in Share /\ Tail(chan[p]) \in Seq(Share) /\ Len(Tail(chan[p])) <= Cap
    <3>1. chan[p] \in Seq(Share) /\ chan[p] # <<>> /\ Len(chan[p]) <= Cap
      BY <1>2 DEF TakeShare, TypeOK, FeeTaskTypeOK
    <3> QED BY <3>1, HeadTailProperties, LenProperties, CapacityAssumption
  <2>2. chan' \in [FeePool -> Seq(Share)] /\ \A q \in FeePool : Len(chan'[q]) <= Cap
    BY <1>2, <2>1 DEF TakeShare, TypeOK, FeeTaskTypeOK
  <2>3. got' \in [FeePool -> Seq(Share)]
    <3>1. got \in [FeePool -> Seq(Share)]
      BY DEF TypeOK, FeeTaskTypeOK
    <3>2. CASE got' = [got EXCEPT ![p] = Append(@, Head(chan[p]))]
      BY <2>1, <3>1, <3>2, AppendProperties
    <3> QED BY <1>2, <3>1, <3>2
  <2>4. alive' \in BOOLEAN
    BY <1>2 DEF TypeOK, FeeTaskTypeOK
  <2> QED BY <1>1, <1>2, <2>2, <2>3, <2>4 DEF TakeShare, TypeOK, FeeTaskTypeOK
<1>3. ASSUME NEW j \in JobsOf(p), FeeJobArrives(p, j) PROVE TypeOK'
  BY <1>1, <1>3 DEF FeeJobArrives, JobsOf, Job, TypeOK, FeeTaskTypeOK
<1>4. CASE FeePoolClose(p) \/ Relogin(p) \/ ReloginFails(p)
  BY <1>1, <1>4 DEF FeePoolClose, Relogin, ReloginFails, feeTask, TypeOK, FeeTaskTypeOK
<1> QED
  BY <1>2, <1>3, <1>4 DEF FeeTaskStep, ForwardShare, ForwardShareLost, ForwardShareFails

(* Every variable stays in its type in every run of the proxy: in          *)
(* particular no share channel ever holds more than Cap shares.            *)
THEOREM TypeCorrect == Spec => []TypeOK
<1>1. TypeOK /\ [Next]_vars => TypeOK'
  <2> SUFFICES ASSUME TypeOK, [Next]_vars PROVE TypeOK'
    OBVIOUS
  <2>1. CASE UNCHANGED vars
    BY <2>1 DEF vars, session, mainPool, feeTask, TypeOK, SessionTypeOK, ListTypeOK, PipeTypeOK,
                FeeTaskTypeOK
  <2>2. CASE Next
    BY <2>2, SessionType, PoolType, FeeTaskType DEF Next
  <2> QED BY <2>1, <2>2
<1> QED BY InitType, <1>1, PTL DEF Spec

-----------------------------------------------------------------------------
(* The lists of fee jobs.                                                  *)

(* A trim leaves a tail of the history, at least Kept long. *)
LEMMA TrimTail ==
  ASSUME NEW l \in Seq(Job), NEW h \in Seq(Job), TailOf(l, h)
  PROVE  TailOf(Trim(l), h)
<1>1. CASE Len(l) > Limit
  <2> DEFINE t == SubSeq(l, Cut + 1, Len(l))
  <2>1. Trim(l) = t
    BY <1>1 DEF Trim
  <2>2. Len(t) = Len(l) - Cut /\ \A i \in 1..Len(t) : t[i] = l[i + Cut]
    BY <1>1, SubSeqProperties, TrimAssumption, LenProperties
  <2>3. Len(h) \in Nat /\ Len(l) \in Nat
    BY LenProperties
  <2> HIDE DEF t
  <2>4. Limit \in Nat /\ Cut \in Nat /\ Cut <= Limit
    BY TrimAssumption
  <2>5. Len(t) <= Len(h) /\ Len(t) >= Kept
    BY <1>1, <2>2, <2>3, <2>4 DEF TailOf, Kept
  <2>6. ASSUME NEW i \in 1..Len(t) PROVE t[i] = h[i + (Len(h) - Len(t))]
    <3>1. i + Cut \in 1..Len(l)
      BY <2>2, <2>3, <2>4
    <3>2. t[i] = h[(i + Cut) + (Len(h) - Len(l))]
      BY <2>2, <3>1 DEF TailOf
    <3>3. (i + Cut) + (Len(h) - Len(l)) = i + (Len(h) - Len(t))
      BY <2>2, <2>3, <2>4
    <3> QED BY <3>2, <3>3
  <2> QED BY <2>1, <2>5, <2>6 DEF TailOf
<1>2. CASE ~(Len(l) > Limit)
  BY <1>2 DEF Trim
<1> QED BY <1>1, <1>2

(* Handing out one more job keeps the list a tail of the history. *)
LEMMA AppendTail ==
  ASSUME NEW l \in Seq(Job), NEW h \in Seq(Job), TailOf(l, h), NEW x \in Job
  PROVE  TailOf(Append(l, x), Append(h, x))
<1>1. /\ Len(h) \in Nat /\ Len(l) \in Nat
      /\ Len(Append(l, x)) = Len(l) + 1 /\ Len(Append(h, x)) = Len(h) + 1
      /\ \A i \in 1..Len(l) : Append(l, x)[i] = l[i]
      /\ \A i \in 1..Len(h) : Append(h, x)[i] = h[i]
      /\ Append(l, x)[Len(l) + 1] = x /\ Append(h, x)[Len(h) + 1] = x
  BY AppendProperties, LenProperties
<1>2. Kept \in Int
  BY TrimAssumption DEF Kept
<1> DEFINE la == Append(l, x)
           ha == Append(h, x)
<1> HIDE DEF la, ha
<1>3. ASSUME NEW i \in 1..Len(la) PROVE la[i] = ha[i + (Len(ha) - Len(la))]
  <2>1. CASE i = Len(l) + 1
    BY <1>1, <2>1 DEF la, ha
  <2>2. CASE i \in 1..Len(l)
    BY <1>1, <2>2 DEF la, ha, TailOf
  <2> QED BY <1>1, <2>1, <2>2 DEF la
<1>4. Len(la) = Len(l) + 1 /\ Len(ha) = Len(h) + 1
  BY <1>1 DEF la, ha
<1>5. TailOf(la, ha)
  BY <1>1, <1>2, <1>3, <1>4 DEF TailOf
<1> QED BY <1>5 DEF la, ha

(* The newest Kept entries of the history are in the list. *)
LEMMA RecentListed ==
  ASSUME TypeOK, ListsAreTails, NEW m \in Miner, NEW p \in FeePool, NEW j \in Recent(m, p)
  PROVE  j \in Elems(lists[m][p])
<1> DEFINE l == lists[m][p]
           h == handed[m][p]
<1>1. l \in Seq(Job) /\ h \in Seq(Job) /\ TailOf(l, h)
  BY DEF TypeOK, ListTypeOK, ListsAreTails
<1>2. Len(l) \in Nat /\ Len(h) \in Nat /\ Kept \in Int
  BY <1>1, LenProperties, TrimAssumption DEF Kept
<1>3. PICK i \in 1..Len(h) : i + Kept > Len(h) /\ j = h[i]
  BY DEF Recent
<1> HIDE DEF l, h
<1>4. i - (Len(h) - Len(l)) \in 1..Len(l)
  BY <1>1, <1>2, <1>3 DEF TailOf
<1>5. l[i - (Len(h) - Len(l))] = h[i]
  <2>1. (i - (Len(h) - Len(l))) + (Len(h) - Len(l)) = i
    BY <1>2
  <2> QED BY <1>1, <1>4, <2>1 DEF TailOf
<1> QED BY <1>3, <1>4, <1>5 DEF Elems, l

(* A step keeps every list a tail of its history. *)
LEMMA TailsStep ==
  ASSUME TypeOK, ListsAreTails, [Next]_vars
  PROVE  ListsAreTails'
<1>0. ASSUME UNCHANGED <<lists, handed>> PROVE ListsAreTails'
  BY <1>0 DEF ListsAreTails
<1>1. ASSUME NEW m \in Miner, FreshLocals(m) PROVE ListsAreTails'
  <2>1. ASSUME NEW p \in FeePool PROVE TailOf(EmptyLists[p], EmptyLists[p])
    BY DEF EmptyLists, TailOf
  <2> QED BY <1>1, <2>1 DEF FreshLocals, ListsAreTails, TypeOK, ListTypeOK
<1>2. ASSUME NEW m \in Miner, Timer(m) PROVE ListsAreTails'
  <2>1. handed' = handed /\ lists' = [lists EXCEPT ![m] = [p \in FeePool |-> Trim(lists[m][p])]]
    BY <1>2 DEF Timer
  <2>2. ASSUME NEW n \in Miner, NEW p \in FeePool PROVE TailOf(lists'[n][p], handed'[n][p])
    <3>1. lists[n][p] \in Seq(Job) /\ handed[n][p] \in Seq(Job) /\ TailOf(lists[n][p], handed[n][p])
      BY DEF TypeOK, ListTypeOK, ListsAreTails
    <3>2. lists'[n][p] = IF n = m THEN Trim(lists[m][p]) ELSE lists[n][p]
      BY <2>1 DEF TypeOK, ListTypeOK
    <3> QED BY <2>1, <3>1, <3>2, TrimTail
  <2> QED BY <2>2 DEF ListsAreTails
<1>3. ASSUME NEW m \in Miner, NEW p \in FeePool, HandOutFeeJob(m, p) PROVE ListsAreTails'
  <2>1. Newest(p) \in Job
    BY <1>3 DEF HandOutFeeJob, Newest, TypeOK, FeeTaskTypeOK
  <2>2. ASSUME NEW n \in Miner, NEW q \in FeePool PROVE TailOf(lists'[n][q], handed'[n][q])
    <3>1. lists[n][q] \in Seq(Job) /\ handed[n][q] \in Seq(Job) /\ TailOf(lists[n][q], handed[n][q])
      BY DEF TypeOK, ListTypeOK, ListsAreTails
    <3>2. /\ lists'[n][q] = IF n = m /\ q = p THEN Append(lists[n][q], Newest(p)) ELSE lists[n][q]
          /\ handed'[n][q] = IF n = m /\ q = p THEN Append(handed[n][q], Newest(p)) ELSE handed[n][q]
      BY <1>3 DEF HandOutFeeJob, TypeOK, ListTypeOK
    <3> QED BY <2>1, <3>1, <3>2, AppendTail
  <2> QED BY <2>2 DEF ListsAreTails
<1>4. ASSUME NEW m \in Miner, SessionStep(m) PROVE ListsAreTails'
  BY <1>0, <1>1, <1>2, <1>3, <1>4
  DEF SessionStep, Accept, MinerGone, PoolGone, EndSession, SubmitLogin, GetWork, SubmitHashrate,
      Forward, SubmitDevWork, SubmitFeeWork, SubmitMainWork, ForwardJob, ReadReply, session
<1>5. ASSUME NEW m \in Miner, PoolStep(m) PROVE ListsAreTails'
  BY <1>0, <1>5 DEF PoolStep, PoolAnswer, PoolClose, PoolPushJob, PoolSends, session
<1>6. ASSUME NEW p \in FeePool, FeeTaskStep(p) PROVE ListsAreTails'
  BY <1>0, <1>6 DEF FeeTaskStep, FeeJobArrives, ForwardShare, ForwardShareLost, ForwardShareFails,
                    TakeShare, FeePoolClose, Relogin, ReloginFails, session
<1>7. CASE UNCHANGED vars
  BY <1>0, <1>7 DEF vars, session
<1> QED BY <1>4, <1>5, <1>6, <1>7 DEF Next

(* The list of every session stays a tail of the fee jobs the session      *)
(* handed out, complete or at least Kept = Limit + 1 - Cut (251) ids long. *)
THEOREM Tails == Spec => []ListsAreTails
<1>1. Init => ListsAreTails
  BY DEF Init, ListsAreTails, EmptyLists, TailOf
<1> QED BY <1>1, TailsStep, TypeCorrect, PTL DEF Spec

(* Only a share of a job that is in no list of the session is appended to  *)
(* the requests to the main pool. *)
LEMMA NewSubmitIsUnlisted ==
  ASSUME TypeOK, Next, NEW m \in Miner, NEW j \in Job, NewSubmit(m, j)
  PROVE  \A p \in FeePool : j \notin Elems(lists[m][p])
<1>0. PICK n \in 0..MaxShare : toPool'[m] = Append(toPool[m], SubmitReq([job |-> j, nonce |-> n]))
  BY DEF NewSubmit
<1> DEFINE req == SubmitReq([job |-> j, nonce |-> n])
<1>1. toPool \in [Miner -> Seq(Request)] /\ toPool[m] \in Seq(Request)
  BY DEF TypeOK, PipeTypeOK
<1>2. req \in Request
  BY MessageTypes, BoundAssumption DEF Share
<1> HIDE DEF req
<1>3. /\ toPool'[m] = Append(toPool[m], req) /\ Len(toPool'[m]) = Len(toPool[m]) + 1
      /\ toPool'[m][Len(toPool[m]) + 1] = req
  BY <1>0, <1>1, <1>2, AppendProperties DEF req
<1>4. toPool'[m] # toPool[m] /\ toPool'[m] # <<>>
  <2>1. Len(toPool[m]) \in Nat /\ Len(toPool'[m]) = Len(toPool[m]) + 1
    BY <1>1, <1>3, LenProperties
  <2>2. Len(toPool'[m]) # 0 /\ Len(toPool'[m]) # Len(toPool[m])
    BY <2>1
  <2> QED BY <2>2
<1>5. ASSUME NEW k \in Miner, FreshLocals(k) PROVE FALSE
  BY <1>1, <1>4, <1>5 DEF FreshLocals
<1>6. ASSUME NEW k \in Miner, NEW r \in {LoginReq, GetWorkReq, HashrateReq}, SendToPool(k, r)
      PROVE  FALSE
  <2>1. toPool' = [toPool EXCEPT ![k] = Append(@, r)]
    BY <1>6 DEF SendToPool
  <2>2. k = m /\ toPool'[m] = Append(toPool[m], r)
    BY <1>1, <1>4, <2>1
  <2>3. r \in Request
    BY MessageTypes
  <2>4. r = req
    BY <1>1, <1>3, <2>2, <2>3, AppendProperties
  <2> QED BY <2>4 DEF req, SubmitReq, LoginReq, GetWorkReq, HashrateReq
<1>7. ASSUME NEW k \in Miner, NEW i \in Job, SubmitMainWork(k, i)
      PROVE  \A p \in FeePool : j \notin Elems(lists[m][p])
  <2> DEFINE r == SubmitReq([job |-> i, nonce |-> nonce])
  <2>1. k = m /\ toPool'[m] = Append(toPool[m], r)
    BY <1>1, <1>4, <1>7 DEF SubmitMainWork, SendToPool
  <2>2. r \in Request
    BY MessageTypes DEF Share, TypeOK, FeeTaskTypeOK
  <2> HIDE DEF r
  <2>3. r = req
    BY <1>1, <1>3, <2>1, <2>2, AppendProperties
  <2>4. i = j
    BY <2>3 DEF r, req, SubmitReq
  <2> QED BY <1>7, <2>1, <2>4 DEF SubmitMainWork, FeePool
<1>8. ASSUME NEW k \in Miner, PoolAnswer(k) PROVE FALSE
  <2>1. k = m /\ toPool'[m] = Tail(toPool[m]) /\ toPool[m] # <<>>
    BY <1>1, <1>4, <1>8 DEF PoolAnswer
  <2> QED BY <1>1, <1>3, <2>1, HeadTailProperties, LenProperties
<1>9. ASSUME UNCHANGED toPool PROVE FALSE
  BY <1>4, <1>9
<1>10. ASSUME NEW k \in Miner, SessionStep(k)
       PROVE  \A p \in FeePool : j \notin Elems(lists[m][p])
  BY <1>5, <1>6, <1>7, <1>9, <1>10
  DEF SessionStep, Accept, MinerGone, PoolGone, EndSession, SubmitLogin, GetWork, SubmitHashrate,
      Forward, SubmitDevWork, SubmitFeeWork, ForwardJob, HandOutFeeJob, ReadJob, ReadReply, ReadLine,
      Timer, mainPool
<1>11. ASSUME NEW k \in Miner, PoolStep(k) PROVE FALSE
  BY <1>8, <1>9, <1>11 DEF PoolStep, PoolClose, PoolPushJob
<1>12. ASSUME NEW p \in FeePool, FeeTaskStep(p) PROVE FALSE
  BY <1>9, <1>12
  DEF FeeTaskStep, FeeJobArrives, ForwardShare, ForwardShareLost, ForwardShareFails, TakeShare,
      FeePoolClose, Relogin, ReloginFails, mainPool
<1> QED BY <1>10, <1>11, <1>12 DEF Next

(* No share of a fee job handed out recently is sent to the main pool.     *)
THEOREM RecentFeeSharesStay == Spec => NoRecentFeeShareToMain
<1> DEFINE Safe == \A m \in Miner, p \in FeePool : \A j \in Recent(m, p) : ~NewSubmit(m, j)
<1>1. TypeOK /\ ListsAreTails /\ [Next]_vars => [Safe]_vars
  <2> SUFFICES ASSUME TypeOK, ListsAreTails, Next,
                      NEW m \in Miner, NEW p \in FeePool, NEW j \in Recent(m, p), NewSubmit(m, j)
               PROVE  FALSE
    OBVIOUS
  <2>1. j \in Job
    BY DEF Recent, TypeOK, ListTypeOK
  <2> QED BY <2>1, RecentListed, NewSubmitIsUnlisted
<1> QED BY <1>1, TypeCorrect, Tails, PTL DEF Spec, NoRecentFeeShareToMain

-----------------------------------------------------------------------------
(* The shares of the fee pools.                                            *)

(* The elements of the sequences the actions build. *)
LEMMA ElemsFacts ==
  ASSUME NEW S, NEW s \in Seq(S)
  PROVE  /\ \A x \in S : Elems(Append(s, x)) = Elems(s) \cup {x}
         /\ s # <<>> => Head(s) \in Elems(s) /\ Elems(Tail(s)) \subseteq Elems(s)
         /\ s # <<>> => s[Len(s)] \in Elems(s)
         /\ \A k \in Nat \ {0} : Elems(SubSeq(s, k, Len(s))) \subseteq Elems(s)
<1>0. Len(s) \in Nat
  BY LenProperties
<1>1. ASSUME NEW x \in S PROVE Elems(Append(s, x)) = Elems(s) \cup {x}
  <2>1. /\ Len(Append(s, x)) = Len(s) + 1 /\ Append(s, x)[Len(s) + 1] = x
        /\ \A i \in 1..Len(s) : Append(s, x)[i] = s[i]
    BY AppendProperties
  <2>2. 1..Len(s) + 1 = 1..Len(s) \cup {Len(s) + 1}
    BY <1>0
  <2> QED BY <2>1, <2>2 DEF Elems
<1>2. ASSUME s # <<>> PROVE Head(s) \in Elems(s) /\ Elems(Tail(s)) \subseteq Elems(s)
  <2>1. Len(s) # 0 /\ Head(s) = s[1]
    BY <1>2, LenProperties
  <2>2. Len(Tail(s)) = Len(s) - 1 /\ \A i \in 1..Len(Tail(s)) : Tail(s)[i] = s[i + 1]
    BY <1>2, HeadTailProperties
  <2>3. \A i \in 1..Len(Tail(s)) : i + 1 \in 1..Len(s)
    BY <1>0, <2>2
  <2> QED BY <1>0, <2>1, <2>2, <2>3 DEF Elems
<1>3. s # <<>> => s[Len(s)] \in Elems(s)
  BY LenProperties, EmptySeq DEF Elems
<1>4. ASSUME NEW k \in Nat \ {0} PROVE Elems(SubSeq(s, k, Len(s))) \subseteq Elems(s)
  <2> DEFINE t == SubSeq(s, k, Len(s))
  <2>1. /\ Len(t) = IF k <= Len(s) THEN Len(s) - k + 1 ELSE 0
        /\ \A i \in 1..Len(t) : t[i] = s[k + i - 1]
    BY <1>0, SubSeqProperties
  <2> HIDE DEF t
  <2>2. \A i \in 1..Len(t) : k + i - 1 \in 1..Len(s)
    BY <1>0, <2>1
  <2>3. Elems(t) \subseteq Elems(s)
    BY <2>1, <2>2 DEF Elems
  <2> QED BY <2>3 DEF t
<1> QED BY <1>1, <1>2, <1>3, <1>4

(* Every id in a list of fee jobs is of a job its pool issued.             *)
ListsAreEarned ==
  \A m \in Miner, p \in FeePool : Elems(lists[m][p]) \subseteq Elems(jobQ[p])
EarnedInv == ListsAreEarned /\ FeeSharesAreEarned

(* A step keeps the ids in a fee pool's lists ids of that pool. *)
LEMMA ListsEarnedStep ==
  ASSUME TypeOK, ListsAreEarned, [Next]_vars
  PROVE  ListsAreEarned'
<1>0. ASSUME UNCHANGED <<lists, jobQ>> PROVE ListsAreEarned'
  BY <1>0 DEF ListsAreEarned
<1>1. ASSUME NEW m \in Miner, FreshLocals(m), UNCHANGED jobQ PROVE ListsAreEarned'
  <2>1. ASSUME NEW p \in FeePool PROVE Elems(EmptyLists[p]) = {}
    BY DEF EmptyLists, Elems
  <2> QED BY <1>1, <2>1 DEF FreshLocals, ListsAreEarned, TypeOK, ListTypeOK
<1>2. ASSUME NEW m \in Miner, Timer(m) PROVE ListsAreEarned'
  <2>1. jobQ' = jobQ /\ lists' = [lists EXCEPT ![m] = [p \in FeePool |-> Trim(lists[m][p])]]
    BY <1>2 DEF Timer, feeTask
  <2>2. ASSUME NEW p \in FeePool PROVE Elems(Trim(lists[m][p])) \subseteq Elems(lists[m][p])
    <3>1. lists[m][p] \in Seq(Job) /\ Cut + 1 \in Nat \ {0}
      BY TrimAssumption DEF TypeOK, ListTypeOK
    <3> QED BY <3>1, ElemsFacts DEF Trim
  <2> QED BY <2>1, <2>2 DEF ListsAreEarned, TypeOK, ListTypeOK
<1>3. ASSUME NEW m \in Miner, NEW p \in FeePool, HandOutFeeJob(m, p) PROVE ListsAreEarned'
  <2>1. Newest(p) \in Job /\ Newest(p) \in Elems(jobQ[p])
    BY <1>3, ElemsFacts DEF HandOutFeeJob, Newest, TypeOK, FeeTaskTypeOK
  <2>2. Elems(Append(lists[m][p], Newest(p))) = Elems(lists[m][p]) \cup {Newest(p)}
    BY <2>1, ElemsFacts DEF TypeOK, ListTypeOK
  <2>3. jobQ' = jobQ /\ lists' = [lists EXCEPT ![m][p] = Append(@, Newest(p))]
    BY <1>3 DEF HandOutFeeJob, feeTask
  <2>4. ASSUME NEW n \in Miner, NEW q \in FeePool
        PROVE  lists'[n][q] = IF n = m /\ q = p THEN Append(lists[m][p], Newest(p)) ELSE lists[n][q]
    BY <2>3 DEF TypeOK, ListTypeOK
  <2> QED BY <2>1, <2>2, <2>3, <2>4 DEF ListsAreEarned
<1>4. ASSUME NEW p \in FeePool, NEW j \in JobsOf(p), FeeJobArrives(p, j) PROVE ListsAreEarned'
  <2>0. j \in Job
    BY DEF JobsOf, Job
  <2>1. Elems(Append(jobQ[p], j)) = Elems(jobQ[p]) \cup {j}
    BY <2>0, ElemsFacts DEF TypeOK, FeeTaskTypeOK
  <2>2. \A q \in FeePool : Elems(jobQ[q]) \subseteq Elems(jobQ'[q])
    BY <1>4, <2>1 DEF FeeJobArrives, TypeOK, FeeTaskTypeOK
  <2> QED BY <1>4, <2>2 DEF FeeJobArrives, session, ListsAreEarned
<1>5. ASSUME NEW m \in Miner, SessionStep(m) PROVE ListsAreEarned'
  BY <1>0, <1>1, <1>2, <1>3, <1>5
  DEF SessionStep, Accept, MinerGone, PoolGone, EndSession, SubmitLogin, GetWork, SubmitHashrate,
      Forward, SubmitDevWork, SubmitFeeWork, SubmitMainWork, ForwardJob, ReadReply, session, feeTask
<1>6. ASSUME NEW m \in Miner, PoolStep(m) PROVE ListsAreEarned'
  BY <1>0, <1>6 DEF PoolStep, PoolAnswer, PoolClose, PoolPushJob, PoolSends, session, feeTask
<1>7. ASSUME NEW p \in FeePool, FeeTaskStep(p) PROVE ListsAreEarned'
  BY <1>0, <1>4, <1>7 DEF FeeTaskStep, ForwardShare, ForwardShareLost, ForwardShareFails,
                          TakeShare, FeePoolClose, Relogin, ReloginFails, session, feeTask
<1>8. CASE UNCHANGED vars
  BY <1>0, <1>8 DEF vars, session, feeTask
<1> QED BY <1>5, <1>6, <1>7, <1>8 DEF Next

(* A step keeps the shares of a fee pool shares of its own jobs. *)
LEMMA EarnedStep ==
  ASSUME TypeOK, EarnedInv, [Next]_vars
  PROVE  FeeSharesAreEarned'
<1> USE DEF EarnedInv
<1>t. /\ chan \in [FeePool -> Seq(Share)] /\ got \in [FeePool -> Seq(Share)]
      /\ jobQ \in [FeePool -> Seq(Job)]
  BY DEF TypeOK, FeeTaskTypeOK
<1>0. ASSUME UNCHANGED <<chan, got, jobQ>> PROVE FeeSharesAreEarned'
  BY <1>0 DEF FeeSharesAreEarned
<1>1. ASSUME NEW p \in FeePool, NEW sh \in Share, TrySend(p, sh), sh.job \in Elems(jobQ[p]),
             UNCHANGED <<got, jobQ>>
      PROVE  FeeSharesAreEarned'
  <2>1. Elems(Append(chan[p], sh)) = Elems(chan[p]) \cup {sh}
    BY <1>t, ElemsFacts
  <2> QED BY <1>t, <1>1, <2>1 DEF TrySend, FeeSharesAreEarned
<1>2. ASSUME NEW m \in Miner, NEW j \in Job, SubmitDevWork(m, j) \/ SubmitFeeWork(m, j)
      PROVE  FeeSharesAreEarned'
  <2> DEFINE sh == [job |-> j, nonce |-> nonce]
  <2>1. sh \in Share /\ sh.job = j
    BY DEF Share, TypeOK, FeeTaskTypeOK
  <2>2. PICK p \in FeePool : j \in Elems(lists[m][p]) /\ TrySend(p, sh) /\ UNCHANGED <<got, jobQ>>
    BY <1>2 DEF SubmitDevWork, SubmitFeeWork, FeePool
  <2>3. j \in Elems(jobQ[p])
    BY <2>2 DEF ListsAreEarned
  <2> HIDE DEF sh
  <2> QED BY <1>1, <2>1, <2>2, <2>3
<1>3. ASSUME NEW p \in FeePool, NEW j \in JobsOf(p), FeeJobArrives(p, j) PROVE FeeSharesAreEarned'
  <2>0. j \in Job
    BY DEF JobsOf, Job
  <2>1. Elems(Append(jobQ[p], j)) = Elems(jobQ[p]) \cup {j}
    BY <1>t, <2>0, ElemsFacts
  <2>2. \A q \in FeePool : Elems(jobQ[q]) \subseteq Elems(jobQ'[q])
    BY <1>t, <1>3, <2>1 DEF FeeJobArrives
  <2> QED BY <1>3, <2>2 DEF FeeJobArrives, FeeSharesAreEarned
<1>4. ASSUME NEW p \in FeePool, TakeShare(p),
             got' = got \/ got' = [got EXCEPT ![p] = Append(@, Head(chan[p]))]
      PROVE  FeeSharesAreEarned'
  <2>1. Head(chan[p]) \in Share /\ Head(chan[p]) \in Elems(chan[p])
        /\ Elems(Tail(chan[p])) \subseteq Elems(chan[p])
    BY <1>t, <1>4, ElemsFacts, HeadTailProperties DEF TakeShare
  <2>2. Elems(Append(got[p], Head(chan[p]))) = Elems(got[p]) \cup {Head(chan[p])}
    BY <1>t, <2>1, ElemsFacts
  <2>3. chan' = [chan EXCEPT ![p] = Tail(@)] /\ jobQ' = jobQ
    BY <1>4 DEF TakeShare
  <2>4. ASSUME NEW q \in FeePool
        PROVE  Elems(chan'[q]) \cup Elems(got'[q]) \subseteq Elems(chan[q]) \cup Elems(got[q])
    <3>1. Elems(chan'[q]) \subseteq Elems(chan[q])
      BY <1>t, <2>1, <2>3
    <3>2. CASE got' = got
      BY <3>1, <3>2
    <3>3. CASE got' = [got EXCEPT ![p] = Append(@, Head(chan[p]))]
      <4>1. got'[q] = IF q = p THEN Append(got[p], Head(chan[p])) ELSE got[q]
        BY <1>t, <3>3
      <4> QED BY <2>1, <2>2, <3>1, <4>1
    <3> QED BY <1>4, <3>2, <3>3
  <2> QED BY <2>3, <2>4 DEF FeeSharesAreEarned
<1>5. ASSUME NEW m \in Miner, SessionStep(m) PROVE FeeSharesAreEarned'
  BY <1>0, <1>2, <1>5
  DEF SessionStep, Accept, MinerGone, PoolGone, EndSession, SubmitLogin, GetWork, SubmitHashrate,
      Forward, SubmitMainWork, ForwardJob, HandOutFeeJob, ReadReply, Timer, feeTask
<1>6. ASSUME NEW m \in Miner, PoolStep(m) PROVE FeeSharesAreEarned'
  BY <1>0, <1>6 DEF PoolStep, PoolAnswer, PoolClose, PoolPushJob, PoolSends, feeTask
<1>7. ASSUME NEW p \in FeePool, FeeTaskStep(p) PROVE FeeSharesAreEarned'
  BY <1>0, <1>3, <1>4, <1>7 DEF FeeTaskStep, ForwardShare, ForwardShareLost, ForwardShareFails,
                                FeePoolClose, Relogin, ReloginFails, feeTask
<1>8. CASE UNCHANGED vars
  BY <1>0, <1>8 DEF vars, feeTask
<1> QED BY <1>5, <1>6, <1>7, <1>8 DEF Next

(* A fee pool is only ever sent shares of jobs it issued itself, whatever  *)
(* ids the pools issue and however their sessions and logins end.          *)
THEOREM FeeSharesEarned == Spec => []FeeSharesAreEarned
<1>1. Init => EarnedInv
  BY DEF Init, EarnedInv, ListsAreEarned, FeeSharesAreEarned, EmptyLists, Elems
<1>2. TypeOK /\ EarnedInv /\ [Next]_vars => EarnedInv'
  BY ListsEarnedStep, EarnedStep DEF EarnedInv
<1>3. EarnedInv => FeeSharesAreEarned
  BY DEF EarnedInv
<1> QED BY <1>1, <1>2, <1>3, TypeCorrect, PTL DEF Spec

(* What keeps the shares in order: each sequence is increasing, what was   *)
(* sent is older than what is queued, and both are older than the next.    *)
Below(s, n) == \A i \in 1..Len(s) : s[i].nonce < n
Ordered(g, c, n) ==
  /\ Increasing(g) /\ Increasing(c) /\ Below(g, n) /\ Below(c, n)
  /\ \A i \in 1..Len(g), k \in 1..Len(c) : g[i].nonce < c[k].nonce
OrderInv == \A p \in FeePool : Ordered(got[p], chan[p], nonce)

(* The nonces in a sequence of shares are numbers. *)
LEMMA NonceType ==
  ASSUME NEW s \in Seq(Share), NEW i \in 1..Len(s)
  PROVE  s[i].nonce \in Nat
<1>1. s[i] \in Share
  BY ElementOfSeq
<1> QED BY <1>1 DEF Share

(* Submitting puts the newest share at the end of the channel. *)
LEMMA OrderedSubmit ==
  ASSUME NEW g \in Seq(Share), NEW c \in Seq(Share), NEW n \in Nat, Ordered(g, c, n),
         NEW sh \in Share, sh.nonce = n
  PROVE  Ordered(g, Append(c, sh), n + 1)
<1> DEFINE d == Append(c, sh)
<1>1. /\ Len(c) \in Nat /\ Len(d) = Len(c) + 1 /\ d[Len(c) + 1] = sh
      /\ \A i \in 1..Len(c) : d[i] = c[i]
  BY AppendProperties, LenProperties
<1>2. /\ \A i \in 1..Len(c) : c[i].nonce \in Nat
      /\ \A i \in 1..Len(g) : g[i].nonce \in Nat
  BY NonceType
<1> HIDE DEF d
<1>3. ASSUME NEW i \in 1..Len(d)
      PROVE  d[i].nonce = (IF i = Len(c) + 1 THEN n ELSE c[i].nonce)
             /\ (i # Len(c) + 1 => i \in 1..Len(c))
  BY <1>1
<1>4. Below(g, n + 1)
  BY <1>2 DEF Ordered, Below
<1>5. Below(d, n + 1)
  BY <1>2, <1>3 DEF Ordered, Below
<1>6. Increasing(d)
  <2> SUFFICES ASSUME NEW i \in 1..Len(d), NEW k \in 1..Len(d), i < k
               PROVE  d[i].nonce < d[k].nonce
    BY DEF Increasing
  <2>1. i \in 1..Len(c) /\ d[i].nonce = c[i].nonce
    BY <1>1, <1>3
  <2> QED BY <1>3, <2>1 DEF Ordered, Increasing, Below
<1>7. \A i \in 1..Len(g), k \in 1..Len(d) : g[i].nonce < d[k].nonce
  BY <1>3 DEF Ordered, Below
<1>8. Ordered(g, d, n + 1)
  BY <1>4, <1>5, <1>6, <1>7 DEF Ordered
<1> QED BY <1>8 DEF d

(* Sending the oldest share of the channel keeps the order. *)
LEMMA OrderedSend ==
  ASSUME NEW g \in Seq(Share), NEW c \in Seq(Share), NEW n \in Nat, Ordered(g, c, n), c # <<>>
  PROVE  Ordered(g, Tail(c), n) /\ Ordered(Append(g, Head(c)), Tail(c), n)
<1> DEFINE h == Append(g, Head(c))
           t == Tail(c)
<1>1. /\ Len(c) \in Nat \ {0} /\ Len(g) \in Nat /\ Len(t) = Len(c) - 1
      /\ \A i \in 1..Len(t) : t[i] = c[i + 1]
  BY HeadTailProperties, LenProperties, EmptySeq
<1>2. Head(c) \in Share /\ Head(c) = c[1]
  BY HeadTailProperties
<1>3. /\ Len(h) = Len(g) + 1 /\ h[Len(g) + 1] = c[1]
      /\ \A i \in 1..Len(g) : h[i] = g[i]
  BY <1>2, AppendProperties
<1> HIDE DEF h, t
<1>4. ASSUME NEW i \in 1..Len(t) PROVE i + 1 \in 2..Len(c) /\ i + 1 \in 1..Len(c) /\ t[i] = c[i + 1]
  BY <1>1
<1>5. Ordered(g, t, n)
  <2>1. Below(t, n)
    BY <1>4 DEF Ordered, Below
  <2>2. Increasing(t)
    <3> SUFFICES ASSUME NEW i \in 1..Len(t), NEW k \in 1..Len(t), i < k
                 PROVE  t[i].nonce < t[k].nonce
      BY DEF Increasing
    <3>1. i + 1 < k + 1
      BY <1>1
    <3> QED BY <1>4, <3>1 DEF Ordered, Increasing
  <2>3. \A i \in 1..Len(g), k \in 1..Len(t) : g[i].nonce < t[k].nonce
    BY <1>4 DEF Ordered
  <2> QED BY <2>1, <2>2, <2>3 DEF Ordered
<1>6. Ordered(h, t, n)
  <2>0. ASSUME NEW i \in 1..Len(h)
        PROVE  \/ i = Len(g) + 1 /\ h[i] = c[1]
               \/ i \in 1..Len(g) /\ h[i] = g[i]
    BY <1>1, <1>3
  <2>1. 1 \in 1..Len(c)
    BY <1>1
  <2>2. Below(h, n)
    BY <2>0, <2>1 DEF Ordered, Below
  <2>3. Increasing(h)
    <3> SUFFICES ASSUME NEW i \in 1..Len(h), NEW k \in 1..Len(h), i < k
                 PROVE  h[i].nonce < h[k].nonce
      BY DEF Increasing
    <3>1. i \in 1..Len(g) /\ h[i] = g[i]
      BY <1>1, <1>3
    <3> QED BY <2>0, <2>1, <3>1 DEF Ordered, Increasing
  <2>4. \A i \in 1..Len(h), k \in 1..Len(t) : h[i].nonce < t[k].nonce
    <3> SUFFICES ASSUME NEW i \in 1..Len(h), NEW k \in 1..Len(t)
                 PROVE  h[i].nonce < t[k].nonce
      OBVIOUS
    <3>1. 1 < k + 1
      BY <1>1
    <3> QED BY <1>4, <2>0, <2>1, <3>1 DEF Ordered, Increasing
  <2> QED BY <1>5, <2>2, <2>3, <2>4 DEF Ordered
<1> QED BY <1>5, <1>6 DEF h, t

(* A step keeps the shares of every fee pool in order. *)
LEMMA OrderStep ==
  ASSUME TypeOK, OrderInv, [Next]_vars
  PROVE  OrderInv'
<1>t. /\ chan \in [FeePool -> Seq(Share)] /\ got \in [FeePool -> Seq(Share)] /\ nonce \in Nat
  BY DEF TypeOK, FeeTaskTypeOK
<1>0. ASSUME UNCHANGED <<chan, got, nonce>> PROVE OrderInv'
  BY <1>0 DEF OrderInv
<1>1. ASSUME NEW g \in Seq(Share), NEW c \in Seq(Share), Ordered(g, c, nonce)
      PROVE  Ordered(g, c, nonce + 1)
  <2>1. /\ \A i \in 1..Len(g) : g[i].nonce \in Nat
        /\ \A i \in 1..Len(c) : c[i].nonce \in Nat
    BY NonceType
  <2>2. \A x \in Nat : x < nonce => x < nonce + 1
    BY <1>t
  <2>3. Below(g, nonce + 1) /\ Below(c, nonce + 1)
    BY <1>1, <2>1, <2>2 DEF Ordered, Below
  <2> QED BY <1>1, <2>3 DEF Ordered
<1>2. ASSUME UNCHANGED <<chan, got>>, nonce' = nonce + 1 PROVE OrderInv'
  BY <1>t, <1>1, <1>2 DEF OrderInv
<1>3. ASSUME NEW p \in FeePool, NEW sh \in Share, sh.nonce = nonce, TrySend(p, sh),
             got' = got, nonce' = nonce + 1
      PROVE  OrderInv'
  <2>1. CASE ~(Len(chan[p]) < Cap)
    BY <1>2, <1>3, <2>1 DEF TrySend
  <2>2. CASE Len(chan[p]) < Cap
    <3>1. chan' = [chan EXCEPT ![p] = Append(@, sh)]
      BY <1>3, <2>2 DEF TrySend
    <3>2. ASSUME NEW q \in FeePool PROVE Ordered(got'[q], chan'[q], nonce')
      <4>1. CASE q = p
        BY <1>t, <1>3, <3>1, <4>1, OrderedSubmit DEF OrderInv
      <4>2. CASE q # p
        BY <1>t, <1>1, <1>3, <3>1, <4>2 DEF OrderInv
      <4> QED BY <4>1, <4>2
    <3> QED BY <3>2 DEF OrderInv
  <2> QED BY <2>1, <2>2
<1>4. ASSUME NEW m \in Miner, NEW j \in Job, SubmitDevWork(m, j) \/ SubmitFeeWork(m, j)
      PROVE  OrderInv'
  <2> DEFINE sh == [job |-> j, nonce |-> nonce]
  <2>1. sh \in Share /\ sh.nonce = nonce
    BY <1>t DEF Share
  <2>2. PICK p \in FeePool : TrySend(p, sh) /\ got' = got /\ nonce' = nonce + 1
    BY <1>4 DEF SubmitDevWork, SubmitFeeWork, Submitting, FeePool
  <2> HIDE DEF sh
  <2> QED BY <1>3, <2>1, <2>2
<1>5. ASSUME NEW m \in Miner, NEW j \in Job, SubmitMainWork(m, j) PROVE OrderInv'
  BY <1>2, <1>5 DEF SubmitMainWork, Submitting, feeTask
<1>6. ASSUME NEW p \in FeePool, TakeShare(p),
             got' = got \/ got' = [got EXCEPT ![p] = Append(@, Head(chan[p]))]
      PROVE  OrderInv'
  <2>1. chan' = [chan EXCEPT ![p] = Tail(@)] /\ nonce' = nonce /\ chan[p] # <<>>
    BY <1>6 DEF TakeShare
  <2>2. ASSUME NEW q \in FeePool PROVE Ordered(got'[q], chan'[q], nonce')
    <3>1. CASE q # p
      BY <1>t, <1>6, <2>1, <3>1 DEF OrderInv
    <3>2. CASE q = p
      <4>1. /\ Ordered(got[p], Tail(chan[p]), nonce)
            /\ Ordered(Append(got[p], Head(chan[p])), Tail(chan[p]), nonce)
        BY <1>t, <2>1, OrderedSend DEF OrderInv
      <4>2. chan'[p] = Tail(chan[p])
            /\ (got'[p] = got[p] \/ got'[p] = Append(got[p], Head(chan[p])))
        BY <1>t, <1>6, <2>1
      <4> QED BY <2>1, <3>2, <4>1, <4>2
    <3> QED BY <3>1, <3>2
  <2> QED BY <2>2 DEF OrderInv
<1>7. ASSUME NEW m \in Miner, SessionStep(m) PROVE OrderInv'
  BY <1>0, <1>4, <1>5, <1>7
  DEF SessionStep, Accept, MinerGone, PoolGone, EndSession, SubmitLogin, GetWork, SubmitHashrate,
      Forward, ForwardJob, HandOutFeeJob, ReadReply, Timer, feeTask
<1>8. ASSUME NEW m \in Miner, PoolStep(m) PROVE OrderInv'
  BY <1>0, <1>8 DEF PoolStep, PoolAnswer, PoolClose, PoolPushJob, PoolSends, feeTask
<1>9. ASSUME NEW p \in FeePool, FeeTaskStep(p) PROVE OrderInv'
  BY <1>0, <1>6, <1>9 DEF FeeTaskStep, FeeJobArrives, ForwardShare, ForwardShareLost,
                          ForwardShareFails, FeePoolClose, Relogin, ReloginFails, feeTask
<1>10. CASE UNCHANGED vars
  BY <1>0, <1>10 DEF vars, feeTask
<1> QED BY <1>7, <1>8, <1>9, <1>10 DEF Next

(* Shares reach a fee pool in the order of their submission, none twice.   *)
THEOREM FeeSharesOrdered == Spec => []FeeSharesInOrder
<1>1. Init => OrderInv
  BY DEF Init, OrderInv, Ordered, Increasing, Below
<1>2. TypeOK /\ OrderInv => FeeSharesInOrder
  <2> SUFFICES ASSUME TypeOK, OrderInv, NEW p \in FeePool PROVE Increasing(got[p] \o chan[p])
    BY DEF FeeSharesInOrder
  <2> DEFINE g == got[p]
             c == chan[p]
             s == g \o c
  <2>1. g \in Seq(Share) /\ c \in Seq(Share) /\ Ordered(g, c, nonce)
    BY DEF TypeOK, FeeTaskTypeOK, OrderInv
  <2> HIDE DEF g, c
  <2>2. /\ Len(g) \in Nat /\ Len(c) \in Nat /\ Len(s) = Len(g) + Len(c)
        /\ \A i \in 1..Len(s) : s[i] = IF i <= Len(g) THEN g[i] ELSE c[i - Len(g)]
    BY <2>1, ConcatProperties, LenProperties
  <2> HIDE DEF s
  <2>3. ASSUME NEW i \in 1..Len(s), NEW k \in 1..Len(s), i < k PROVE s[i].nonce < s[k].nonce
    <3>1. CASE i <= Len(g) /\ k <= Len(g)
      <4>1. i \in 1..Len(g) /\ k \in 1..Len(g) /\ s[i] = g[i] /\ s[k] = g[k]
        BY <2>2, <3>1
      <4> QED BY <2>1, <2>3, <4>1 DEF Ordered, Increasing
    <3>2. CASE i <= Len(g) /\ ~(k <= Len(g))
      <4>1. i \in 1..Len(g) /\ k - Len(g) \in 1..Len(c) /\ s[i] = g[i] /\ s[k] = c[k - Len(g)]
        BY <2>2, <3>2
      <4> QED BY <2>1, <4>1 DEF Ordered
    <3>3. CASE ~(i <= Len(g)) /\ ~(k <= Len(g))
      <4>1. /\ i - Len(g) \in 1..Len(c) /\ k - Len(g) \in 1..Len(c) /\ i - Len(g) < k - Len(g)
            /\ s[i] = c[i - Len(g)] /\ s[k] = c[k - Len(g)]
        BY <2>2, <2>3, <3>3
      <4> QED BY <2>1, <4>1 DEF Ordered, Increasing
    <3>4. ~(i <= Len(g)) => ~(k <= Len(g))
      BY <2>2, <2>3
    <3> QED BY <3>1, <3>2, <3>3, <3>4
  <2>4. Increasing(s)
    BY <2>3 DEF Increasing
  <2> QED BY <2>4 DEF s, g, c
<1> QED BY <1>1, <1>2, OrderStep, TypeCorrect, PTL DEF Spec

-----------------------------------------------------------------------------
(* The last report of a session.                                           *)

(* A worker reported online belongs to a running session and is online:    *)
(* the session's end would otherwise find it offline and not report it.    *)
ReportInv == \A m \in Miner : reported[m] => open[m] /\ worker[m].online

(* A worker last reported online has its session running. *)
THEOREM ReportsEndOffline == Spec => []NoOnlineReportAfterEnd
<1>1. Init => ReportInv
  BY DEF Init, ReportInv
<1>2. TypeOK /\ ReportInv /\ [Next]_vars => ReportInv'
  <2> SUFFICES ASSUME TypeOK, ReportInv, [Next]_vars, NEW m \in Miner, reported'[m]
               PROVE  open'[m] /\ worker'[m].online
    BY DEF ReportInv
  <2>t. /\ open \in [Miner -> BOOLEAN] /\ reported \in [Miner -> BOOLEAN]
        /\ worker \in [Miner -> Worker(Miner \cup {NoName})]
    BY DEF TypeOK, SessionTypeOK
  <2>0. ASSUME UNCHANGED <<open, reported, worker>> PROVE open'[m] /\ worker'[m].online
    BY <2>0 DEF ReportInv
  <2>1. ASSUME NEW k \in Miner, Accept(k) \/ EndSession(k) PROVE open'[m] /\ worker'[m].online
    <3>1. k # m
      <4>1. CASE Accept(k)
        BY <2>t, <4>1 DEF Accept, ReportInv
      <4>2. CASE EndSession(k) /\ worker[k].online
        BY <2>t, <4>2 DEF EndSession, ReportEnd, Offline, Worker
      <4>3. CASE EndSession(k) /\ ~worker[k].online
        BY <2>t, <4>3 DEF EndSession, ReportEnd, ReportInv
      <4> QED BY <2>1, <4>1, <4>2, <4>3
    <3>2. open'[m] = open[m] /\ worker'[m] = worker[m] /\ reported'[m] = reported[m]
      BY <2>1, <2>t, <3>1 DEF Accept, EndSession, FreshLocals, ReportEnd
    <3> QED BY <3>2 DEF ReportInv
  <2>2. ASSUME NEW k \in Miner, Timer(k) PROVE open'[m] /\ worker'[m].online
    BY <2>2, <2>t DEF Timer, ReportInv
  <2>3. ASSUME NEW k \in Miner, SubmitLogin(k) PROVE open'[m] /\ worker'[m].online
    BY <2>3, <2>t DEF SubmitLogin, Login, ReportInv, Worker
  <2>4. ASSUME NEW k \in Miner, NEW j \in Job, SubmitFeeWork(k, j) \/ SubmitMainWork(k, j)
        PROVE  open'[m] /\ worker'[m].online
    <3>1. /\ FeeShareAccept(FeeShareIndexAdd(worker[k])).online = worker[k].online
          /\ ShareIndexAdd(worker[k]).online = worker[k].online
      BY <2>t DEF FeeShareAccept, FeeShareIndexAdd, ShareIndexAdd, Worker
    <3>2. /\ UNCHANGED <<open, reported>>
          /\ \/ worker' = [worker EXCEPT ![k] = FeeShareAccept(FeeShareIndexAdd(worker[k]))]
             \/ worker' = [worker EXCEPT ![k] = ShareIndexAdd(worker[k])]
      BY <2>4 DEF SubmitFeeWork, SubmitMainWork
    <3> QED BY <2>t, <3>1, <3>2 DEF ReportInv
  <2>5. ASSUME NEW k \in Miner, ForwardJob(k) PROVE open'[m] /\ worker'[m].online
    <3>1. SendJob(worker[k]).online = worker[k].online
      BY <2>t DEF SendJob, Worker
    <3>2. UNCHANGED <<open, reported>> /\ worker' = [worker EXCEPT ![k] = SendJob(worker[k])]
      BY <2>5 DEF ForwardJob
    <3> QED BY <2>t, <3>1, <3>2 DEF ReportInv
  <2>6. ASSUME NEW k \in Miner, NEW p \in FeePool, HandOutFeeJob(k, p)
        PROVE  open'[m] /\ worker'[m].online
    BY <2>6, <2>t DEF HandOutFeeJob, CountHandOut, SendJob, SendFeeJob, SendDevelopJob,
                      ReportInv, Worker
  <2>7. ASSUME NEW k \in Miner, ReadReply(k) PROVE open'[m] /\ worker'[m].online
    BY <2>7, <2>t DEF ReadReply, ApplyReply, Logind, ClearState, ShareAccept, ShareReject,
                      ReportInv, Worker
  <2>8. ASSUME NEW k \in Miner, SessionStep(k) PROVE open'[m] /\ worker'[m].online
    BY <2>0, <2>1, <2>2, <2>3, <2>4, <2>5, <2>6, <2>7, <2>8
    DEF SessionStep, MinerGone, PoolGone, GetWork, SubmitHashrate, Forward, SubmitDevWork, session
  <2>9. ASSUME NEW k \in Miner, PoolStep(k) PROVE open'[m] /\ worker'[m].online
    BY <2>0, <2>9 DEF PoolStep, PoolAnswer, PoolClose, PoolPushJob, PoolSends, session
  <2>10. ASSUME NEW p \in FeePool, FeeTaskStep(p) PROVE open'[m] /\ worker'[m].online
    BY <2>0, <2>10
    DEF FeeTaskStep, FeeJobArrives, ForwardShare, ForwardShareLost, ForwardShareFails, TakeShare,
        FeePoolClose, Relogin, ReloginFails, session
  <2>11. CASE UNCHANGED vars
    BY <2>0, <2>11 DEF vars, session
  <2> QED BY <2>8, <2>9, <2>10, <2>11 DEF Next
<1>3. ReportInv => NoOnlineReportAfterEnd
  BY DEF ReportInv, NoOnlineReportAfterEnd
<1> QED BY <1>1, <1>2, <1>3, TypeCorrect, PTL DEF Spec

-----------------------------------------------------------------------------
(* The shares of the main pool.                                            *)

(* The places of a sequence that hold a member of A. *)
Places(s, A) == {i \in 1..Len(s) : s[i] \in A}

(* There are finitely many of them. *)
LEMMA PlacesFinite ==
  ASSUME NEW S, NEW s \in Seq(S), NEW A
  PROVE  IsFiniteSet(Places(s, A)) /\ Cardinality(Places(s, A)) \in Nat
<1>1. IsFiniteSet(1..Len(s))
  BY LenProperties, FS_Interval
<1>2. IsFiniteSet(Places(s, A))
  BY <1>1, FS_Subset DEF Places
<1> QED BY <1>2, FS_CardinalityType

(* An element put at the end adds one place or none. *)
LEMMA PlacesAppend ==
  ASSUME NEW S, NEW s \in Seq(S), NEW x \in S, NEW A
  PROVE  Cardinality(Places(Append(s, x), A))
           = Cardinality(Places(s, A)) + (IF x \in A THEN 1 ELSE 0)
<1> DEFINE d == Append(s, x)
           n == Len(s) + 1
<1>1. /\ Len(s) \in Nat /\ Len(d) = n /\ d[n] = x
      /\ \A i \in 1..Len(s) : d[i] = s[i]
  BY AppendProperties, LenProperties
<1>2. IsFiniteSet(Places(s, A)) /\ Cardinality(Places(s, A)) \in Nat
  BY PlacesFinite
<1> HIDE DEF d
<1>3. \A i : i \in 1..n <=> i \in 1..Len(s) \/ i = n
  BY <1>1
<1>4. n \notin Places(s, A)
  BY <1>1 DEF Places
<1> HIDE DEF n
<1>5. CASE x \in A
  <2>1. Places(d, A) = Places(s, A) \cup {n}
    BY <1>1, <1>3, <1>5 DEF Places
  <2>2. Cardinality(Places(s, A) \cup {n}) = Cardinality(Places(s, A)) + 1
    BY <1>2, <1>4, FS_AddElement
  <2> QED BY <1>5, <2>1, <2>2 DEF d
<1>6. CASE x \notin A
  <2>1. Places(d, A) = Places(s, A)
    BY <1>1, <1>3, <1>6 DEF Places
  <2> QED BY <1>2, <1>6, <2>1 DEF d
<1> QED BY <1>5, <1>6

(* Taking the head off removes one place or none. *)
LEMMA PlacesTail ==
  ASSUME NEW S, NEW s \in Seq(S), s # <<>>, NEW A
  PROVE  Cardinality(Places(Tail(s), A))
           = Cardinality(Places(s, A)) - (IF Head(s) \in A THEN 1 ELSE 0)
<1> DEFINE t == Tail(s)
           P == Places(t, A)
           Q == Places(s, A) \ {1}
<1>1. /\ Len(s) \in Nat \ {0} /\ Len(t) = Len(s) - 1 /\ t \in Seq(S) /\ Head(s) = s[1]
      /\ \A i \in 1..Len(t) : t[i] = s[i + 1]
  BY HeadTailProperties, LenProperties, EmptySeq
<1>2. IsFiniteSet(P) /\ IsFiniteSet(Places(s, A)) /\ Cardinality(Places(s, A)) \in Nat
  BY <1>1, PlacesFinite
<1> HIDE DEF t
<1>3. Cardinality(P) = Cardinality(Q)
  <2> DEFINE f == [i \in P |-> i + 1]
  <2>1. \A i \in P : i + 1 \in Q
    BY <1>1 DEF Places
  <2>2. \A i \in Q : i - 1 \in P /\ (i - 1) + 1 = i
    BY <1>1 DEF Places
  <2>3. \A i, k \in P : i + 1 = k + 1 => i = k
    BY <1>1 DEF Places
  <2> HIDE DEF P, Q
  <2>4. f \in Bijection(P, Q)
    BY <2>1, <2>2, <2>3 DEF Bijection, Injection, Surjection, IsInjective
  <2>5. ExistsBijection(P, Q)
    BY <2>4 DEF ExistsBijection
  <2> QED BY <1>2, <2>5, FS_Bijection
<1>4. Cardinality(Q) = IF 1 \in Places(s, A) THEN Cardinality(Places(s, A)) - 1
                       ELSE Cardinality(Places(s, A))
  BY <1>2, FS_RemoveElement
<1>5. 1 \in Places(s, A) <=> Head(s) \in A
  BY <1>1 DEF Places
<1> HIDE DEF P, Q
<1>6. Cardinality(P) = Cardinality(Places(s, A)) - (IF Head(s) \in A THEN 1 ELSE 0)
  BY <1>2, <1>3, <1>4, <1>5
<1> QED BY <1>6 DEF P, t

(* The shares a session waits to hear of: those the pool has not answered, *)
(* and those whose verdicts it has not read.                               *)
Submits  == {r \in Request : r.method = "eth_submitWork"}
Verdicts == {l \in Line : "id" \in DOMAIN l /\ l.id = "CLIENT_SUBMITWORK"}

(* The invariant of one session, on its worker and its two pipes. *)
Balanced(w, requests, lines) ==
  w.share_index <= w.accept_index + w.invalid_index
                   + (Cardinality(Places(requests, Submits)) + Cardinality(Places(lines, Verdicts)))
BalanceInv == \A m \in Miner : Balanced(worker[m], toPool[m], fromPool[m])

(* The messages that count, and those that do not. *)
LEMMA Counted ==
  /\ LoginReq \notin Submits /\ GetWorkReq \notin Submits /\ HashrateReq \notin Submits
  /\ \A sh \in Share : SubmitReq(sh) \in Submits
  /\ \A j : [job |-> j] \notin Verdicts
  /\ \A req \in Request, line \in Line :
       line \in AnswerTo(req) => (line \in Verdicts <=> req \in Submits)
<1>1. LoginReq \notin Submits /\ GetWorkReq \notin Submits /\ HashrateReq \notin Submits
  BY DEF Submits, LoginReq, GetWorkReq, HashrateReq
<1>2. \A sh \in Share : SubmitReq(sh) \in Submits
  BY MessageTypes DEF Submits, SubmitReq
<1>3. \A j : [job |-> j] \notin Verdicts
  BY DEF Verdicts
<1>4. ASSUME NEW req \in Request, NEW line \in Line, line \in AnswerTo(req)
      PROVE  line \in Verdicts <=> req \in Submits
  <2>1. CASE req.method = "eth_getWork"
    BY <1>4, <2>1 DEF AnswerTo, Verdicts, Submits
  <2>2. CASE req.method = "eth_submitLogin"
    BY <1>4, <2>2 DEF AnswerTo, Verdicts, Submits
  <2>3. CASE req.method = "eth_submitWork"
    BY <1>4, <2>3 DEF AnswerTo, Verdicts, Submits
  <2>4. CASE req.method = "eth_submitHashrate"
    BY <1>4, <2>4 DEF AnswerTo, Verdicts, Submits
  <2>5. req.method \in {"eth_getWork", "eth_submitLogin", "eth_submitWork", "eth_submitHashrate"}
    BY DEF Request, LoginReq, GetWorkReq, HashrateReq
  <2> QED BY <2>1, <2>2, <2>3, <2>4, <2>5
<1> QED BY <1>1, <1>2, <1>3, <1>4

(* The operator of the property counts these places. *)
LEMMA BalanceIs == ASSUME TypeOK PROVE BalanceInv <=> NoMainShareAstray
<1>1. ASSUME NEW m \in Miner
      PROVE  Undecided(m) = Cardinality(Places(toPool[m], Submits))
                            + Cardinality(Places(fromPool[m], Verdicts))
  <2>1. \A i \in 1..Len(toPool[m]) : toPool[m][i] \in Request
    BY ElementOfSeq DEF TypeOK, PipeTypeOK
  <2>2. \A i \in 1..Len(fromPool[m]) : fromPool[m][i] \in Line
    BY ElementOfSeq DEF TypeOK, PipeTypeOK
  <2>3. {i \in 1..Len(toPool[m]) : toPool[m][i].method = "eth_submitWork"}
          = Places(toPool[m], Submits)
    BY <2>1 DEF Places, Submits
  <2>4. {i \in 1..Len(fromPool[m]) :
           "id" \in DOMAIN fromPool[m][i] /\ fromPool[m][i].id = "CLIENT_SUBMITWORK"}
          = Places(fromPool[m], Verdicts)
    BY <2>2 DEF Places, Verdicts
  <2> QED BY <2>3, <2>4 DEF Undecided
<1> QED BY <1>1 DEF BalanceInv, Balanced, NoMainShareAstray

(* The moves of a session and its pool that change the balance. *)
LEMMA BalanceMoves ==
  ASSUME NEW w \in Worker(Miner \cup {NoName}), NEW requests \in Seq(Request),
         NEW lines \in Seq(Line), Balanced(w, requests, lines)
  PROVE  /\ \A req \in Request \ Submits : Balanced(w, Append(requests, req), lines)
         /\ \A req \in Submits : Balanced(ShareIndexAdd(w), Append(requests, req), lines)
         /\ \A line \in Line : Balanced(w, requests, Append(lines, line))
         /\ requests # <<>> =>
              \A line \in AnswerTo(Head(requests)) :
                Balanced(w, Tail(requests), Append(lines, line))
         /\ lines # <<>> /\ Head(lines) \notin Verdicts => Balanced(w, requests, Tail(lines))
         /\ lines # <<>> /\ "id" \in DOMAIN Head(lines) =>
              Balanced(ApplyReply(w, Head(lines)), requests, Tail(lines))
<1> DEFINE r == Cardinality(Places(requests, Submits))
           v == Cardinality(Places(lines, Verdicts))
<1>1. r \in Nat /\ v \in Nat
  BY PlacesFinite
<1>2. /\ \A req \in Request :
           Cardinality(Places(Append(requests, req), Submits)) = r + (IF req \in Submits THEN 1 ELSE 0)
      /\ \A line \in Line :
           Cardinality(Places(Append(lines, line), Verdicts)) = v + (IF line \in Verdicts THEN 1 ELSE 0)
  BY PlacesAppend
<1>3. requests # <<>> =>
        /\ Cardinality(Places(Tail(requests), Submits)) = r - (IF Head(requests) \in Submits THEN 1 ELSE 0)
        /\ Head(requests) \in Request
  BY PlacesTail, HeadTailProperties
<1>4. lines # <<>> =>
        /\ Cardinality(Places(Tail(lines), Verdicts)) = v - (IF Head(lines) \in Verdicts THEN 1 ELSE 0)
        /\ Head(lines) \in Line
  BY PlacesTail, HeadTailProperties
<1>5. /\ w.share_index \in Nat /\ w.accept_index \in Nat /\ w.invalid_index \in Nat
      /\ w.share_index <= w.accept_index + w.invalid_index + (r + v)
  BY DEF Worker, Balanced
<1>6. /\ ShareIndexAdd(w).share_index = w.share_index + 1
      /\ ShareIndexAdd(w).accept_index = w.accept_index
      /\ ShareIndexAdd(w).invalid_index = w.invalid_index
  BY DEF ShareIndexAdd, Worker
<1> HIDE DEF r, v
<1>7. \A req \in Request \ Submits : Balanced(w, Append(requests, req), lines)
  BY <1>1, <1>2, <1>5 DEF Balanced, v
<1>8. \A req \in Submits : Balanced(ShareIndexAdd(w), Append(requests, req), lines)
  <2> SUFFICES ASSUME NEW req \in Submits PROVE Balanced(ShareIndexAdd(w), Append(requests, req), lines)
    OBVIOUS
  <2>1. Cardinality(Places(Append(requests, req), Submits)) = r + 1
    BY <1>2 DEF Submits
  <2> QED BY <1>1, <1>5, <1>6, <2>1 DEF Balanced, v
<1>9. \A line \in Line : Balanced(w, requests, Append(lines, line))
  BY <1>1, <1>2, <1>5 DEF Balanced, r
<1>10. ASSUME requests # <<>>, NEW line \in AnswerTo(Head(requests))
       PROVE  Balanced(w, Tail(requests), Append(lines, line))
  <2>1. line \in Line /\ (line \in Verdicts <=> Head(requests) \in Submits)
    BY <1>3, <1>10, Counted, MessageTypes
  <2>2. Cardinality(Places(Append(lines, line), Verdicts)) = v + (IF line \in Verdicts THEN 1 ELSE 0)
    BY <1>2, <2>1
  <2> QED BY <1>1, <1>3, <1>5, <1>10, <2>1, <2>2 DEF Balanced
<1>11. lines # <<>> /\ Head(lines) \notin Verdicts => Balanced(w, requests, Tail(lines))
  BY <1>1, <1>4, <1>5 DEF Balanced, r
<1>12. ASSUME lines # <<>>, "id" \in DOMAIN Head(lines)
       PROVE  Balanced(ApplyReply(w, Head(lines)), requests, Tail(lines))
  <2> DEFINE a == ApplyReply(w, Head(lines))
             c == Cardinality(Places(Tail(lines), Verdicts))
  <2>1. Head(lines) \in Verdicts <=> Head(lines).id = "CLIENT_SUBMITWORK"
    BY <1>4, <1>12 DEF Verdicts
  <2>2. c \in Nat
    BY <1>12, HeadTailProperties, PlacesFinite
  <2>3. CASE Head(lines).id = "CLIENT_LOGIN"
    <3>1. a.share_index = 0 /\ a.accept_index = 0 /\ a.invalid_index = 0
      BY <2>3 DEF ApplyReply, Logind, ClearState, Worker
    <3> HIDE DEF a, c
    <3>2. a.share_index <= a.accept_index + a.invalid_index + (r + c)
      BY <1>1, <2>2, <3>1
    <3> QED BY <3>2 DEF Balanced, r, a, c
  <2>4. CASE Head(lines).id = "CLIENT_SUBMITWORK"
    <3>1. /\ a.share_index = w.share_index
          /\ a.accept_index + a.invalid_index = w.accept_index + w.invalid_index + 1
      BY <1>5, <2>4 DEF ApplyReply, ShareAccept, ShareReject, Worker
    <3>2. c = v - 1
      BY <1>4, <1>12, <2>1, <2>4
    <3> HIDE DEF a, c
    <3>3. a.share_index <= a.accept_index + a.invalid_index + (r + c)
      BY <1>1, <1>5, <3>1, <3>2
    <3> QED BY <3>3 DEF Balanced, r, a, c
  <2>5. CASE Head(lines).id \notin {"CLIENT_LOGIN", "CLIENT_SUBMITWORK"}
    BY <1>11, <1>12, <2>1, <2>5 DEF ApplyReply
  <2> QED BY <2>3, <2>4, <2>5
<1> QED BY <1>7, <1>8, <1>9, <1>10, <1>11, <1>12

(* The methods that touch none of the counters compared here. *)
LEMMA OtherCounters ==
  ASSUME NEW w \in Worker(Miner \cup {NoName}), NEW requests, NEW lines, NEW k \in Miner,
         Balanced(w, requests, lines)
  PROVE  /\ Balanced(Login(w, k), requests, lines)
         /\ Balanced(SendJob(w), requests, lines)
         /\ \A p \in FeePool : Balanced(CountHandOut(SendJob(w), p), requests, lines)
         /\ Balanced(FeeShareAccept(FeeShareIndexAdd(w)), requests, lines)
<1>1. Balanced(Login(w, k), requests, lines)
  BY DEF Balanced, Login, Worker
<1>2. Balanced(SendJob(w), requests, lines)
  BY DEF Balanced, SendJob, Worker
<1>3. \A p \in FeePool : Balanced(CountHandOut(SendJob(w), p), requests, lines)
  BY DEF Balanced, CountHandOut, SendJob, SendFeeJob, SendDevelopJob, Worker
<1>4. Balanced(FeeShareAccept(FeeShareIndexAdd(w)), requests, lines)
  BY DEF Balanced, FeeShareAccept, FeeShareIndexAdd, Worker
<1> QED BY <1>1, <1>2, <1>3, <1>4

(* A fresh worker on empty pipes is balanced. *)
LEMMA FreshBalance == Balanced(Default(NoName), <<>>, <<>>)
<1>1. <<>> \in Seq(Request) /\ <<>> \in Seq(Line)
  BY EmptySeq
<1>2. Cardinality(Places(<<>>, Submits)) \in Nat /\ Cardinality(Places(<<>>, Verdicts)) \in Nat
  BY <1>1, PlacesFinite
<1> QED BY <1>2 DEF Balanced, Default

(* A step keeps the balance of every session. *)
LEMMA BalanceStep ==
  ASSUME TypeOK, BalanceInv, [Next]_vars
  PROVE  BalanceInv'
<1> DEFINE W == Worker(Miner \cup {NoName})
<1>t. worker \in [Miner -> W] /\ toPool \in [Miner -> Seq(Request)]
      /\ fromPool \in [Miner -> Seq(Line)]
  BY DEF TypeOK, SessionTypeOK, PipeTypeOK
<1> HIDE DEF W
<1>b. ASSUME NEW m \in Miner
      PROVE  worker[m] \in Worker(Miner \cup {NoName}) /\ toPool[m] \in Seq(Request)
             /\ fromPool[m] \in Seq(Line) /\ Balanced(worker[m], toPool[m], fromPool[m])
  BY <1>t DEF BalanceInv, W
<1>0. ASSUME UNCHANGED <<worker, toPool, fromPool>> PROVE BalanceInv'
  BY <1>0 DEF BalanceInv
<1>1. ASSUME NEW m \in Miner, Balanced(worker'[m], toPool'[m], fromPool'[m]),
             \A k \in Miner \ {m} : /\ worker'[k] = worker[k] /\ toPool'[k] = toPool[k]
                                    /\ fromPool'[k] = fromPool[k]
      PROVE  BalanceInv'
  <2>1. ASSUME NEW k \in Miner PROVE Balanced(worker'[k], toPool'[k], fromPool'[k])
    <3>1. CASE k = m
      BY <1>1, <3>1
    <3>2. CASE k # m
      BY <1>1, <1>b, <3>2
    <3> QED BY <3>1, <3>2
  <2> QED BY <2>1 DEF BalanceInv
<1>2. ASSUME NEW m \in Miner, FreshLocals(m) PROVE BalanceInv'
  <2>1. worker'[m] = Default(NoName) /\ toPool'[m] = <<>> /\ fromPool'[m] = <<>>
    BY <1>2, <1>t DEF FreshLocals
  <2>2. \A k \in Miner \ {m} : /\ worker'[k] = worker[k] /\ toPool'[k] = toPool[k]
                               /\ fromPool'[k] = fromPool[k]
    BY <1>2, <1>t DEF FreshLocals
  <2> QED BY <1>1, <2>1, <2>2, FreshBalance
<1>3. ASSUME NEW m \in Miner, NEW req \in Request \ Submits, SendToPool(m, req),
             worker' = worker \/ worker' = [worker EXCEPT ![m] = Login(@, m)]
      PROVE  BalanceInv'
  <2>1. /\ toPool'[m] = Append(toPool[m], req) /\ fromPool'[m] = fromPool[m]
        /\ worker'[m] = worker[m] \/ worker'[m] = Login(worker[m], m)
    BY <1>3, <1>t DEF SendToPool
  <2>2. \A k \in Miner \ {m} : /\ worker'[k] = worker[k] /\ toPool'[k] = toPool[k]
                               /\ fromPool'[k] = fromPool[k]
    BY <1>3, <1>t DEF SendToPool
  <2>3. Balanced(worker[m], Append(toPool[m], req), fromPool[m])
    BY <1>b, BalanceMoves
  <2>4. Balanced(Login(worker[m], m), Append(toPool[m], req), fromPool[m])
    BY <1>b, <2>3, OtherCounters
  <2> QED BY <1>1, <2>1, <2>2, <2>3, <2>4
<1>4. ASSUME NEW m \in Miner, NEW j \in Job, SubmitMainWork(m, j) PROVE BalanceInv'
  <2> DEFINE req == SubmitReq([job |-> j, nonce |-> nonce])
  <2>1. req \in Submits
    BY Counted DEF Share, TypeOK, FeeTaskTypeOK
  <2> HIDE DEF req
  <2>2. toPool'[m] = Append(toPool[m], req) /\ fromPool'[m] = fromPool[m]
        /\ worker'[m] = ShareIndexAdd(worker[m])
    BY <1>4, <1>t DEF SubmitMainWork, SendToPool, req
  <2>3. \A k \in Miner \ {m} : /\ worker'[k] = worker[k] /\ toPool'[k] = toPool[k]
                               /\ fromPool'[k] = fromPool[k]
    BY <1>4, <1>t DEF SubmitMainWork, SendToPool
  <2>4. Balanced(ShareIndexAdd(worker[m]), Append(toPool[m], req), fromPool[m])
    BY <1>b, <2>1, BalanceMoves
  <2> QED BY <1>1, <2>2, <2>3, <2>4
<1>5. ASSUME NEW m \in Miner, NEW j \in Job, SubmitFeeWork(m, j) PROVE BalanceInv'
  <2>1. toPool'[m] = toPool[m] /\ fromPool'[m] = fromPool[m]
        /\ worker'[m] = FeeShareAccept(FeeShareIndexAdd(worker[m]))
    BY <1>5, <1>t DEF SubmitFeeWork, mainPool
  <2>2. \A k \in Miner \ {m} : /\ worker'[k] = worker[k] /\ toPool'[k] = toPool[k]
                               /\ fromPool'[k] = fromPool[k]
    BY <1>5, <1>t DEF SubmitFeeWork, mainPool
  <2>3. Balanced(FeeShareAccept(FeeShareIndexAdd(worker[m])), toPool[m], fromPool[m])
    BY <1>b, OtherCounters
  <2> QED BY <1>1, <2>1, <2>2, <2>3
<1>6. ASSUME NEW m \in Miner, ReadJob(m), NEW w, worker' = [worker EXCEPT ![m] = w],
             w = SendJob(worker[m]) \/ \E p \in FeePool : w = CountHandOut(SendJob(worker[m]), p)
      PROVE  BalanceInv'
  <2>1. toPool'[m] = toPool[m] /\ fromPool'[m] = Tail(fromPool[m]) /\ worker'[m] = w
    BY <1>6, <1>t DEF ReadJob, ReadLine
  <2>2. \A k \in Miner \ {m} : /\ worker'[k] = worker[k] /\ toPool'[k] = toPool[k]
                               /\ fromPool'[k] = fromPool[k]
    BY <1>6, <1>t DEF ReadJob, ReadLine
  <2>3. fromPool[m] # <<>> /\ "job" \in DOMAIN Head(fromPool[m]) /\ Head(fromPool[m]) \in Line
    BY <1>6, <1>b, HeadTailProperties DEF ReadJob, ReadLine
  <2>4. Head(fromPool[m]) \notin Verdicts
    BY <2>3 DEF Line, Verdicts
  <2>5. Balanced(worker[m], toPool[m], Tail(fromPool[m]))
    BY <1>b, <2>3, <2>4, BalanceMoves
  <2>6. Balanced(w, toPool[m], Tail(fromPool[m]))
    BY <1>6, <1>b, <2>5, OtherCounters
  <2> QED BY <1>1, <2>1, <2>2, <2>6
<1>7. ASSUME NEW m \in Miner, ReadReply(m) PROVE BalanceInv'
  <2>1. toPool'[m] = toPool[m] /\ fromPool'[m] = Tail(fromPool[m])
        /\ worker'[m] = ApplyReply(worker[m], Head(fromPool[m]))
    BY <1>7, <1>t DEF ReadReply, ReadLine
  <2>2. \A k \in Miner \ {m} : /\ worker'[k] = worker[k] /\ toPool'[k] = toPool[k]
                               /\ fromPool'[k] = fromPool[k]
    BY <1>7, <1>t DEF ReadReply, ReadLine
  <2>3. fromPool[m] # <<>> /\ "id" \in DOMAIN Head(fromPool[m])
    BY <1>7 DEF ReadReply, ReadLine
  <2>4. Balanced(ApplyReply(worker[m], Head(fromPool[m])), toPool[m], Tail(fromPool[m]))
    BY <1>b, <2>3, BalanceMoves
  <2> QED BY <1>1, <2>1, <2>2, <2>4
<1>8. ASSUME NEW m \in Miner, NEW line \in Line, PoolSends(m, line),
             \/ toPool' = toPool
             \/ /\ toPool[m] # <<>> /\ line \in AnswerTo(Head(toPool[m]))
                /\ toPool' = [toPool EXCEPT ![m] = Tail(@)]
      PROVE  BalanceInv'
  <2>1. worker' = worker /\ fromPool'[m] = Append(fromPool[m], line)
    BY <1>8, <1>t DEF PoolSends, session
  <2>2. \A k \in Miner \ {m} : /\ worker'[k] = worker[k] /\ toPool'[k] = toPool[k]
                               /\ fromPool'[k] = fromPool[k]
    BY <1>8, <1>t DEF PoolSends, session
  <2>3. CASE toPool' = toPool
    <3>1. Balanced(worker[m], toPool[m], Append(fromPool[m], line))
      BY <1>b, BalanceMoves
    <3> QED BY <1>1, <2>1, <2>2, <2>3, <3>1
  <2>4. CASE /\ toPool[m] # <<>> /\ line \in AnswerTo(Head(toPool[m]))
             /\ toPool' = [toPool EXCEPT ![m] = Tail(@)]
    <3>1. Balanced(worker[m], Tail(toPool[m]), Append(fromPool[m], line))
      BY <1>b, <2>4, BalanceMoves
    <3>2. toPool'[m] = Tail(toPool[m])
      BY <1>t, <2>4
    <3> QED BY <1>1, <2>1, <2>2, <3>1, <3>2
  <2> QED BY <1>8, <2>3, <2>4
<1>9. ASSUME NEW m \in Miner, SessionStep(m) PROVE BalanceInv'
  <2>1. CASE Accept(m) \/ EndSession(m)
    BY <1>2, <2>1 DEF Accept, EndSession
  <2>2. CASE SubmitLogin(m)
    BY <1>3, <2>2, Counted, MessageTypes DEF SubmitLogin
  <2>3. CASE GetWork(m) \/ SubmitHashrate(m)
    BY <1>3, <2>3, Counted, MessageTypes DEF GetWork, SubmitHashrate, Forward, session
  <2>4. CASE \E j \in Job : SubmitDevWork(m, j)
    BY <1>0, <2>4 DEF SubmitDevWork, session, mainPool
  <2>5. CASE ForwardJob(m)
    BY <1>6, <2>5 DEF ForwardJob
  <2>6. CASE \E p \in FeePool : HandOutFeeJob(m, p)
    <3>1. PICK p \in FeePool : HandOutFeeJob(m, p)
      BY <2>6
    <3>2. ReadJob(m) /\ worker' = [worker EXCEPT ![m] = CountHandOut(SendJob(worker[m]), p)]
      BY <3>1 DEF HandOutFeeJob
    <3> QED BY <1>6, <3>2
  <2>7. CASE Timer(m)
    BY <1>0, <2>7 DEF Timer, mainPool
  <2> QED BY <1>4, <1>5, <1>7, <1>9, <2>1, <2>2, <2>3, <2>4, <2>5, <2>6, <2>7
      DEF SessionStep, MinerGone, PoolGone
<1>10. ASSUME NEW m \in Miner, PoolStep(m) PROVE BalanceInv'
  <2>1. CASE PoolAnswer(m)
    <3>1. PICK line \in AnswerTo(Head(toPool[m])) : PoolSends(m, line)
      BY <2>1 DEF PoolAnswer
    <3>2. toPool[m] # <<>> /\ toPool' = [toPool EXCEPT ![m] = Tail(@)]
      BY <2>1 DEF PoolAnswer
    <3>3. line \in Line
      BY <1>b, <3>1, <3>2, HeadTailProperties, MessageTypes
    <3> QED BY <1>8, <3>1, <3>2, <3>3
  <2>2. CASE PoolClose(m)
    BY <1>0, <2>2 DEF PoolClose, session
  <2>3. CASE \E j \in MainJob : PoolPushJob(m, j)
    BY <1>8, <2>3, MessageTypes DEF PoolPushJob
  <2> QED BY <1>10, <2>1, <2>2, <2>3 DEF PoolStep
<1>11. ASSUME NEW p \in FeePool, FeeTaskStep(p) PROVE BalanceInv'
  BY <1>0, <1>11
  DEF FeeTaskStep, FeeJobArrives, ForwardShare, ForwardShareLost, ForwardShareFails, TakeShare,
      FeePoolClose, Relogin, ReloginFails, session, mainPool
<1>12. CASE UNCHANGED vars
  BY <1>0, <1>12 DEF vars, session, mainPool
<1> QED BY <1>9, <1>10, <1>11, <1>12 DEF Next

(* No share counted for the main pool goes astray, for any number of       *)
(* shares and lines in flight: whatever the counters say was submitted is  *)
(* decided, or its verdict is still on its way.                            *)
THEOREM MainSharesAccounted == Spec => []NoMainShareAstray
<1>1. Init => BalanceInv
  BY FreshBalance DEF Init, BalanceInv
<1> QED BY <1>1, BalanceStep, BalanceIs, TypeCorrect, PTL DEF Spec

-----------------------------------------------------------------------------
(* The lot that decides on a fee round: the range of the draw, the           *)
(* comparison and the clamps of is_fee_random fit together, for every rate.  *)

\* What the cut to an integer keeps of a positive rate.
LEMMA RateCut ==
  ASSUME NEW x \in Nat, x > 0, NEW unit \in Nat \ {0}
  PROVE  /\ PerMille(x, unit) \in Nat
         /\ PerMille(x, unit) * unit <= 1000 * x
         /\ 1000 * x < (PerMille(x, unit) + 1) * unit
<1> DEFINE k == (1000 * x) \div unit
           r == (1000 * x) % unit
<1>1. /\ 1000 * x = unit * k + r /\ 0 <= r /\ r < unit
      /\ k \in Int /\ r \in Int
  OBVIOUS
<1>2. PerMille(x, unit) = k
  BY DEF PerMille
<1> HIDE DEF k, r
<1>3. k * unit <= 1000 * x /\ 1000 * x < (k + 1) * unit
  BY <1>1
<1>4. k >= 0
  <2>1. 1000 * x > 0 /\ k \in Int
    BY <1>1
  <2>2. \A n \in Int : n <= 0 => n * unit <= 0
    OBVIOUS
  <2>3. k + 1 <= 0 => ~(1000 * x < (k + 1) * unit)
    BY <2>1, <2>2
  <2> QED BY <1>3, <2>1, <2>3
<1> QED BY <1>1, <1>2, <1>3, <1>4

\* A max of k thousandths wins k of the 999 lots, as long as it is below 1000.
LEMMA LotsOf ==
  ASSUME NEW x, NEW unit, NEW k \in 0..999, PerMille(x, unit) = k
  PROVE  Cardinality(Lots(x, unit)) = k
<1> PICK first \in 1..1000 : first = 1000 - k
  OBVIOUS
<1>1. Lots(x, unit) = first..999
  BY SMTT(60) DEF Lots, Secret, FeeRound, Threshold
<1>2. CASE first <= 999
  BY <1>1, <1>2, FS_Interval
<1>3. CASE first = 1000
  BY <1>1, <1>3, FS_EmptySet
<1> QED BY <1>2, <1>3

\* A positive rate below one wins as many of the draws, counted in thousandths,
\* as it says, cut to an integer: never more, and short of it by less than one.
THEOREM RateIsHonoured ==
  \A unit \in Nat \ {0} : \A x \in 1..(unit - 1) :
    LET won == Cardinality(Lots(x, unit))
    IN  won * unit <= 1000 * x /\ 1000 * x < (won + 1) * unit
<1> SUFFICES ASSUME NEW unit \in Nat \ {0}, NEW x \in 1..(unit - 1)
             PROVE  LET won == Cardinality(Lots(x, unit))
                    IN  won * unit <= 1000 * x /\ 1000 * x < (won + 1) * unit
  OBVIOUS
<1> DEFINE k == PerMille(x, unit)
<1>1. k \in Nat /\ k * unit <= 1000 * x /\ 1000 * x < (k + 1) * unit
  BY RateCut
<1> HIDE DEF k
<1>2. k <= 999
  <2> SUFFICES ASSUME k >= 1000 PROVE FALSE
    BY <1>1
  <2>1. k * unit >= 1000 * unit
    BY <1>1
  <2> QED BY <1>1, <2>1
<1>3. Cardinality(Lots(x, unit)) = k
  <2>1. k \in Nat
    BY <1>1
  <2>2. k \in 0..999
    BY <1>2, <2>1
  <2>3. PerMille(x, unit) = k
    BY DEF k
  <2> QED BY <2>2, <2>3, LotsOf
<1> QED BY <1>1, <1>3

\* A rate of one and more makes every job of the main pool a fee round; one that
\* is positive but below a thousandth makes none; and one of zero or less, which
\* is raised to a thousandth first, still wins one draw of 999.
THEOREM RateLimits ==
  \A unit \in Nat \ {0} : \A x \in Int :
    /\ x >= unit => Lots(x, unit) = Secret
    /\ 0 < x /\ 1000 * x < unit => Lots(x, unit) = {}
    /\ x <= 0 => Lots(x, unit) = {999}
<1> SUFFICES ASSUME NEW unit \in Nat \ {0}, NEW x \in Int
             PROVE  /\ x >= unit => Lots(x, unit) = Secret
                    /\ 0 < x /\ 1000 * x < unit => Lots(x, unit) = {}
                    /\ x <= 0 => Lots(x, unit) = {999}
  OBVIOUS
<1> DEFINE k == PerMille(x, unit)
<1>1. 0 < x => k \in Nat /\ k * unit <= 1000 * x /\ 1000 * x < (k + 1) * unit
  BY RateCut
<1>2. x <= 0 => k = 1
  BY DEF PerMille
<1> HIDE DEF k
<1>3. ASSUME x >= unit PROVE Lots(x, unit) = Secret
  <2>1. k \in Nat /\ 1000 * unit < (k + 1) * unit
    BY <1>1, <1>3
  <2>2. k >= 1000
    BY <2>1
  <2>3. \A secret \in Secret : FeeRound(secret, k)
    BY <2>1, <2>2 DEF Secret, FeeRound, Threshold
  <2> QED BY <2>3 DEF Lots, k
<1>4. ASSUME 0 < x, 1000 * x < unit PROVE Lots(x, unit) = {}
  <2>1. k \in Nat /\ k * unit < unit
    BY <1>1, <1>4
  <2>2. k = 0
    BY <2>1
  <2>3. \A secret \in Secret : ~FeeRound(secret, k)
    BY <2>2 DEF Secret, FeeRound, Threshold
  <2> QED BY <2>3 DEF Lots, k
<1>5. ASSUME x <= 0 PROVE Lots(x, unit) = {999}
  <2>1. \A secret \in Secret : FeeRound(secret, 1) <=> secret = 999
    BY DEF Secret, FeeRound, Threshold
  <2> QED BY <1>2, <1>5, <2>1 DEF Lots, k, Secret
<1> QED BY <1>3, <1>4, <1>5

\* Among positive rates a higher one takes every round a lower one takes; with
\* zero among them that fails (RateLimits: it takes one, 0.0005 none).
THEOREM RatesNest ==
  \A unit \in Nat \ {0} : \A x, y \in Nat \ {0} :
    x <= y => Lots(x, unit) \subseteq Lots(y, unit)
<1> SUFFICES ASSUME NEW unit \in Nat \ {0}, NEW x \in Nat \ {0}, NEW y \in Nat \ {0}, x <= y
             PROVE  Lots(x, unit) \subseteq Lots(y, unit)
  OBVIOUS
<1> DEFINE j == PerMille(x, unit)
           k == PerMille(y, unit)
<1>1. /\ j \in Nat /\ j * unit <= 1000 * x
      /\ k \in Nat /\ 1000 * y < (k + 1) * unit
  <2>1. j \in Nat /\ j * unit <= 1000 * x
    BY RateCut
  <2>2. k \in Nat /\ 1000 * y < (k + 1) * unit
    BY RateCut
  <2> QED BY <2>1, <2>2
<1> HIDE DEF j, k
<1>2. j <= k
  <2>1. j * unit < (k + 1) * unit
    BY <1>1
  <2> QED BY <1>1, <2>1
<1>3. \A secret \in Secret : FeeRound(secret, j) => FeeRound(secret, k)
  BY <1>1, <1>2 DEF Secret, FeeRound, Threshold
<1> QED BY <1>3 DEF Lots, j, k
=============================================================================
