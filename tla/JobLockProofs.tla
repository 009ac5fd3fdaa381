--------------------------- MODULE JobLockProofs ---------------------------
(* JobLock implements JobBoard, for any number of miners and any bounds.   *)
EXTENDS JobLock, SequenceTheorems, TLAPS

(* Guards are held by exactly the sessions that write a fee job, and what  *)
(* they write is the newest job.                                           *)
GuardInv ==
  \A m \in Miner : /\ pc[m] = "feeJob" <=> m \in readers
                   /\ pc[m] = "feeJob" => held[m] = published /\ published > 0

LockInv == TypeOK /\ GuardInv

(* The initial state satisfies the invariant. *)
LEMMA LockInit == Init => LockInv
<1> SUFFICES ASSUME Init PROVE LockInv
  OBVIOUS
<1>1. 0 \in 0..Sock /\ 0 \in 0..FeeSock /\ 0 \in 0..Cap
  BY LockAssumption
<1>2. TypeOK
  BY <1>1 DEF Init, TypeOK, SessionPc, TaskPc
<1>3. GuardInv
  BY DEF Init, GuardInv
<1> QED BY <1>2, <1>3 DEF LockInv

(* What is taken from the head of the waiters, or put at their end. *)
LEMMA WaitersType ==
  ASSUME TypeOK
  PROVE  /\ \A x \in Miner \cup {FeeTask} : Append(waiters, x) \in Seq(Miner \cup {FeeTask})
         /\ waiters # <<>> => Tail(waiters) \in Seq(Miner \cup {FeeTask})
<1>1. waiters \in Seq(Miner \cup {FeeTask})
  BY DEF TypeOK
<1> QED BY <1>1, AppendProperties, HeadTailProperties

(* Every variable is kept in its type by a step. *)
LEMMA TypeStep == ASSUME TypeOK, [Next]_vars PROVE TypeOK'
<1> USE DEF TypeOK
<1>1. ASSUME NEW m \in Miner, FeeRound(m) PROVE TypeOK'
  <2>1. waiters' \in Seq(Miner \cup {FeeTask})
    BY <1>1, WaitersType DEF FeeRound
  <2>2. pc' \in [Miner -> SessionPc]
    BY <1>1 DEF FeeRound, Goto, SessionPc
  <2> QED BY <1>1, <2>1, <2>2 DEF FeeRound
<1>2. ASSUME NEW m \in Miner, OtherLine(m) \/ FeeShare(m) PROVE TypeOK'
  <2>1. chan' \in 0..Cap
    BY <1>2, LockAssumption DEF OtherLine, FeeShare
  <2>2. pc' \in [Miner -> SessionPc]
    BY <1>2 DEF OtherLine, FeeShare, Goto, SessionPc
  <2> QED BY <1>2, <2>1, <2>2 DEF OtherLine, FeeShare
<1>3. ASSUME NEW m \in Miner, ReadLock(m) PROVE TypeOK'
  BY <1>3, WaitersType DEF ReadLock, Goto, SessionPc
<1>4. ASSUME NEW m \in Miner, FeeJobWritten(m) PROVE TypeOK'
  BY <1>4, LockAssumption DEF FeeJobWritten, Write, DropGuard, Goto, SessionPc
<1>5. ASSUME NEW m \in Miner, MainJobWritten(m) PROVE TypeOK'
  BY <1>5, LockAssumption DEF MainJobWritten, Write, Goto, SessionPc
<1>6. ASSUME NEW m \in Miner, SessionEnds(m) PROVE TypeOK'
  <2>1. pc' \in [Miner -> SessionPc]
    BY <1>6 DEF SessionEnds, Goto, SessionPc
  <2>2. 0 \in 0..Sock /\ 0 \in Nat
    BY LockAssumption
  <2> QED BY <1>6, <2>1, <2>2 DEF SessionEnds, DropGuard
<1>7. ASSUME NEW m \in Miner, Accept(m) \/ MinerReads(m) PROVE TypeOK'
  <2>1. CASE Accept(m)
    BY <1>7, <2>1 DEF Accept, Goto, SessionPc
  <2>2. CASE MinerReads(m)
    BY <1>7, <2>2, LockAssumption DEF MinerReads
  <2> QED BY <1>7, <2>1, <2>2
<1>8. CASE JobArrives \/ PushJob
  <2>1. waiters' \in Seq(Miner \cup {FeeTask})
    BY <1>8, WaitersType DEF JobArrives, PushJob
  <2>2. published' \in Nat /\ task' \in TaskPc
    BY <1>8 DEF JobArrives, PushJob, TaskPc
  <2> QED BY <1>8, <2>1, <2>2 DEF JobArrives, PushJob
<1>10. CASE TakeShare \/ GetWork \/ Sent \/ PoolLost \/ LoggedIn \/ FeePoolReads
  <2>1. chan' \in 0..Cap /\ feeUnread' \in 0..FeeSock
    BY <1>10, LockAssumption DEF TakeShare, GetWork, Sent, PoolLost, LoggedIn, FeePoolReads
  <2>2. task' \in TaskPc
    BY <1>10 DEF TakeShare, GetWork, Sent, PoolLost, LoggedIn, FeePoolReads, TaskPc
  <2> QED BY <1>10, <2>1, <2>2 DEF TakeShare, GetWork, Sent, PoolLost, LoggedIn, FeePoolReads
<1>11. CASE ProcessEnds
  <2>1. 0 \in 0..Sock /\ 0 \in 0..FeeSock /\ <<>> \in Seq(Miner \cup {FeeTask})
    BY LockAssumption
  <2> QED BY <1>11, <2>1 DEF ProcessEnds, SessionPc, TaskPc
<1>9. CASE UNCHANGED vars
  BY <1>9 DEF vars
<1> QED
  BY <1>1, <1>2, <1>3, <1>4, <1>5, <1>6, <1>7, <1>8, <1>9, <1>10, <1>11 DEF Next, Session, Over

(* Guards stay with the sessions that write the newest job. *)
LEMMA GuardStep == ASSUME LockInv, [Next]_vars PROVE GuardInv'
<1> USE DEF LockInv, TypeOK, GuardInv
<1>1. ASSUME NEW m \in Miner, FeeRound(m) \/ OtherLine(m) \/ FeeShare(m) PROVE GuardInv'
  BY <1>1 DEF FeeRound, OtherLine, FeeShare, Goto
<1>2. ASSUME NEW m \in Miner, ReadLock(m) PROVE GuardInv'
  BY <1>2 DEF ReadLock, Goto
<1>3. ASSUME NEW m \in Miner, FeeJobWritten(m) PROVE GuardInv'
  BY <1>3 DEF FeeJobWritten, DropGuard, Goto
<1>4. ASSUME NEW m \in Miner, MainJobWritten(m) PROVE GuardInv'
  BY <1>4 DEF MainJobWritten, Goto
<1>5. ASSUME NEW m \in Miner, SessionEnds(m) PROVE GuardInv'
  BY <1>5 DEF SessionEnds, DropGuard, Goto
<1>6. ASSUME NEW m \in Miner, Accept(m) \/ MinerReads(m) PROVE GuardInv'
  BY <1>6 DEF Accept, MinerReads, Goto
<1>7. CASE PushJob
  BY <1>7 DEF PushJob
<1>8. CASE JobArrives \/ TakeShare \/ GetWork \/ Sent \/ PoolLost \/ LoggedIn \/ FeePoolReads
  BY <1>8 DEF JobArrives, TakeShare, GetWork, Sent, PoolLost, LoggedIn, FeePoolReads
<1>9. CASE UNCHANGED vars
  BY <1>9 DEF vars
<1>10. CASE ProcessEnds
  BY <1>10 DEF ProcessEnds
<1> QED
  BY <1>1, <1>2, <1>3, <1>4, <1>5, <1>6, <1>7, <1>8, <1>9, <1>10 DEF Next, Session, Over

(* The invariant holds in every run. *)
THEOREM GuardsHeld == Spec => []LockInv
<1>1. LockInv /\ [Next]_vars => LockInv'
  BY TypeStep, GuardStep DEF LockInv
<1> QED BY LockInit, <1>1, PTL DEF Spec

(* Every variable stays in its type: no socket takes more lines than it    *)
(* has room for, no channel more shares than its capacity.                 *)
THEOREM TypeCorrect == Spec => []TypeOK
BY GuardsHeld, PTL DEF LockInv

(* A job that is being written to a miner is still the newest one.         *)
THEOREM Newest == Spec => []HandedJobIsNewest
<1>1. LockInv => HandedJobIsNewest
  BY DEF LockInv, GuardInv, HandedJobIsNewest
<1> QED BY <1>1, GuardsHeld, PTL

(* The queue under its RwLock implements the board of jobs: handing out a  *)
(* job is one step of the board, when its write to the miner returns.      *)
THEOREM ImplementsBoard == Spec => BoardSpec
<1>1. Init => Board!Init
  BY DEF Init, Board!Init
<1>2. LockInv /\ [Next]_vars => [Board!Next]_<<published, last>>
  <2> SUFFICES ASSUME LockInv, [Next]_vars PROVE [Board!Next]_<<published, last>>
    OBVIOUS
  <2>1. CASE PushJob
    BY <2>1 DEF PushJob, Board!Next, Board!Publish
  <2>2. ASSUME NEW m \in Miner, FeeJobWritten(m) PROVE Board!Next
    BY <2>2 DEF FeeJobWritten, LockInv, GuardInv, Board!Next, Board!HandOut
  <2>3. ASSUME NEW m \in Miner,
               \/ FeeRound(m) \/ OtherLine(m) \/ FeeShare(m) \/ ReadLock(m)
               \/ MainJobWritten(m) \/ SessionEnds(m) \/ Accept(m) \/ MinerReads(m)
        PROVE  UNCHANGED <<published, last>>
    BY <2>3 DEF FeeRound, OtherLine, FeeShare, ReadLock, MainJobWritten, SessionEnds, Accept,
                MinerReads
  <2>4. CASE \/ JobArrives \/ TakeShare \/ GetWork \/ Sent \/ PoolLost \/ LoggedIn
             \/ ProcessEnds \/ FeePoolReads
    BY <2>4 DEF JobArrives, TakeShare, GetWork, Sent, PoolLost, LoggedIn, ProcessEnds, FeePoolReads
  <2>5. CASE UNCHANGED vars
    BY <2>5 DEF vars
  <2> QED BY <2>1, <2>2, <2>3, <2>4, <2>5 DEF Next, Session, Over
<1> QED BY <1>1, <1>2, GuardsHeld, PTL DEF Spec, BoardSpec, Board!Spec

-----------------------------------------------------------------------------
(* The waiters.                                                            *)

(* Nobody waits twice, and whoever awaits the lock is among the waiters:   *)
(* the sessions in a fee round, and the fee task with a job to publish.    *)
Once    == \A i, k \in 1..Len(waiters) : waiters[i] = waiters[k] => i = k
Readers == \A m \in Miner : pc[m] = "read" <=> m \in Elems(waiters)
Writer  == task = "lock" <=> FeeTask \in Elems(waiters)
WaitInv == Once /\ Readers /\ Writer

(* The waiters are sessions and the fee task. *)
LEMMA WaitersAre ==
  ASSUME TypeOK
  PROVE  Elems(waiters) \subseteq Miner \cup {FeeTask}
<1>1. waiters \in Seq(Miner \cup {FeeTask})
  BY DEF TypeOK
<1>2. \A i \in 1..Len(waiters) : waiters[i] \in Miner \cup {FeeTask}
  BY <1>1, ElementOfSeq
<1> QED BY <1>2 DEF Elems

(* Whoever asks goes to the end of the waiters. *)
LEMMA AskedAtEnd ==
  ASSUME TypeOK, Once, NEW x \in Miner \cup {FeeTask}, x \notin Elems(waiters),
         waiters' = Append(waiters, x)
  PROVE  Once' /\ Elems(waiters') = Elems(waiters) \cup {x}
<1> DEFINE n == Len(waiters) + 1
<1>1. /\ Len(waiters) \in Nat /\ Len(waiters') = n /\ waiters'[n] = x
      /\ \A i \in 1..Len(waiters) : waiters'[i] = waiters[i]
  <2>1. waiters \in Seq(Miner \cup {FeeTask})
    BY DEF TypeOK
  <2> QED BY <2>1, AppendProperties, LenProperties
<1>2. \A i : i \in 1..n <=> i \in 1..Len(waiters) \/ i = n
  BY <1>1
<1>3. \A i \in 1..Len(waiters) : waiters[i] # x
  BY DEF Elems
<1> HIDE DEF n
<1>4. Once'
  BY <1>1, <1>2, <1>3 DEF Once
<1>5. Elems(waiters') = Elems(waiters) \cup {x}
  BY <1>1, <1>2 DEF Elems
<1> QED BY <1>4, <1>5

(* Whoever is served leaves the head of the waiters, and is not left among *)
(* them.                                                                   *)
LEMMA ServedAtHead ==
  ASSUME TypeOK, Once, waiters # <<>>, waiters' = Tail(waiters)
  PROVE  Once' /\ Elems(waiters') = Elems(waiters) \ {Head(waiters)}
<1>1. /\ Len(waiters) \in Nat \ {0} /\ Len(waiters') = Len(waiters) - 1
      /\ Head(waiters) = waiters[1]
      /\ \A i \in 1..Len(waiters') : waiters'[i] = waiters[i + 1]
  <2>1. waiters \in Seq(Miner \cup {FeeTask})
    BY DEF TypeOK
  <2> QED BY <2>1, HeadTailProperties, LenProperties, EmptySeq
<1>2. \A i \in 1..Len(waiters') : i + 1 \in 1..Len(waiters) /\ i + 1 # 1
  BY <1>1
<1>3. \A i \in 1..Len(waiters) : i # 1 => i - 1 \in 1..Len(waiters') /\ (i - 1) + 1 = i
  BY <1>1
<1>4. 1 \in 1..Len(waiters)
  BY <1>1
<1>5. \A i, k \in 1..Len(waiters') : i + 1 = k + 1 => i = k
  BY <1>1
<1>6. Once'
  BY <1>1, <1>2, <1>5 DEF Once
<1>7. Elems(waiters') \subseteq Elems(waiters) \ {Head(waiters)}
  BY <1>1, <1>2, <1>4 DEF Elems, Once
<1>8. ASSUME NEW x \in Elems(waiters) \ {Head(waiters)} PROVE x \in Elems(waiters')
  <2>1. PICK i \in 1..Len(waiters) : waiters[i] = x
    BY <1>8 DEF Elems
  <2>2. i # 1
    BY <1>1, <1>8, <2>1
  <2>3. i - 1 \in 1..Len(waiters') /\ waiters'[i - 1] = x
    BY <1>1, <1>3, <2>1, <2>2
  <2> QED BY <2>3 DEF Elems
<1> QED BY <1>6, <1>7, <1>8

(* The waiters stay those that await the lock. *)
LEMMA WaitStep ==
  ASSUME TypeOK, WaitInv, [Next]_vars
  PROVE  WaitInv'
<1>t. pc \in [Miner -> SessionPc] /\ FeeTask \notin Miner
  BY FeeTaskAssumption DEF TypeOK
<1>0. ASSUME waiters' = waiters PROVE Once' /\ Elems(waiters') = Elems(waiters)
  BY <1>0 DEF WaitInv, Once
<1>1. ASSUME NEW m \in Miner, FeeRound(m) PROVE WaitInv'
  <2>1. m \notin Elems(waiters)
    BY <1>1 DEF FeeRound, WaitInv, Readers
  <2>2. Once' /\ Elems(waiters') = Elems(waiters) \cup {m}
    BY <1>1, <2>1, AskedAtEnd DEF FeeRound, WaitInv
  <2>3. Readers'
    BY <1>1, <1>t, <2>2 DEF FeeRound, Goto, WaitInv, Readers
  <2>4. Writer'
    BY <1>1, <1>t, <2>2 DEF FeeRound, WaitInv, Writer
  <2> QED BY <2>2, <2>3, <2>4 DEF WaitInv
<1>2. ASSUME NEW m \in Miner, ReadLock(m) PROVE WaitInv'
  <2>1. Once' /\ Elems(waiters') = Elems(waiters) \ {m}
    BY <1>2, ServedAtHead DEF ReadLock, WaitInv
  <2>2. pc' = [pc EXCEPT ![m] = pc'[m]] /\ pc'[m] # "read"
    BY <1>2, <1>t DEF ReadLock, Goto
  <2>3. Readers'
    BY <1>t, <2>1, <2>2 DEF WaitInv, Readers
  <2>4. Writer'
    BY <1>2, <1>t, <2>1 DEF ReadLock, WaitInv, Writer
  <2> QED BY <2>1, <2>3, <2>4 DEF WaitInv
<1>3. ASSUME NEW m \in Miner, NEW l \in SessionPc \ {"read"}, pc[m] # "read",
             Goto(m, l), waiters' = waiters, task' = task
      PROVE  WaitInv'
  <2>1. Readers'
    BY <1>0, <1>3, <1>t DEF Goto, WaitInv, Readers
  <2>2. Writer'
    BY <1>0, <1>3 DEF WaitInv, Writer
  <2> QED BY <1>0, <1>3, <2>1, <2>2 DEF WaitInv
<1>4. ASSUME NEW m \in Miner,
             \/ OtherLine(m) \/ FeeShare(m) \/ FeeJobWritten(m) \/ MainJobWritten(m)
             \/ SessionEnds(m) \/ Accept(m)
      PROVE  WaitInv'
  <2>1. \E l \in SessionPc \ {"read"} : Goto(m, l)
    BY <1>4 DEF OtherLine, FeeShare, FeeJobWritten, MainJobWritten, SessionEnds, Accept, SessionPc
  <2>2. pc[m] # "read" /\ waiters' = waiters /\ task' = task
    BY <1>4 DEF OtherLine, FeeShare, FeeJobWritten, MainJobWritten, SessionEnds, Accept
  <2> QED BY <1>3, <2>1, <2>2
<1>5. CASE JobArrives
  <2>1. FeeTask \notin Elems(waiters)
    BY <1>5 DEF JobArrives, WaitInv, Writer
  <2>2. Once' /\ Elems(waiters') = Elems(waiters) \cup {FeeTask}
    BY <1>5, <2>1, AskedAtEnd DEF JobArrives, WaitInv
  <2>3. Readers' /\ Writer'
    BY <1>5, <1>t, <2>2 DEF JobArrives, WaitInv, Readers, Writer
  <2> QED BY <2>2, <2>3 DEF WaitInv
<1>6. CASE PushJob
  <2>1. Once' /\ Elems(waiters') = Elems(waiters) \ {FeeTask}
    BY <1>6, ServedAtHead DEF PushJob, WaitInv
  <2>2. Readers' /\ Writer'
    BY <1>6, <1>t, <2>1 DEF PushJob, WaitInv, Readers, Writer
  <2> QED BY <2>1, <2>2 DEF WaitInv
<1>7. ASSUME UNCHANGED <<pc, waiters, task>> PROVE WaitInv'
  BY <1>0, <1>7 DEF WaitInv, Readers, Writer
<1>8. CASE FeePoolReads \/ \E m \in Miner : MinerReads(m)
  BY <1>7, <1>8 DEF FeePoolReads, MinerReads
<1>9. CASE UNCHANGED vars
  BY <1>7, <1>9 DEF vars
<1>10. CASE TakeShare \/ GetWork \/ Sent \/ PoolLost \/ LoggedIn
  <2>1. waiters' = waiters /\ pc' = pc /\ task # "lock" /\ task' # "lock"
    BY <1>10 DEF TakeShare, GetWork, Sent, PoolLost, LoggedIn
  <2> QED BY <1>0, <2>1 DEF WaitInv, Readers, Writer
<1>11. CASE ProcessEnds
  <2>1. waiters' = <<>> /\ task' = "over" /\ \A m \in Miner : pc'[m] = "gone"
    BY <1>11 DEF ProcessEnds
  <2>2. Elems(waiters') = {} /\ Once'
    BY <2>1 DEF Elems, Once
  <2> QED BY <2>1, <2>2 DEF WaitInv, Readers, Writer
<1> QED
  BY <1>1, <1>2, <1>4, <1>5, <1>6, <1>8, <1>9, <1>10, <1>11 DEF Next, Session, Over

(* The lock is never stuck by itself: whenever somebody waits for it, the  *)
(* first in the queue is a session that may take a guard at once, or the   *)
(* fee task, which may push its job unless a guard is out; and who holds   *)
(* a guard is a session in the middle of a write to its miner, which ends  *)
(* with the write or with the connection.                                  *)
HeadMayGo ==
  waiters # <<>> =>
    \/ Head(waiters) \in Miner /\ pc[Head(waiters)] = "read"
    \/ /\ Head(waiters) = FeeTask /\ task = "lock"
       /\ readers = {} \/ \E m \in readers : pc[m] = "feeJob"

(* The only thing in the proxy that can hold up the job queue of a fee     *)
(* pool is a write to a miner (handle_stream.rs:206-216, 237-246): no      *)
(* waiter is forgotten, none waits twice, and no guard outlives its write. *)
THEOREM LockIsNeverStuck == Spec => []HeadMayGo
<1>1. Init => WaitInv
  BY DEF Init, WaitInv, Once, Readers, Writer, Elems
<1>2. ASSUME LockInv, WaitInv PROVE HeadMayGo
  <2> SUFFICES ASSUME waiters # <<>>
               PROVE  \/ Head(waiters) \in Miner /\ pc[Head(waiters)] = "read"
                      \/ /\ Head(waiters) = FeeTask /\ task = "lock"
                         /\ readers = {} \/ \E m \in readers : pc[m] = "feeJob"
    BY DEF HeadMayGo
  <2>1. Head(waiters) \in Elems(waiters)
    <3>1. waiters \in Seq(Miner \cup {FeeTask})
      BY <1>2 DEF LockInv, TypeOK
    <3>2. Head(waiters) = waiters[1] /\ 1 \in 1..Len(waiters)
      BY <3>1, HeadTailProperties, LenProperties, EmptySeq
    <3> QED BY <3>2 DEF Elems
  <2>2. CASE Head(waiters) \in Miner
    BY <1>2, <2>1, <2>2 DEF WaitInv, Readers
  <2>3. CASE Head(waiters) = FeeTask
    BY <1>2, <2>1, <2>3 DEF LockInv, TypeOK, GuardInv, WaitInv, Writer
  <2> QED BY <1>2, <2>1, <2>2, <2>3, WaitersAre DEF LockInv
<1> QED BY <1>1, <1>2, WaitStep, GuardsHeld, PTL DEF Spec, LockInv

===============================================================================
