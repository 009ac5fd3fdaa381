------------------------------ MODULE JobLock ------------------------------
(***************************************************************************)
(* The job queue of one fee pool and the tokio RwLock around it.           *)
(*                                                                         *)
(* In a fee round a session takes a read guard, and when the queue has a   *)
(* job it writes it to the miner before it drops the guard.  The fee task  *)
(* needs the write lock for each job of the pool, and serves the channel   *)
(* of shares from the same loop.  tokio's RwLock is a fair semaphore: a    *)
(* task that must wait queues up, and nobody overtakes it.  So a miner     *)
(* that does not read its socket holds up the fee task, every session in a *)
(* fee round, and the shares of all miners.  A fee pool that does not read *)
(* its socket, or does not finish a login, holds up the shares only.       *)
(***************************************************************************)
EXTENDS Naturals, Sequences, FiniteSets

CONSTANTS
  Miner,     \* the miners, with a session each
  Sock,      \* lines that fit in the socket buffers towards a miner
  FeeSock,   \* the same towards the fee pool
  Cap,       \* capacity of the share channel
  MaxJob     \* bound: jobs the fee pool issues

ASSUME LockAssumption ==
  Sock \in Nat \ {0} /\ FeeSock \in Nat \ {0} /\ Cap \in Nat \ {0} /\ MaxJob \in Nat

FeeTask == "fee task"
ASSUME FeeTaskAssumption == FeeTask \notin Miner

VARIABLES
  pc,        \* where the session of a miner is
  held,      \* the job a session is writing under its guard, 0 for none
  unread,    \* lines in the socket buffers of a miner
  readers,   \* sessions that hold a read guard
  waiters,   \* who waits for the lock, in the order of asking
  task,      \* where the fee task is
  feeUnread, \* lines in the socket buffers of the fee pool
  published, \* length of the queue: the job with the highest number is back()
  chan,      \* shares in the channel
  last       \* the last fee job written to each miner, 0 for none

vars == <<pc, held, unread, readers, waiters, task, feeUnread, published, chan, last>>

(* select   at the select! of handle_stream                                *)
(* read     awaiting the read guard                                        *)
(* feeJob   writing a fee job to the miner, under the guard                *)
(* mainJob  writing the main pool's job, or a reply, to the miner          *)
(* gone     no session                                                     *)
SessionPc == {"select", "read", "feeJob", "mainJob", "gone"}

(* select   at the select! of fee_tcp (fee_ssl, develop_fee_ssl)           *)
(* lock     awaiting the write guard with a job of the pool                *)
(* send     writing a share, or an eth_getWork, to the fee pool            *)
(* login    logging in to the fee pool again                               *)
(* over     the process has ended                                          *)
TaskPc == {"select", "lock", "send", "login", "over"}

Elems(s) == {s[i] : i \in 1..Len(s)}

Init ==
  /\ pc = [m \in Miner |-> "select"]
  /\ held = [m \in Miner |-> 0]
  /\ unread = [m \in Miner |-> 0]
  /\ readers = {}
  /\ waiters = <<>>
  /\ task = "select"
  /\ feeUnread = 0
  /\ published = 0
  /\ chan = 0
  /\ last = [m \in Miner |-> 0]

-----------------------------------------------------------------------------
Goto(m, l) == pc' = [pc EXCEPT ![m] = l]

(* A job of the main pool, and a lot that makes it a fee round.            *)
FeeRound(m) ==
  /\ pc[m] = "select"
  /\ Goto(m, "read")
  /\ waiters' = Append(waiters, m)
  /\ UNCHANGED <<held, unread, readers, task, feeUnread, published, chan, last>>

(* A job that is no fee round, or a request that is answered at once.      *)
OtherLine(m) ==
  /\ pc[m] = "select"
  /\ Goto(m, "mainJob")
  /\ UNCHANGED <<held, unread, readers, waiters, task, feeUnread, published, chan, last>>

(* Mutant: a channel that takes one share too many.                        *)
FeeShareOverfull(m) ==
  /\ pc[m] = "select" /\ last[m] # 0
  /\ Goto(m, "mainJob")
  /\ chan' = IF chan <= Cap THEN chan + 1 ELSE chan
  /\ UNCHANGED <<held, unread, readers, waiters, task, feeUnread, published, last>>

(* A share of a fee job is put in the channel if there is room.            *)
FeeShare(m) ==
  /\ pc[m] = "select" /\ last[m] # 0
  /\ Goto(m, "mainJob")
  /\ chan' = IF chan < Cap THEN chan + 1 ELSE chan
  /\ UNCHANGED <<held, unread, readers, waiters, task, feeUnread, published, last>>

(* Mutant: the job is cloned and the guard dropped before the write.       *)
ReadLockCloning(m) ==
  /\ pc[m] = "read" /\ waiters # <<>> /\ Head(waiters) = m
  /\ waiters' = Tail(waiters)
  /\ IF published > 0
     THEN Goto(m, "feeJob") /\ held' = [held EXCEPT ![m] = published]
     ELSE Goto(m, "mainJob") /\ UNCHANGED held
  /\ UNCHANGED <<unread, readers, task, feeUnread, published, chan, last>>

(* The session at the head of the waiters takes a guard; it finds a job    *)
(* and keeps the guard, or finds none, drops it and sends the other job.   *)
ReadLock(m) ==
  /\ pc[m] = "read" /\ waiters # <<>> /\ Head(waiters) = m
  /\ waiters' = Tail(waiters)
  /\ IF published > 0
     THEN /\ Goto(m, "feeJob")
          /\ readers' = readers \cup {m}
          /\ held' = [held EXCEPT ![m] = published]
     ELSE Goto(m, "mainJob") /\ UNCHANGED <<readers, held>>
  /\ UNCHANGED <<unread, task, feeUnread, published, chan, last>>

(* write() returns once the socket takes the line.                         *)
Write(m) ==
  /\ unread[m] < Sock
  /\ unread' = [unread EXCEPT ![m] = @ + 1]

(* Mutant: a guard that outlives the fee round.                            *)
DropGuardLeaked(m) == UNCHANGED readers

(* The guard's scope ends, at the continue or with the session.            *)
DropGuard(m) == readers' = readers \ {m}

FeeJobWritten(m) ==
  /\ pc[m] = "feeJob"
  /\ Write(m)
  /\ DropGuard(m)
  /\ Goto(m, "select")
  /\ last' = [last EXCEPT ![m] = held[m]]
  /\ held' = [held EXCEPT ![m] = 0]
  /\ UNCHANGED <<waiters, task, feeUnread, published, chan>>

MainJobWritten(m) ==
  /\ pc[m] = "mainJob"
  /\ Write(m)
  /\ Goto(m, "select")
  /\ UNCHANGED <<held, readers, waiters, task, feeUnread, published, chan, last>>

(* The connection ends: a session that reads or writes notices it and      *)
(* returns, dropping its guard; one that waits for the lock does not.      *)
SessionEnds(m) ==
  /\ pc[m] \in {"select", "feeJob", "mainJob"}
  /\ Goto(m, "gone")
  /\ DropGuard(m)
  /\ held' = [held EXCEPT ![m] = 0]
  /\ unread' = [unread EXCEPT ![m] = 0]
  /\ UNCHANGED <<waiters, task, feeUnread, published, chan, last>>

Accept(m) ==
  /\ pc[m] = "gone" /\ task # "over"
  /\ Goto(m, "select")
  /\ UNCHANGED <<held, unread, readers, waiters, task, feeUnread, published, chan, last>>

(* The miner takes a line from its socket.                                 *)
MinerReads(m) ==
  /\ unread[m] > 0
  /\ unread' = [unread EXCEPT ![m] = @ - 1]
  /\ UNCHANGED <<pc, held, readers, waiters, task, feeUnread, published, chan, last>>

-----------------------------------------------------------------------------
(* A job line of the fee pool: the task asks for the write lock.           *)
JobArrives ==
  /\ task = "select" /\ published < MaxJob
  /\ task' = "lock"
  /\ waiters' = Append(waiters, FeeTask)
  /\ UNCHANGED <<pc, held, unread, readers, feeUnread, published, chan, last>>

(* At the head of the waiters, with no guard out: push_back, and the write *)
(* guard is dropped at once.                                               *)
PushJob ==
  /\ task = "lock" /\ waiters # <<>> /\ Head(waiters) = FeeTask
  /\ readers = {}
  /\ waiters' = Tail(waiters)
  /\ published' = published + 1
  /\ task' = "select"
  /\ UNCHANGED <<pc, held, unread, readers, feeUnread, chan, last>>

(* The arms of the channel and of the timer: a write to the fee pool,      *)
(* which returns once its socket takes the line.                           *)
TakeShare ==
  /\ task = "select" /\ chan > 0
  /\ chan' = chan - 1
  /\ task' = "send"
  /\ UNCHANGED <<pc, held, unread, readers, waiters, feeUnread, published, last>>

GetWork ==
  /\ task = "select"
  /\ task' = "send"
  /\ UNCHANGED <<pc, held, unread, readers, waiters, feeUnread, published, chan, last>>

Sent ==
  /\ task = "send" /\ feeUnread < FeeSock
  /\ feeUnread' = feeUnread + 1
  /\ task' = "select"
  /\ UNCHANGED <<pc, held, unread, readers, waiters, published, chan, last>>

(* The end of the fee pool's lines: the task dials and logs in again, with *)
(* a TLS handshake that has no timeout, and writes the login line.         *)
PoolLost ==
  /\ task = "select"
  /\ task' = "login"
  /\ UNCHANGED <<pc, held, unread, readers, waiters, feeUnread, published, chan, last>>

LoggedIn ==
  /\ task = "login"
  /\ task' = "select" /\ feeUnread' = 1
  /\ UNCHANGED <<pc, held, unread, readers, waiters, published, chan, last>>

(* A write or a login that fails, here or in another branch of try_join!,  *)
(* ends the process, and every session with it.                            *)
ProcessEnds ==
  /\ task # "over"
  /\ task' = "over"
  /\ pc' = [m \in Miner |-> "gone"]
  /\ held' = [m \in Miner |-> 0]
  /\ unread' = [m \in Miner |-> 0]
  /\ readers' = {} /\ waiters' = <<>> /\ feeUnread' = 0
  /\ UNCHANGED <<published, chan, last>>

(* Nothing is left to do then.                                             *)
Over == task = "over" /\ UNCHANGED vars

(* The fee pool takes a line from its socket.                              *)
FeePoolReads ==
  /\ feeUnread > 0
  /\ feeUnread' = feeUnread - 1
  /\ UNCHANGED <<pc, held, unread, readers, waiters, task, published, chan, last>>

Session(m) ==
  \/ FeeRound(m) \/ OtherLine(m) \/ FeeShare(m) \/ ReadLock(m)
  \/ FeeJobWritten(m) \/ MainJobWritten(m) \/ SessionEnds(m) \/ Accept(m)

Next ==
  \/ \E m \in Miner : Session(m) \/ MinerReads(m)
  \/ JobArrives \/ PushJob \/ TakeShare \/ GetWork \/ Sent \/ PoolLost \/ LoggedIn
  \/ ProcessEnds \/ Over \/ FeePoolReads

(* The runtime polls every task that can go on: a guard that is free is    *)
(* taken, a write that has room returns.  select! draws among its ready    *)
(* branches, so a share is not passed over for ever: strong fairness of    *)
(* TakeShare.  Nothing is assumed of miners and of the fee pool here.      *)
Fairness ==
  /\ \A m \in Miner : /\ WF_vars(ReadLock(m))
                      /\ WF_vars(FeeJobWritten(m))
                      /\ WF_vars(MainJobWritten(m))
  /\ WF_vars(PushJob) /\ WF_vars(Sent) /\ SF_vars(TakeShare)

Spec == Init /\ [][Next]_vars /\ Fairness

(* What no line of the code makes sure of: that the peers read what they   *)
(* are sent, and that a login to the fee pool comes to an end.  (An end of *)
(* the connection would do as well.)                                       *)
MinersRead == \A m \in Miner : WF_vars(MinerReads(m))
FeePoolServes == WF_vars(FeePoolReads) /\ WF_vars(LoggedIn)

-----------------------------------------------------------------------------
(* Every variable stays in its type; only sessions in a fee round hold a   *)
(* guard, and only those that asked wait.                                  *)
TypeOK ==
  /\ pc \in [Miner -> SessionPc]
  /\ held \in [Miner -> Nat]
  /\ unread \in [Miner -> 0..Sock]
  /\ readers \subseteq Miner
  /\ waiters \in Seq(Miner \cup {FeeTask})
  /\ task \in TaskPc
  /\ feeUnread \in 0..FeeSock
  /\ published \in Nat
  /\ chan \in 0..Cap
  /\ last \in [Miner -> Nat]

(* The job a session is writing to its miner is still the newest one: the  *)
(* guard it keeps across the write holds the fee task's push back          *)
(* (handle_stream.rs:206-216 and 237-246, fee.rs:249-250).                 *)
HandedJobIsNewest ==
  \A m \in Miner : pc[m] = "feeJob" => held[m] = published

(* If miners read, the fee task gets the lock for each job of its pool,    *)
(* whatever fee rounds start meanwhile (fee.rs:249-250).                   *)
FeeTaskGetsLock == MinersRead => (task = "lock" ~> task # "lock")

(* If miners and the fee pool read, and logins to it come to an end, a     *)
(* full channel of shares is drained, or the process ends: the fee task    *)
(* serves it from the loop that awaits the lock, the writes and the logins *)
(* (fee.rs:229-263).                                                       *)
SharesDrain ==
  MinersRead /\ FeePoolServes => (chan = Cap ~> chan < Cap \/ task = "over")

(* If miners read, every session in a fee round comes back to its select!, *)
(* whatever the fee pool does: a fee task that is stuck in a write or a    *)
(* login has not asked for the lock (fee.rs:230-263).                      *)
SessionReturns ==
  MinersRead => \A m \in Miner : pc[m] = "read" ~> pc[m] \in {"select", "gone"}

(* The queue under its lock implements the job board.                      *)
Board == INSTANCE JobBoard WITH published <- published, last <- last
BoardSpec == Board!Spec
=============================================================================
