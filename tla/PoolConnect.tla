------------------------------ MODULE PoolConnect ------------------------------
(***************************************************************************)
(* How a task of a proxy process gets its pool: the address list of the    *)
(* settings is parsed and its addresses are dialled in order.  Dialling is *)
(* a blocking connect_timeout inside an asynchronous task, so it occupies  *)
(* the thread that polls the task: one of the runtime's worker threads for *)
(* a miner's session, the main thread, which also runs the accept loops,   *)
(* for a fee task that logs in again.                                      *)
(***************************************************************************)
EXTENDS Integers, Sequences, FiniteSetsExt

CONSTANTS
  Session,   \* the miners' sessions, one spawned task each
  Fee,       \* the fee tasks, branches of the main task
  Workers,   \* number of worker threads of the tokio runtime
  Pool,      \* what an address leads to
  TlsPool,   \* the pools that speak TLS
  Lists,     \* address lists pool_address may hold
  FeeLists,  \* address lists share_address may hold: the first login used them
  NoUrl      \* an entry without "//"

Schemes == {"tcp:", "ssl:", "other"}
Entry == [scheme : Schemes, url : Pool \cup {NoUrl}]
Task == Session \cup Fee

ASSUME ThreadAssumption == Workers \in Nat \ {0}
ASSUME TaskAssumption == Session \cap Fee = {}
ASSUME PoolAssumption == TlsPool \subseteq Pool /\ NoUrl \notin Pool
ASSUME ListAssumption == Lists \subseteq Seq(Entry) /\ FeeLists \subseteq Seq(Entry)

VARIABLES
  addr,      \* addr[t]: the address list t dials (pool_address, share_address)
  cond,      \* cond[p]: "up", "refusing" (or not resolved), "silent"
  pc,        \* pc[t]: where a task is
  at,        \* at[t]: index of the entry being dialled, or used; 0 before
  tried,     \* tried[t]: addresses this pass over the list could not use
  stream,    \* stream[t]: the type of the stream t ended up with
  inbox,     \* inbox[s]: a line of the miner waits, or is being forwarded
  doing,     \* doing[s]: what an open session does
  alive      \* try_join! has not returned

vars == <<addr, cond, pc, at, tried, stream, inbox, doing, alive>>

\* An open session is at its select!, or awaits a write to the pool or the miner,
\* or the read guard of a job queue, for a line of its miner or of its pool;
\* then it may go on.
Doing == {"select", "line awaits", "line goes on", "job awaits", "job goes on"}

(***************************************************************************)
(* get_pool_ip_and_type_from_vec: the type of the whole list is that of    *)
(* its last entry; entries without "//" give no address.                   *)
(***************************************************************************)
Valid(list) == list # <<>> /\ \A i \in DOMAIN list : list[i].scheme # "other"
TypeOfTcpOnly(list) == "tcp:"

TypeOf(list) == list[Len(list)].scheme
Named(list) == {i \in DOMAIN list : list[i].url # NoUrl}
UrlSet(list) == {list[i].url : i \in Named(list)}

\* The process runs, so every fee task found a pool in its list before.
ASSUME FeeListAssumption == \A list \in FeeLists : Valid(list) /\ Named(list) # {}

Init ==
  /\ \E list \in Lists, share \in [Fee -> FeeLists] :
       /\ addr = [t \in Task |-> IF t \in Fee THEN share[t] ELSE list]
       /\ \E used \in [Fee -> UNION {Named(share[f]) : f \in Fee}] :
            /\ \A f \in Fee : used[f] \in Named(share[f])
            /\ at = [t \in Task |-> IF t \in Fee THEN used[t] ELSE 0]
  /\ cond \in [Pool -> {"up", "refusing", "silent"}]
  /\ pc = [t \in Task |-> IF t \in Fee THEN "open" ELSE "idle"]
  /\ tried = [t \in Task |-> {}]
  /\ stream = [t \in Task |-> IF t \in Fee THEN TypeOf(addr[t]) ELSE "none"]
  /\ inbox = [s \in Session |-> FALSE]
  /\ doing = [s \in Session |-> "select"]
  /\ alive = TRUE

(***************************************************************************)
(* Threads.  A step of a task needs a thread that is not inside a          *)
(* blocking connect.                                                       *)
(***************************************************************************)
Dialling == {t \in Task : pc[t] = "dialling"}
MainFree == Dialling \cap Fee = {}
HasThreadAlways(t) == TRUE

HasThread(t) ==
  IF t \in Fee THEN MainFree ELSE Cardinality(Dialling \cap Session) < Workers

Url(t) == addr[t][at[t]].url

\* The entries of the list that have not been dialled.
Rest(t) == {i \in Named(addr[t]) : i > at[t]}

(***************************************************************************)
(* transfer, handle_tcp_random: the next address of the list, or the end   *)
(* of the session; the end of a fee task ends the process.                 *)
(***************************************************************************)
GiveUp(t) ==
  /\ pc' = [pc EXCEPT ![t] = IF t \in Fee THEN "gone" ELSE "idle"]
  /\ alive' = (t \notin Fee)
  /\ UNCHANGED at

DialNextButLast(t) ==
  IF Rest(t) \ {Len(addr[t])} # {}
  THEN /\ pc' = [pc EXCEPT ![t] = "dialling"]
       /\ at' = [at EXCEPT ![t] = Min(Rest(t))]
       /\ UNCHANGED alive
  ELSE GiveUp(t)

DialNext(t) ==
  IF Rest(t) # {}
  THEN /\ pc' = [pc EXCEPT ![t] = "dialling"]
       /\ at' = [at EXCEPT ![t] = Min(Rest(t))]
       /\ UNCHANGED alive
  ELSE GiveUp(t)

\* A miner connects: the kernel accepts, the program has yet to.
Knock(s) ==
  /\ alive /\ pc[s] = "idle"
  /\ pc' = [pc EXCEPT ![s] = "knocking"]
  /\ at' = [at EXCEPT ![s] = 0]
  /\ tried' = [tried EXCEPT ![s] = {}]
  /\ UNCHANGED <<addr, cond, stream, inbox, doing, alive>>

\* The accept loop, a branch of the main task, spawns the session.
Accept(s) ==
  /\ alive /\ pc[s] = "knocking" /\ MainFree
  /\ pc' = [pc EXCEPT ![s] = "ready"]
  /\ UNCHANGED <<addr, cond, at, tried, stream, inbox, doing, alive>>

\* The list is parsed and its first address dialled.
Dial(t) ==
  /\ alive /\ pc[t] = "ready" /\ HasThread(t)
  /\ IF Valid(addr[t]) THEN DialNext(t) ELSE GiveUp(t)
  /\ UNCHANGED <<addr, cond, tried, stream, inbox, doing>>

\* A session starts its loop; a fee task has to log in on the new stream.
Opened(t) ==
  /\ pc' = [pc EXCEPT ![t] = IF t \in Fee THEN "login" ELSE "open"]
  /\ stream' = [stream EXCEPT ![t] = TypeOf(addr[t])]

\* connect_timeout returns Ok: the stream is there, or TLS comes next.
Connected(t) ==
  /\ alive /\ pc[t] = "dialling" /\ cond[Url(t)] = "up"
  /\ \/ TypeOf(addr[t]) = "tcp:" /\ Opened(t)
     \/ /\ TypeOf(addr[t]) = "ssl:"
        /\ pc' = [pc EXCEPT ![t] = "handshake"]
        /\ UNCHANGED stream
  /\ UNCHANGED <<addr, cond, at, tried, inbox, doing, alive>>

\* It returns Err: at once if refused, after 60 seconds if nobody answers.
UnreachedNoTimeout(t) ==
  /\ alive /\ pc[t] = "dialling" /\ cond[Url(t)] = "refusing"
  /\ tried' = [tried EXCEPT ![t] = @ \cup {Url(t)}]
  /\ DialNext(t)
  /\ UNCHANGED <<addr, cond, stream, inbox, doing>>

Unreached(t) ==
  /\ alive /\ pc[t] = "dialling" /\ cond[Url(t)] \in {"refusing", "silent"}
  /\ tried' = [tried EXCEPT ![t] = @ \cup {Url(t)}]
  /\ DialNext(t)
  /\ UNCHANGED <<addr, cond, stream, inbox, doing>>

\* TlsConnector::connect is awaited: no thread is held, and no timeout set.
Handshaken(t) ==
  /\ alive /\ pc[t] = "handshake" /\ HasThread(t)
  /\ Url(t) \in TlsPool /\ cond[Url(t)] = "up"
  /\ Opened(t)
  /\ UNCHANGED <<addr, cond, at, tried, inbox, doing, alive>>

HandshakeFails(t) ==
  /\ alive /\ pc[t] = "handshake" /\ HasThread(t)
  /\ Url(t) \notin TlsPool \/ cond[Url(t)] = "refusing"
  /\ tried' = [tried EXCEPT ![t] = @ \cup {Url(t)}]
  /\ DialNext(t)
  /\ UNCHANGED <<addr, cond, stream, inbox, doing>>

\* proxy_pool_login, dev_pool_ssl_login: the login is written; its answer is
\* only counted later.
LoginWritten(f) ==
  /\ alive /\ pc[f] = "login" /\ HasThread(f)
  /\ pc' = [pc EXCEPT ![f] = "open"]
  /\ UNCHANGED <<addr, cond, at, tried, stream, inbox, doing, alive>>

\* The pool reset the connection: the error ends the task, and the process.
LoginFails(f) ==
  /\ alive /\ pc[f] = "login" /\ HasThread(f) /\ cond[Url(f)] = "refusing"
  /\ GiveUp(f)
  /\ UNCHANGED <<addr, cond, tried, stream, inbox, doing>>

(***************************************************************************)
(* What open tasks do: a session forwards the miner's line; it ends when   *)
(* either side hangs up; a fee task whose pool hangs up logs in again.     *)
(***************************************************************************)
MinerSends(s) ==
  /\ alive /\ pc[s] = "open" /\ ~inbox[s]
  /\ inbox' = [inbox EXCEPT ![s] = TRUE]
  /\ UNCHANGED <<addr, cond, pc, at, tried, stream, doing, alive>>

\* The miner's branch of the select! takes the line, the pool's a job or a reply.
Take(s) ==
  /\ alive /\ pc[s] = "open" /\ doing[s] = "select" /\ inbox[s] /\ HasThread(s)
  /\ doing' = [doing EXCEPT ![s] = "line awaits"]
  /\ UNCHANGED <<addr, cond, pc, at, tried, stream, inbox, alive>>

TakePoolLine(s) ==
  /\ alive /\ pc[s] = "open" /\ doing[s] = "select" /\ HasThread(s)
  /\ doing' = [doing EXCEPT ![s] = "job awaits"]
  /\ UNCHANGED <<addr, cond, pc, at, tried, stream, inbox, alive>>

\* Those the session waits for read what they were sent, or drop their guard.
PeersGoOn(s) ==
  /\ alive /\ doing[s] \in {"line awaits", "job awaits"}
  /\ doing' = [doing EXCEPT ![s] = IF @ = "line awaits" THEN "line goes on" ELSE "job goes on"]
  /\ UNCHANGED <<addr, cond, pc, at, tried, stream, inbox, alive>>

Finish(s) ==
  /\ alive /\ doing[s] \in {"line goes on", "job goes on"} /\ HasThread(s)
  /\ doing' = [doing EXCEPT ![s] = "select"]
  /\ inbox' = [inbox EXCEPT ![s] = @ /\ doing[s] = "job goes on"]
  /\ UNCHANGED <<addr, cond, pc, at, tried, stream, alive>>

HangUp(s) ==
  /\ alive /\ pc[s] = "open" /\ HasThread(s)
  /\ pc' = [pc EXCEPT ![s] = "idle"]
  /\ inbox' = [inbox EXCEPT ![s] = FALSE]
  /\ doing' = [doing EXCEPT ![s] = "select"]
  /\ stream' = [stream EXCEPT ![s] = "none"]
  /\ at' = [at EXCEPT ![s] = 0]
  /\ tried' = [tried EXCEPT ![s] = {}]
  /\ UNCHANGED <<addr, cond, alive>>

FeePoolCloses(f) ==
  /\ alive /\ pc[f] = "open"
  /\ pc' = [pc EXCEPT ![f] = "ready"]
  /\ stream' = [stream EXCEPT ![f] = "none"]
  /\ at' = [at EXCEPT ![f] = 0]
  /\ tried' = [tried EXCEPT ![f] = {}]
  /\ UNCHANGED <<addr, cond, inbox, doing, alive>>

PoolChanges(p) ==
  /\ alive
  /\ \E c \in {"up", "refusing", "silent"} \ {cond[p]} :
       cond' = [cond EXCEPT ![p] = c]
  /\ UNCHANGED <<addr, pc, at, tried, stream, inbox, doing, alive>>

Next ==
  \/ \E s \in Session :
       \/ Knock(s) \/ Accept(s) \/ MinerSends(s) \/ HangUp(s)
       \/ Take(s) \/ TakePoolLine(s) \/ PeersGoOn(s) \/ Finish(s)
  \/ \E t \in Task :
       Dial(t) \/ Connected(t) \/ Unreached(t) \/ Handshaken(t) \/ HandshakeFails(t)
  \/ \E f \in Fee : LoginWritten(f) \/ LoginFails(f) \/ FeePoolCloses(f)
  \/ \E p \in Pool : PoolChanges(p)

(***************************************************************************)
(* Fairness.  A blocking call returns (its outcome is one of two actions,  *)
(* whatever the pool does meanwhile).  The runtime's run queue is a FIFO,  *)
(* so a task that can go on whenever a thread becomes free does, in time:  *)
(* strong fairness, as for Take, since select! draws among its ready       *)
(* branches.  Nothing is assumed of pools, miners or handshakes.           *)
(***************************************************************************)
Runs(s) == Accept(s) \/ Dial(s) \/ Finish(s)

Fairness ==
  /\ \A t \in Task : WF_vars(Connected(t) \/ Unreached(t))
  /\ \A s \in Session : SF_vars(Runs(s)) /\ SF_vars(Take(s))
  /\ \A f \in Fee : SF_vars(Dial(f))

\* What no line of the code makes sure of: an awaited write or guard is granted.
PeersServe == \A s \in Session : WF_vars(PeersGoOn(s))

Spec == Init /\ [][Next]_vars /\ Fairness

--------------------------------------------------------------------------------
\* Types, and threads: no more sessions inside a blocking connect than there
\* are worker threads, and one fee task at most, since they share one.
TypeOK ==
  /\ addr \in [Task -> Lists \cup FeeLists]
  /\ cond \in [Pool -> {"up", "refusing", "silent"}]
  /\ pc \in [Task -> {"idle", "knocking", "ready", "dialling", "handshake", "login", "open", "gone"}]
  /\ at \in [Task -> Nat]
  /\ tried \in [Task -> SUBSET Pool]
  /\ stream \in [Task -> {"none", "tcp:", "ssl:"}]
  /\ inbox \in [Session -> BOOLEAN]
  /\ doing \in [Session -> Doing]
  /\ alive \in BOOLEAN
  /\ Cardinality(Dialling \cap Session) <= Workers
  /\ Cardinality(Dialling \cap Fee) <= 1

\* A session is dropped while it looks for a pool, and a process ends while it
\* looks for a fee pool, only when every address of a valid list has failed in
\* turn (a login that cannot be written is not among these steps).
GivesUpOnlyAfterAll ==
  [][\A t \in Task :
       pc[t] \in {"ready", "dialling", "handshake"} /\ pc'[t] \in {"idle", "gone"}
         => ~Valid(addr[t]) \/ tried'[t] = UrlSet(addr[t])]_vars

Honest(list) ==
  \A i \in DOMAIN list :
    list[i].url # NoUrl => (list[i].scheme = "ssl:" <=> list[i].url \in TlsPool)
Uniform(list) == \A i, j \in DOMAIN list : list[i].scheme = list[j].scheme

\* With a list of one scheme that says what its pools speak, no task ends up
\* with a stream its pool does not understand, after any number of failures.
StreamIsUnderstood ==
  \A t \in Task :
    pc[t] \in {"login", "open"} /\ Valid(addr[t]) /\ Honest(addr[t]) /\ Uniform(addr[t])
      => (stream[t] = "ssl:" <=> Url(t) \in TlsPool)

Plain(list) == Valid(list) /\ \A i \in DOMAIN list : list[i].scheme = "tcp:"

\* If the peers of the sessions read what they are sent, a line of a miner is
\* forwarded in the end, though sessions and fee tasks block the threads with
\* pools that do not answer: the 60 s timeout bounds it.
LinesForwarded ==
  PeersServe => \A s \in Session : inbox[s] ~> ~inbox[s] \/ ~alive

\* A miner that connects is accepted in the end, though the accept loops stand
\* still whenever a fee task logs in again.
AcceptsAgain == \A s \in Session : pc[s] = "knocking" ~> pc[s] # "knocking" \/ ~alive

\* Failover: a pool that stays up, anywhere in a tcp:// list, is reached by
\* every session that wants one, whatever the pools before it do.
BackupServes ==
  \A s \in Session, p \in Pool :
    [](alive /\ Plain(addr[s]) /\ p \in UrlSet(addr[s]) /\ cond[p] = "up")
      => (pc[s] = "ready" ~> pc[s] = "open")
================================================================================
