----------------------------- MODULE StratumSession -----------------------------
(***************************************************************************)
(* The two session loops that hand out no fee jobs: handle_stream_nofee    *)
(* (mode "nofee") and handle_stream_all (mode "all", one wallet for all    *)
(* miners).  The first request decides the protocol; requests may be       *)
(* pipelined, while the loop remembers only the id of the last one.        *)
(***************************************************************************)
EXTENDS Integers, Sequences, WorkerState

CONSTANTS
  Modes,     \* which of the two loops
  MaxReq,    \* bound: requests of the miner
  MaxPipe    \* bound: lines on their way to, and from, the pool

ASSUME ModeAssumption == Modes \subseteq {"nofee", "all"}
ASSUME BoundAssumption == MaxReq \in Nat /\ MaxPipe \in Nat

\* Ids the loops give to what they forward; a miner's own ids are 1, 2, ...
CLIENT_LOGIN == 1001
CLIENT_GETWORK == 1005
CLIENT_SUBHASHRATE == 1006
CLIENT_SUBMITWORK == 1000

\* What the first request may be, and what it decides.
ProtocolOf(method) ==
  CASE method = "eth_submitLogin" -> "ETH"
    [] method = "mining.subscribe" -> "STRATUM"
    [] method = "mining.subscribe EthereumStratum/1.0.0" -> "NICEHASH"
    [] OTHER -> "KNOWN"

EthMethod == {"eth_submitLogin", "eth_submitWork", "eth_submitHashrate", "eth_getWork", "other"}
StratumMethod == {"mining.subscribe", "mining.submit", "other"}
NicehashMethod ==
  {"mining.subscribe EthereumStratum/1.0.0", "mining.authorize", "mining.submit", "other"}
Method == EthMethod \cup StratumMethod \cup NicehashMethod
LoginMethod == {"eth_submitLogin", "mining.subscribe", "mining.authorize"}
ShareMethod == {"eth_submitWork", "mining.submit"}
Awaited == {"eth_getWork", "mining.submit"}   \* answered only by the pool

VARIABLES
  mode,      \* the loop
  open,      \* handle_stream has not returned
  protocol,  \* its locals protocol, rpc_id and worker
  rpc_id,
  worker,
  toPool,    \* requests the pool has not answered
  fromPool,  \* lines of the pool not yet read
  n,         \* requests so far: the next one has id n + 1
  replies,   \* history: every line the miner was sent
  forwarded, \* history: ids of requests the pool was sent
  waiting,   \* the miner's requests that await an answer
  serial,    \* history: the miner never asked while one of them waited
  answered,  \* history: what the lines read from the pool answered
  reported   \* the online flag of the last clone of worker put on workers_queue

vars == <<mode, open, protocol, rpc_id, worker, toPool, fromPool, n, replies,
          forwarded, waiting, serial, answered, reported>>

Init ==
  /\ mode \in Modes /\ open = TRUE /\ protocol = "KNOWN" /\ rpc_id = 0
  /\ worker = Default("none")
  /\ toPool = <<>> /\ fromPool = <<>> /\ n = 0
  /\ replies = {} /\ forwarded = {} /\ waiting = {} /\ serial = TRUE
  /\ answered = {} /\ reported = FALSE

(***************************************************************************)
(* The first branch.  Asks takes a request off the miner's socket; what    *)
(* the pool is sent and the miner is told follows from the protocol.       *)
(* A record's `of` and `req` are history: the request it is about.         *)
(***************************************************************************)
Line(kind, id, method, req, ok) == [kind |-> kind, id |-> id, of |-> method, req |-> req, ok |-> ok]

Chosen(method) == IF n = 0 THEN ProtocolOf(method) ELSE protocol

AsksFirstIdOnly(method) ==
  /\ open /\ n < MaxReq /\ Len(toPool) < MaxPipe
  /\ n' = n + 1
  /\ protocol' = Chosen(method)
  /\ rpc_id' = IF n = 0 THEN 1 ELSE rpc_id
  /\ serial' = (serial /\ waiting = {})
  /\ UNCHANGED <<mode, open, fromPool, answered, reported>>

Asks(method) ==
  /\ open /\ n < MaxReq /\ Len(toPool) < MaxPipe
  /\ n' = n + 1
  /\ protocol' = Chosen(method)
  /\ rpc_id' = n + 1
  /\ serial' = (serial /\ waiting = {})
  /\ UNCHANGED <<mode, open, fromPool, answered, reported>>

Await(method) == waiting' = IF method \in Awaited THEN waiting \cup {n + 1} ELSE waiting

Send(method, id) ==
  /\ toPool' = Append(toPool, [of |-> method, id |-> id, req |-> n + 1])
  /\ forwarded' = forwarded \cup {n + 1}
Acknowledge(method) == replies' = replies \cup {Line("bool", n + 1, method, n + 1, TRUE)}

\* new_eth_submit_login, new_eth_submit_hashrate: forwarded, and answered at once.
EthLoginOnline ==
  /\ Chosen("eth_submitLogin") = "ETH" /\ Asks("eth_submitLogin")
  /\ worker' = Logind(Login(worker, "miner"))
  /\ Send("eth_submitLogin", CLIENT_LOGIN) /\ Acknowledge("eth_submitLogin")
  /\ UNCHANGED waiting

EthLogin ==
  /\ Chosen("eth_submitLogin") = "ETH" /\ Asks("eth_submitLogin")
  /\ worker' = Login(worker, "miner")
  /\ Send("eth_submitLogin", CLIENT_LOGIN) /\ Acknowledge("eth_submitLogin")
  /\ UNCHANGED waiting

EthHashrate ==
  /\ protocol = "ETH" /\ Asks("eth_submitHashrate")
  /\ Send("eth_submitHashrate", CLIENT_SUBHASHRATE) /\ Acknowledge("eth_submitHashrate")
  /\ UNCHANGED <<worker, waiting>>

\* A share is counted, forwarded and answered before the pool has judged it.
EthSubmitUnsent ==
  /\ protocol = "ETH" /\ mode = "nofee" /\ Asks("eth_submitWork")
  /\ worker' = ShareIndexAdd(worker)
  /\ Acknowledge("eth_submitWork")
  /\ UNCHANGED <<toPool, forwarded, waiting>>

EthSubmit ==
  /\ protocol = "ETH" /\ mode = "nofee" /\ Asks("eth_submitWork")
  /\ worker' = ShareIndexAdd(worker)
  /\ Send("eth_submitWork", CLIENT_SUBMITWORK) /\ Acknowledge("eth_submitWork")
  /\ UNCHANGED waiting

\* In mode "all" it is only counted and answered: the call is commented out.
EthSubmitAll ==
  /\ protocol = "ETH" /\ mode = "all" /\ Asks("eth_submitWork")
  /\ worker' = ShareIndexAdd(worker)
  /\ Acknowledge("eth_submitWork")
  /\ UNCHANGED <<toPool, forwarded, waiting>>

EthGetWork ==
  /\ protocol = "ETH" /\ Asks("eth_getWork")
  /\ Send("eth_getWork", CLIENT_GETWORK) /\ Await("eth_getWork")
  /\ UNCHANGED <<worker, replies>>

\* Any other method, and mining.subscribe of NiceHash: the line as it came.
PassOn ==
  /\ \/ protocol \in {"ETH", "STRATUM", "NICEHASH"} /\ Asks("other") /\ Send("other", n + 1)
     \/ LET m == "mining.subscribe EthereumStratum/1.0.0"
        IN  Chosen(m) = "NICEHASH" /\ Asks(m) /\ Send(m, n + 1)
  /\ UNCHANGED <<worker, replies, waiting>>

\* protocol::stratum::login keeps the request's id ...
StratumLogin ==
  /\ mode = "nofee"
  /\ \/ /\ Chosen("mining.subscribe") = "STRATUM" /\ Asks("mining.subscribe")
        /\ Send("mining.subscribe", n + 1)
     \/ /\ protocol = "NICEHASH" /\ Asks("mining.authorize")
        /\ Send("mining.authorize", n + 1)
  /\ worker' = Login(worker, "miner")
  /\ UNCHANGED <<replies, waiting>>

\* ... while ethjson::login, used by mode "all", makes it CLIENT_LOGIN.
LoginAll ==
  /\ mode = "all"
  /\ \/ /\ Chosen("mining.subscribe") = "STRATUM" /\ Asks("mining.subscribe")
        /\ Send("mining.subscribe", CLIENT_LOGIN)
     \/ /\ protocol = "NICEHASH" /\ Asks("mining.authorize")
        /\ Send("mining.authorize", CLIENT_LOGIN)
  /\ worker' = Login(worker, "miner")
  /\ UNCHANGED <<replies, waiting>>

StratumSubmit ==
  /\ protocol = "STRATUM" /\ Asks("mining.submit")
  /\ worker' = ShareIndexAdd(worker)
  /\ Send("mining.submit", n + 1) /\ Await("mining.submit")
  /\ UNCHANGED replies

NicehashSubmit ==
  /\ protocol = "NICEHASH" /\ Asks("mining.submit")
  /\ worker' = ShareIndexAdd(worker)
  /\ Send("mining.submit", CLIENT_SUBMITWORK) /\ Await("mining.submit")
  /\ UNCHANGED replies

\* A first request of any other method: the protocol stays KNOWN, and from then
\* on neither this request nor any later one is forwarded or answered.
Swallow ==
  /\ \E m \in Method : Chosen(m) = "KNOWN" /\ Asks(m) /\ Await(m)
  /\ UNCHANGED <<worker, toPool, forwarded, replies>>

(***************************************************************************)
(* The second branch: a line of the pool, by protocol.                     *)
(***************************************************************************)
Takes ==
  /\ open /\ fromPool # <<>>
  /\ fromPool' = Tail(fromPool)
  /\ answered' = answered \cup {Head(fromPool).of}
  /\ UNCHANGED <<mode, open, protocol, rpc_id, toPool, n, forwarded, serial, reported>>

Tell(line, id) ==
  /\ replies' = replies \cup {[line EXCEPT !.id = id]}
  /\ waiting' = waiting \ {line.req}
Hush == UNCHANGED <<replies, waiting>>

Verdict(w, ok) == IF ok THEN ShareAccept(w) ELSE ShareReject(w)

\* A job answers the last request if it has the id of a getWork, else it is a
\* push; a bool is counted by its id and never told to the miner.
ReadEthLogindAlways ==
  /\ protocol = "ETH" /\ Takes
  /\ LET line == Head(fromPool)
     IN  \/ /\ line.kind = "job" /\ worker' = worker
            /\ Tell(line, IF line.id = CLIENT_GETWORK THEN rpc_id ELSE 0)
         \/ /\ line.kind = "bool" /\ Hush
            /\ worker' = IF line.id = CLIENT_SUBMITWORK THEN Verdict(worker, line.ok)
                         ELSE Logind(worker)
         \/ line.kind \notin {"job", "bool"} /\ Hush /\ worker' = worker

ReadEth ==
  /\ protocol = "ETH" /\ Takes
  /\ LET line == Head(fromPool)
     IN  \/ /\ line.kind = "job" /\ worker' = worker
            /\ Tell(line, IF line.id = CLIENT_GETWORK THEN rpc_id ELSE 0)
         \/ /\ line.kind = "bool" /\ Hush
            /\ worker' = IF line.id = CLIENT_LOGIN THEN Logind(worker)
                         ELSE IF line.id = CLIENT_SUBMITWORK THEN Verdict(worker, line.ok)
                         ELSE worker
         \/ line.kind \notin {"job", "bool"} /\ Hush /\ worker' = worker

\* Every line is passed on as it came.  A list of bools (StraumResult) is a
\* verdict, a bare bool is taken for the answer to the login, whatever it answers.
ReadStratum ==
  /\ protocol = "STRATUM" /\ Takes
  /\ LET line == Head(fromPool)
     IN  /\ worker' = CASE line.kind = "list" -> Verdict(worker, line.ok)
                        [] line.kind = "bool" -> Logind(worker)
                        [] OTHER -> worker
         /\ Tell(line, line.id)

\* A bool is the verdict on a share if it has the id given to shares, and is
\* told with the id of the last request; other bools are kept from the miner and
\* taken for the answer to the login, but for the one that has the login's id.
ReadNicehash ==
  /\ protocol = "NICEHASH" /\ Takes
  /\ LET line == Head(fromPool)
     IN  \/ /\ line.kind = "bool" /\ line.id = CLIENT_SUBMITWORK
            /\ worker' = Verdict(worker, line.ok)
            /\ Tell(line, rpc_id)
         \/ /\ line.kind = "bool" /\ line.id = CLIENT_LOGIN
            /\ worker' = worker /\ Hush
         \/ /\ line.kind = "bool" /\ line.id \notin {CLIENT_SUBMITWORK, CLIENT_LOGIN}
            /\ worker' = Logind(worker) /\ Hush
         \/ /\ line.kind # "bool" /\ worker' = worker
            /\ Tell(line, line.id)

ReadUnknown == protocol = "KNOWN" /\ Takes /\ Hush /\ worker' = worker

\* The third branch, every 30 s: a clone of worker goes to the reporting task.
Timer ==
  /\ open /\ reported' = worker.online
  /\ UNCHANGED <<mode, open, protocol, rpc_id, worker, toPool, fromPool, n, replies,
                 forwarded, waiting, serial, answered>>

(***************************************************************************)
(* The end: either side hangs up, or a request cannot be parsed.           *)
(***************************************************************************)
End == open /\ open' = FALSE
       /\ UNCHANGED <<mode, protocol, rpc_id, worker, toPool, fromPool, n, replies,
                      forwarded, waiting, serial, answered, reported>>

(***************************************************************************)
(* The pool (external): it answers in order, and pushes jobs at any time.  *)
(***************************************************************************)
AnswerKinds(method) ==
  CASE method = "eth_getWork" -> {"job"}
    [] method = "mining.submit" /\ protocol = "STRATUM" -> {"list", "bool"}
    [] method = "mining.subscribe EthereumStratum/1.0.0" -> {"text"}  \* a list with a list in it
    [] method = "other" -> {"text", "bool"}
    [] OTHER -> {"bool"}

PoolAnswers ==
  /\ open /\ toPool # <<>> /\ Len(fromPool) < MaxPipe
  /\ LET q == Head(toPool)
     IN  \E kind \in AnswerKinds(q.of), ok \in BOOLEAN :
           fromPool' = Append(fromPool, Line(kind, q.id, q.of, q.req, ok))
  /\ toPool' = Tail(toPool)
  /\ UNCHANGED <<mode, open, protocol, rpc_id, worker, n, replies, forwarded, waiting, serial,
                 answered, reported>>

PoolPushes ==
  /\ open /\ Len(fromPool) < MaxPipe
  /\ fromPool' = Append(fromPool, Line(IF protocol = "ETH" THEN "job" ELSE "text", 0, "push", 0, TRUE))
  /\ UNCHANGED <<mode, open, protocol, rpc_id, worker, toPool, n, replies, forwarded, waiting, serial,
                 answered, reported>>

Next ==
  \/ EthLogin \/ EthHashrate \/ EthSubmit \/ EthSubmitAll \/ EthGetWork \/ PassOn
  \/ StratumLogin \/ LoginAll \/ StratumSubmit \/ NicehashSubmit \/ Swallow
  \/ ReadEth \/ ReadStratum \/ ReadNicehash \/ ReadUnknown \/ Timer \/ End
  \/ PoolAnswers \/ PoolPushes

Spec == Init /\ [][Next]_vars

--------------------------------------------------------------------------------
\* Types; and a request that waits for an answer is one that was made.
Lines ==
  [kind : {"job", "bool", "list", "text"}, id : Nat, of : Method \cup {"push"},
   req : 0..MaxReq, ok : BOOLEAN]
TypeOK ==
  /\ mode \in Modes /\ open \in BOOLEAN /\ serial \in BOOLEAN
  /\ protocol \in {"ETH", "STRATUM", "NICEHASH", "KNOWN"}
  /\ rpc_id = n /\ n \in 0..MaxReq
  /\ worker \in Worker({"none", "miner"})
  /\ toPool \in Seq([of : Method, id : Nat, req : 1..MaxReq]) /\ Len(toPool) <= MaxPipe
  /\ fromPool \in Seq(Lines) /\ Len(fromPool) <= MaxPipe
  /\ replies \subseteq Lines
  /\ forwarded \subseteq 1..n /\ waiting \subseteq 1..n
  /\ answered \subseteq Method \cup {"push"} /\ reported \in BOOLEAN

\* A miner that never asks while an answer is due gets every answer to a share
\* or a getWork under the id it asked with, in every protocol and both loops,
\* though the loop only remembers the last id and pushes come in between.
AnswersMatchRequests ==
  serial => \A r \in replies : r.of \in Awaited => r.id = r.req

\* A share the miner was told is good has been written to the pool (not so in
\* mode "all" with eth_submitWork, whose shares go nowhere).
PraisedSharesWereSent ==
  mode = "nofee" \/ protocol # "ETH" =>
    \A r \in replies : r.of \in ShareMethod /\ r.ok => r.req \in forwarded

\* A worker is reported online only after the pool answered a login of it; in
\* NICEHASH a bare bool in answer to a request passed on is taken for that, too,
\* but no push and no verdict on a share is, and in STRATUM, where every bare
\* bool is taken for it, the answer to the login comes first, as it does in ETH.
ReportedOnlineIsAnswered ==
  reported => \/ answered \cap LoginMethod # {}
              \/ protocol = "NICEHASH" /\ "other" \in answered

\* The counters of a worker fall back only when the pool answers a login, or when
\* the loop takes a bare bool for that answer: any bool in STRATUM, one to a
\* request passed on in NICEHASH, and in ETH when that request has the loop's id.
CountersResetOnlyAsLogin ==
  [][ \/ worker'.share_index < worker.share_index
      \/ worker'.accept_index < worker.accept_index
      \/ worker'.invalid_index < worker.invalid_index
      => \/ Head(fromPool).of \in LoginMethod
         \/ /\ Head(fromPool).kind = "bool"
            /\ \/ protocol = "STRATUM"
               \/ Head(fromPool).of = "other" /\ (protocol = "NICEHASH" \/ Head(fromPool).id = CLIENT_LOGIN) ]_vars
================================================================================
