------------------------- MODULE StratumSessionProofs -------------------------
(* Proofs about StratumSession: its safety properties for any number of      *)
(* requests, any length of the pipes and either loop.                        *)
EXTENDS StratumSession, SequenceTheorems, TLAPS

Asked == [of : Method, id : Nat, req : 1..MaxReq]

LEMMA Ids ==
  /\ CLIENT_LOGIN \in Nat /\ CLIENT_GETWORK \in Nat
  /\ CLIENT_SUBHASHRATE \in Nat /\ CLIENT_SUBMITWORK \in Nat
  /\ CLIENT_LOGIN # CLIENT_SUBMITWORK
  /\ CLIENT_LOGIN # CLIENT_SUBHASHRATE /\ CLIENT_SUBMITWORK # CLIENT_SUBHASHRATE
BY DEF CLIENT_LOGIN, CLIENT_GETWORK, CLIENT_SUBHASHRATE, CLIENT_SUBMITWORK

LEMMA WorkerOps ==
  ASSUME NEW w \in Worker({"none", "miner"})
  PROVE  /\ Login(w, "miner") \in Worker({"none", "miner"})
         /\ Logind(w) \in Worker({"none", "miner"})
         /\ ShareIndexAdd(w) \in Worker({"none", "miner"})
         /\ ShareAccept(w) \in Worker({"none", "miner"})
         /\ ShareReject(w) \in Worker({"none", "miner"})
<1>1. Login(w, "miner") \in Worker({"none", "miner"})
  BY DEF Worker, Login
<1>2. Logind(w) \in Worker({"none", "miner"})
  BY DEF Worker, Logind, ClearState
<1>3. ShareIndexAdd(w) \in Worker({"none", "miner"})
  BY DEF Worker, ShareIndexAdd
<1>4. ShareAccept(w) \in Worker({"none", "miner"})
  BY DEF Worker, ShareAccept
<1>5. ShareReject(w) \in Worker({"none", "miner"})
  BY DEF Worker, ShareReject
<1> QED BY <1>1, <1>2, <1>3, <1>4, <1>5

(***************************************************************************)
(* What a request may do, whichever it is: the id and the method of what   *)
(* is sent fit the protocol, and it is answered, if at all, at once.       *)
(***************************************************************************)
FitsIn(p, of, id, req) ==
  \/ of = "other"
  \/ /\ p = "ETH"
     /\ \/ of = "eth_submitLogin" /\ id = CLIENT_LOGIN
        \/ of = "eth_submitHashrate" /\ id = CLIENT_SUBHASHRATE
        \/ of = "eth_submitWork" /\ id = CLIENT_SUBMITWORK
        \/ of = "eth_getWork" /\ id = CLIENT_GETWORK
  \/ /\ p = "STRATUM"
     /\ of = "mining.subscribe" \/ (of = "mining.submit" /\ id = req)
  \/ /\ p = "NICEHASH"
     /\ \/ of \in {"mining.subscribe EthereumStratum/1.0.0", "mining.authorize"}
        \/ of = "mining.submit" /\ id = CLIENT_SUBMITWORK

\* The protocols in which the first request is the login.
Ordered == {"STRATUM", "ETH"}
IsLogin(q) == q.of \in {"mining.subscribe", "eth_submitLogin"}

Counts(m) ==
  worker' \in {worker, Login(worker, "miner"), ShareIndexAdd(worker)}

Answers(m) ==
  \/ UNCHANGED <<replies, waiting>>
  \/ m \in Awaited /\ UNCHANGED replies /\ waiting' = waiting \cup {n + 1}
  \/ m \notin Awaited /\ Acknowledge(m) /\ UNCHANGED waiting

Requests(m, id) ==
  /\ Asks(m) /\ Send(m, id) /\ Counts(m) /\ Answers(m)
  /\ id \in Nat /\ FitsIn(protocol', m, id, n + 1)
  /\ protocol' # "KNOWN" /\ (n = 0 /\ protocol' \in Ordered => IsLogin([of |-> m]))
  /\ m \in Awaited => waiting' = waiting \cup {n + 1}

\* Before the first request the protocol is not known.
Early == n = 0 => protocol = "KNOWN"

LEMMA RequestForm ==
  ASSUME TypeOK, Early,
         \/ EthLogin \/ EthHashrate \/ EthSubmit \/ EthGetWork \/ PassOn
         \/ StratumLogin \/ LoginAll \/ StratumSubmit \/ NicehashSubmit
  PROVE  \E m \in Method, id \in Nat : Requests(m, id)
<1> USE DEF Counts, Answers, FitsIn, Await, Awaited, Asks, Chosen, ProtocolOf, Early, Ordered, IsLogin
<1>0. n \in Nat /\ n + 1 \in Nat
  BY BoundAssumption DEF TypeOK
<1>1. ASSUME EthLogin PROVE Requests("eth_submitLogin", CLIENT_LOGIN)
  BY <1>1, Ids DEF EthLogin, Requests
<1>2. ASSUME EthHashrate PROVE Requests("eth_submitHashrate", CLIENT_SUBHASHRATE)
  BY <1>2, Ids DEF EthHashrate, Requests
<1>3. ASSUME EthSubmit PROVE Requests("eth_submitWork", CLIENT_SUBMITWORK)
  BY <1>3, Ids DEF EthSubmit, Requests
<1>4. ASSUME EthGetWork PROVE Requests("eth_getWork", CLIENT_GETWORK)
  BY <1>4, Ids DEF EthGetWork, Requests
<1>5. ASSUME PassOn PROVE \/ Requests("other", n + 1)
                          \/ Requests("mining.subscribe EthereumStratum/1.0.0", n + 1)
  BY <1>0, <1>5 DEF PassOn, Requests
<1>6. ASSUME StratumLogin PROVE \/ Requests("mining.subscribe", n + 1)
                                \/ Requests("mining.authorize", n + 1)
  BY <1>0, <1>6 DEF StratumLogin, Requests
<1>7. ASSUME LoginAll PROVE \/ Requests("mining.subscribe", CLIENT_LOGIN)
                            \/ Requests("mining.authorize", CLIENT_LOGIN)
  BY <1>7, Ids DEF LoginAll, Requests
<1>8. ASSUME StratumSubmit PROVE Requests("mining.submit", n + 1)
  BY <1>0, <1>8 DEF StratumSubmit, Requests
<1>9. ASSUME NicehashSubmit PROVE Requests("mining.submit", CLIENT_SUBMITWORK)
  BY <1>9, Ids DEF NicehashSubmit, Requests
<1>10. /\ {"eth_submitLogin", "eth_submitHashrate", "eth_submitWork", "eth_getWork", "other"} \subseteq Method
       /\ {"mining.subscribe", "mining.submit", "mining.authorize",
           "mining.subscribe EthereumStratum/1.0.0"} \subseteq Method
  BY DEF Method, EthMethod, StratumMethod, NicehashMethod
<1> QED BY <1>0, <1>1, <1>2, <1>3, <1>4, <1>5, <1>6, <1>7, <1>8, <1>9, <1>10, Ids

(***************************************************************************)
(* What a line of the pool may do.                                         *)
(***************************************************************************)
Reads ==
  /\ Takes
  /\ worker' \in {worker, Logind(worker), ShareAccept(worker), ShareReject(worker)}
  /\ Hush \/ \E id \in Nat : Tell(Head(fromPool), id)
  /\ protocol = "KNOWN" => Hush

LEMMA HeadTyped ==
  ASSUME TypeOK, fromPool # <<>>
  PROVE  Head(fromPool) \in Lines /\ Head(fromPool) = fromPool[1] /\ 1 \in 1..Len(fromPool)
         /\ Tail(fromPool) \in Seq(Lines) /\ Len(Tail(fromPool)) = Len(fromPool) - 1
         /\ \A i \in 1..Len(Tail(fromPool)) : i + 1 \in 1..Len(fromPool) /\ Tail(fromPool)[i] = fromPool[i + 1]
<1>1. fromPool \in Seq(Lines)
  BY DEF TypeOK
<1> QED BY <1>1

LEMMA ReadForm ==
  ASSUME TypeOK, ReadEth \/ ReadStratum \/ ReadNicehash \/ ReadUnknown
  PROVE  Reads
<1>1. Takes /\ fromPool # <<>>
  BY DEF ReadEth, ReadStratum, ReadNicehash, ReadUnknown, Takes
<1>2. Head(fromPool).id \in Nat /\ rpc_id \in Nat
  BY <1>1, HeadTyped, BoundAssumption DEF TypeOK, Lines
<1>3. CASE ReadEth
  BY <1>1, <1>2, <1>3 DEF ReadEth, Reads, Verdict
<1>4. CASE ReadStratum
  BY <1>1, <1>2, <1>4 DEF ReadStratum, Reads, Verdict
<1>5. CASE ReadNicehash
  BY <1>1, <1>2, <1>5 DEF ReadNicehash, Reads, Verdict
<1>6. CASE ReadUnknown
  BY <1>1, <1>6 DEF ReadUnknown, Reads
<1> QED BY <1>3, <1>4, <1>5, <1>6

(***************************************************************************)
(* Type correctness.                                                       *)
(***************************************************************************)
LEMMA LineTyped ==
  ASSUME NEW kind \in {"job", "bool", "list", "text"}, NEW id \in Nat, NEW of \in Method \cup {"push"},
         NEW req \in 0..MaxReq, NEW ok \in BOOLEAN
  PROVE  Line(kind, id, of, req, ok) \in Lines
BY DEF Line, Lines

LEMMA AsksTyped ==
  ASSUME TypeOK, NEW m \in Method, Asks(m)
  PROVE  /\ n' = n + 1 /\ n' \in 1..MaxReq /\ n \in Nat /\ rpc_id' = n' /\ n + 1 \in 1..n'
         /\ 1..n \subseteq 1..n' /\ 1..n' \subseteq 1..MaxReq
         /\ mode' \in Modes /\ open' \in BOOLEAN /\ serial' \in BOOLEAN
         /\ protocol' \in {"ETH", "STRATUM", "NICEHASH", "KNOWN"}
         /\ fromPool' = fromPool /\ Len(toPool) < MaxPipe
         /\ answered' = answered /\ reported' = reported
<1>1. ProtocolOf(m) \in {"ETH", "STRATUM", "NICEHASH", "KNOWN"}
  BY DEF ProtocolOf
<1>2. n' = n + 1 /\ n' \in 1..MaxReq /\ n \in Nat /\ rpc_id' = n'
  BY BoundAssumption DEF Asks, TypeOK
<1>3. protocol' \in {"ETH", "STRATUM", "NICEHASH", "KNOWN"}
  BY <1>1 DEF Asks, Chosen, TypeOK
<1>4. serial' \in BOOLEAN
  BY DEF Asks
<1>5. /\ mode' \in Modes /\ open' \in BOOLEAN /\ fromPool' = fromPool /\ Len(toPool) < MaxPipe
      /\ answered' = answered /\ reported' = reported
  BY DEF Asks, TypeOK
<1>6. n + 1 \in 1..n' /\ 1..n \subseteq 1..n' /\ 1..n' \subseteq 1..MaxReq
  BY <1>2, BoundAssumption
<1> QED BY <1>2, <1>3, <1>4, <1>5, <1>6

\* The answer to a request that is answered at once.
LEMMA AckTyped ==
  ASSUME NEW m \in Method, NEW k \in 0..MaxReq
  PROVE  Line("bool", k, m, k, TRUE) \in Lines
<1>1. k \in Nat
  BY BoundAssumption
<1> QED BY <1>1 DEF Line, Lines

LEMMA RequestTyped ==
  ASSUME TypeOK, NEW m \in Method, NEW id \in Nat, Requests(m, id)
  PROVE  TypeOK'
<1>1. Asks(m) /\ Send(m, id) /\ Counts(m) /\ Answers(m)
  BY DEF Requests
<1> DEFINE q == [of |-> m, id |-> id, req |-> n + 1]
<1>2. toPool \in Seq(Asked) /\ q \in Asked /\ Len(toPool) <= MaxPipe /\ Len(toPool) < MaxPipe
  BY <1>1, AsksTyped DEF TypeOK, Asked
<1>3. toPool' \in Seq(Asked) /\ Len(toPool') <= MaxPipe
  <2>1. toPool' = Append(toPool, q)
    BY <1>1 DEF Send
  <2> HIDE DEF q
  <2> QED BY <1>2, <2>1, BoundAssumption
<1>4. worker' \in Worker({"none", "miner"})
  BY <1>1, WorkerOps DEF Counts, TypeOK
<1>5. replies' \subseteq Lines
  <2>1. n + 1 \in 0..MaxReq
    BY <1>1, AsksTyped
  <2>2. Line("bool", n + 1, m, n + 1, TRUE) \in Lines
    BY <2>1, AckTyped
  <2> QED BY <1>1, <2>2 DEF Answers, Acknowledge, TypeOK
<1>6. forwarded' \subseteq 1..n' /\ waiting' \subseteq 1..n'
  BY <1>1, AsksTyped DEF Send, Answers, TypeOK
<1> QED BY <1>1, <1>3, <1>4, <1>5, <1>6, AsksTyped DEF TypeOK, Asked

LEMMA EthSubmitAllTyped == ASSUME TypeOK, EthSubmitAll PROVE TypeOK'
<1>1. Asks("eth_submitWork") /\ "eth_submitWork" \in Method
  BY DEF EthSubmitAll, Method, EthMethod
<1>2. worker' \in Worker({"none", "miner"})
  BY WorkerOps DEF EthSubmitAll, TypeOK
<1>3. replies' \subseteq Lines
  <2>1. n + 1 \in 0..MaxReq
    BY <1>1, AsksTyped
  <2>2. Line("bool", n + 1, "eth_submitWork", n + 1, TRUE) \in Lines
    BY <1>1, <2>1, AckTyped
  <2> QED BY <2>2 DEF EthSubmitAll, Acknowledge, TypeOK
<1>4. forwarded' \subseteq 1..n' /\ waiting' \subseteq 1..n'
  BY <1>1, AsksTyped DEF EthSubmitAll, TypeOK
<1>5. UNCHANGED <<toPool, fromPool>>
  BY <1>1, AsksTyped DEF EthSubmitAll
<1> QED BY <1>1, <1>2, <1>3, <1>4, <1>5, AsksTyped DEF TypeOK

LEMMA SwallowTyped == ASSUME TypeOK, Swallow PROVE TypeOK'
<1>1. PICK m \in Method : Asks(m) /\ Await(m)
  BY DEF Swallow
<1>2. forwarded' \subseteq 1..n' /\ waiting' \subseteq 1..n'
  BY <1>1, AsksTyped DEF Swallow, Await, TypeOK
<1>3. UNCHANGED <<worker, toPool, fromPool, replies>>
  BY <1>1, AsksTyped DEF Swallow
<1> QED BY <1>1, <1>2, <1>3, AsksTyped DEF TypeOK

LEMMA ReadTyped == ASSUME TypeOK, Reads PROVE TypeOK'
<1>1. Takes /\ fromPool # <<>>
  BY DEF Reads, Takes
<1>2. fromPool' = Tail(fromPool) /\ fromPool' \in Seq(Lines) /\ Len(fromPool') <= MaxPipe
  BY <1>1, HeadTyped, BoundAssumption DEF Takes, TypeOK
<1>3. worker' \in Worker({"none", "miner"})
  BY WorkerOps DEF Reads, TypeOK
<1>4. answered' \subseteq Method \cup {"push"}
  BY <1>1, HeadTyped DEF Takes, TypeOK, Lines
<1>5. replies' \subseteq Lines /\ waiting' \subseteq waiting
  <2>1. \A id \in Nat : [Head(fromPool) EXCEPT !.id = id] \in Lines
    BY <1>1, HeadTyped DEF Lines
  <2> QED BY <2>1 DEF Reads, Hush, Tell, TypeOK
<1> QED BY <1>1, <1>2, <1>3, <1>4, <1>5 DEF Takes, TypeOK

LEMMA AnswerTyped == ASSUME TypeOK, PoolAnswers PROVE TypeOK'
<1>1. toPool \in Seq(Asked) /\ toPool # <<>>
  BY DEF TypeOK, PoolAnswers, Asked
<1>2. Head(toPool) \in Asked /\ Tail(toPool) \in Seq(Asked) /\ Len(Tail(toPool)) = Len(toPool) - 1
  BY <1>1
<1>3. PICK kind \in AnswerKinds(Head(toPool).of), ok \in BOOLEAN :
        fromPool' = Append(fromPool, Line(kind, Head(toPool).id, Head(toPool).of, Head(toPool).req, ok))
  BY DEF PoolAnswers
<1>4. kind \in {"job", "bool", "list", "text"}
  BY <1>3 DEF AnswerKinds
<1> DEFINE line == Line(kind, Head(toPool).id, Head(toPool).of, Head(toPool).req, ok)
<1>5. line \in Lines
  BY <1>2, <1>4, LineTyped DEF Asked
<1> HIDE DEF line
<1>6. fromPool' \in Seq(Lines) /\ Len(fromPool') <= MaxPipe
  BY <1>3, <1>5, BoundAssumption DEF TypeOK, PoolAnswers, line
<1>7. toPool' \in Seq(Asked) /\ Len(toPool') <= MaxPipe
  BY <1>1, <1>2, BoundAssumption DEF PoolAnswers, TypeOK
<1> QED BY <1>6, <1>7 DEF PoolAnswers, TypeOK, Asked

LEMMA PushTyped == ASSUME TypeOK, PoolPushes PROVE TypeOK'
<1> DEFINE kind == IF protocol = "ETH" THEN "job" ELSE "text"
           line == Line(kind, 0, "push", 0, TRUE)
<1>1. kind \in {"job", "bool", "list", "text"}
  OBVIOUS
<1>2. fromPool' = Append(fromPool, line) /\ Len(fromPool) < MaxPipe
  BY DEF PoolPushes
<1> HIDE DEF kind
<1>3. line \in Lines
  BY <1>1, BoundAssumption DEF Line, Lines
<1> HIDE DEF line
<1>4. fromPool \in Seq(Lines)
  BY DEF TypeOK
<1>5. fromPool' \in Seq(Lines) /\ Len(fromPool') <= MaxPipe
  BY <1>2, <1>3, <1>4, BoundAssumption
<1> QED BY <1>5 DEF PoolPushes, TypeOK

\* The steps, by form.
LEMMA Forms ==
  ASSUME TypeOK, Early, Next
  PROVE  \/ \E m \in Method, id \in Nat : Requests(m, id)
         \/ EthSubmitAll \/ Swallow \/ Reads \/ Timer \/ End \/ PoolAnswers \/ PoolPushes
BY RequestForm, ReadForm DEF Next

LEMMA EarlyKept == ASSUME TypeOK, Early, [Next]_vars PROVE Early'
<1>1. CASE n' = n + 1
  BY <1>1, BoundAssumption DEF Early, TypeOK
<1>2. CASE UNCHANGED <<n, protocol>>
  BY <1>2 DEF Early
<1>3. CASE UNCHANGED vars
  BY <1>3, <1>2 DEF vars
<1>4. CASE Next
  <2>1. (\E m \in Method : Asks(m)) \/ UNCHANGED <<n, protocol>>
    BY <1>4, Forms DEF Requests, EthSubmitAll, Swallow, Reads, Takes, Timer, End, PoolAnswers,
       PoolPushes, Method, EthMethod
  <2> QED BY <1>1, <1>2, <2>1 DEF Asks
<1> QED BY <1>3, <1>4

LEMMA Types == Spec => [](TypeOK /\ Early)
<1>1. Init => TypeOK /\ Early
  <2>1. SUFFICES ASSUME Init PROVE TypeOK /\ Early
    OBVIOUS
  <2>2. Default("none") \in Worker({"none", "miner"})
    BY DEF Default, Worker
  <2>3. worker \in Worker({"none", "miner"}) /\ mode \in Modes /\ open \in BOOLEAN /\ serial \in BOOLEAN
    BY <2>1, <2>2 DEF Init
  <2>4. /\ toPool = <<>> /\ toPool \in Seq([of : Method, id : Nat, req : 1..MaxReq]) /\ Len(toPool) <= MaxPipe
        /\ fromPool = <<>> /\ fromPool \in Seq(Lines) /\ Len(fromPool) <= MaxPipe
    BY <2>1, BoundAssumption DEF Init
  <2>5. n = 0 /\ n \in 0..MaxReq /\ rpc_id = n
    BY <2>1, BoundAssumption DEF Init
  <2> QED BY <2>1, <2>3, <2>4, <2>5 DEF Init, TypeOK, Early
<1>2. TypeOK /\ Early /\ [Next]_vars => TypeOK'
  <2>1. SUFFICES ASSUME TypeOK, Early, [Next]_vars PROVE TypeOK'
    OBVIOUS
  <2>2. CASE UNCHANGED vars
    BY <2>1, <2>2 DEF vars, TypeOK
  <2>3. CASE Timer \/ End
    BY <2>1, <2>3 DEF Timer, End, TypeOK, Worker
  <2> QED BY <2>1, <2>2, <2>3, Forms, RequestTyped, EthSubmitAllTyped, SwallowTyped, ReadTyped,
             AnswerTyped, PushTyped
<1>3. TypeOK /\ Early /\ [Next]_vars => Early'
  BY EarlyKept
<1> QED BY <1>1, <1>2, <1>3, PTL DEF Spec

\* TypeOK: in every protocol the pipes, the ids and the histories keep their
\* types, and a request that waits or was forwarded is one that was made.
THEOREM TypeCorrect == Spec => []TypeOK
BY Types, PTL

(***************************************************************************)
(* What is in a pipe, and that no request is in it twice (pushes, which    *)
(* answer none, have the number 0).                                        *)
(***************************************************************************)
In(s) == {s[i] : i \in 1..Len(s)}
OneEach(s) == \A i, j \in 1..Len(s) : s[i].req = s[j].req /\ s[i].req # 0 => i = j

LEMMA Appended ==
  ASSUME NEW S, NEW s \in Seq(S), NEW e \in S
  PROVE  /\ In(Append(s, e)) = In(s) \cup {e}
         /\ OneEach(s) /\ (\A x \in In(s) : e.req # 0 => x.req # e.req) => OneEach(Append(s, e))
<1>1. /\ Len(s) \in Nat /\ Len(Append(s, e)) = Len(s) + 1
      /\ \A i \in 1..Len(s) + 1 : Append(s, e)[i] = IF i = Len(s) + 1 THEN e ELSE s[i]
  OBVIOUS
<1>2. \A i \in 1..Len(s) + 1 : i \in 1..Len(s) \/ i = Len(s) + 1
  BY <1>1
<1>3. Len(s) + 1 \in 1..Len(s) + 1 /\ Len(s) + 1 \notin 1..Len(s) /\ 1..Len(s) \subseteq 1..Len(s) + 1
  BY <1>1
<1>4. In(Append(s, e)) = In(s) \cup {e}
  BY <1>1, <1>2, <1>3 DEF In
<1>5. ASSUME OneEach(s), \A x \in In(s) : e.req # 0 => x.req # e.req
      PROVE  OneEach(Append(s, e))
  BY <1>1, <1>2, <1>3, <1>5 DEF OneEach, In
<1> QED BY <1>4, <1>5

LEMMA Taken ==
  ASSUME NEW S, NEW s \in Seq(S), s # <<>>
  PROVE  /\ Head(s) \in In(s) /\ In(s) = In(Tail(s)) \cup {Head(s)}
         /\ OneEach(s) => /\ OneEach(Tail(s))
                          /\ \A x \in In(Tail(s)) : x.req # 0 => x.req # Head(s).req
<1>1. /\ Len(s) \in Nat \ {0} /\ Len(Tail(s)) = Len(s) - 1 /\ Head(s) = s[1]
      /\ \A i \in 1..Len(s) - 1 : Tail(s)[i] = s[i + 1]
  OBVIOUS
<1>2. /\ 1 \in 1..Len(s) /\ \A i \in 1..Len(s) - 1 : i + 1 \in 1..Len(s) /\ i + 1 # 1
      /\ \A i, j \in 1..Len(s) - 1 : i + 1 = j + 1 => i = j
      /\ \A i \in 1..Len(s) : i = 1 \/ (i - 1 \in 1..Len(s) - 1 /\ (i - 1) + 1 = i)
  BY <1>1
<1>3. In(Tail(s)) = {s[i + 1] : i \in 1..Len(s) - 1}
  BY <1>1 DEF In
<1>4. In(s) = In(Tail(s)) \cup {Head(s)}
  <2>1. Head(s) \in In(s) /\ In(Tail(s)) \subseteq In(s)
    BY <1>1, <1>2, <1>3 DEF In
  <2>2. ASSUME NEW x \in In(s), x # Head(s) PROVE x \in In(Tail(s))
    <3>1. PICK i \in 1..Len(s) : s[i] = x
      BY <2>2 DEF In
    <3>2. i - 1 \in 1..Len(s) - 1 /\ s[(i - 1) + 1] = x
      BY <1>1, <1>2, <2>2, <3>1
    <3> QED BY <1>3, <3>2
  <2> QED BY <2>1, <2>2
<1>5. ASSUME OneEach(s)
      PROVE  OneEach(Tail(s)) /\ \A x \in In(Tail(s)) : x.req # 0 => x.req # Head(s).req
  BY <1>1, <1>2, <1>3, <1>5 DEF OneEach
<1> QED BY <1>4, <1>5

LEMMA NothingIn == In(<<>>) = {} /\ OneEach(<<>>)
BY DEF In, OneEach

\* How the steps move what is in the pipes.
LEMMA AskMoves ==
  ASSUME TypeOK, NEW m \in Method, NEW id \in Nat, Requests(m, id)
  PROVE  /\ [of |-> m, id |-> id, req |-> n + 1] \in Asked
         /\ toPool' = Append(toPool, [of |-> m, id |-> id, req |-> n + 1])
         /\ In(toPool') = In(toPool) \cup {[of |-> m, id |-> id, req |-> n + 1]}
         /\ UNCHANGED fromPool
<1>1. Asks(m) /\ Send(m, id)
  BY DEF Requests
<1>2. [of |-> m, id |-> id, req |-> n + 1] \in Asked /\ toPool \in Seq(Asked)
  BY <1>1, AsksTyped DEF TypeOK, Asked
<1>3. toPool' = Append(toPool, [of |-> m, id |-> id, req |-> n + 1])
  BY <1>1 DEF Send
<1>4. UNCHANGED fromPool
  BY <1>1 DEF Asks
<1> QED BY <1>2, <1>3, <1>4, Appended

LEMMA ReadMoves ==
  ASSUME TypeOK, Takes
  PROVE  /\ Head(fromPool) \in In(fromPool) /\ In(fromPool) = In(fromPool') \cup {Head(fromPool)}
         /\ fromPool # <<>> /\ fromPool' = Tail(fromPool) /\ UNCHANGED toPool
         /\ OneEach(fromPool) => /\ OneEach(fromPool')
                                 /\ \A x \in In(fromPool') : x.req # 0 => x.req # Head(fromPool).req
BY Taken DEF Takes, TypeOK

LEMMA AnswerMoves ==
  ASSUME TypeOK, PoolAnswers
  PROVE  \E kind \in AnswerKinds(Head(toPool).of), ok \in BOOLEAN :
           LET q    == Head(toPool)
               line == Line(kind, q.id, q.of, q.req, ok)
           IN  /\ q \in In(toPool) /\ q \in Asked /\ In(toPool) = In(toPool') \cup {q}
               /\ line \in Lines /\ fromPool' = Append(fromPool, line)
               /\ In(fromPool') = In(fromPool) \cup {line}
               /\ toPool # <<>> /\ toPool' = Tail(toPool)
               /\ OneEach(toPool) => /\ OneEach(toPool')
                                     /\ \A x \in In(toPool') : x.req # 0 => x.req # q.req
<1>1. toPool \in Seq(Asked) /\ toPool # <<>> /\ toPool' = Tail(toPool) /\ Head(toPool) \in Asked
  <2>1. toPool \in Seq(Asked) /\ toPool # <<>> /\ toPool' = Tail(toPool)
    BY DEF TypeOK, PoolAnswers, Asked
  <2> QED BY <2>1
<1>2. PICK kind \in AnswerKinds(Head(toPool).of), ok \in BOOLEAN :
        fromPool' = Append(fromPool, Line(kind, Head(toPool).id, Head(toPool).of, Head(toPool).req, ok))
  BY DEF PoolAnswers
<1>3. kind \in {"job", "bool", "list", "text"}
  BY <1>2 DEF AnswerKinds
<1>4. Line(kind, Head(toPool).id, Head(toPool).of, Head(toPool).req, ok) \in Lines
  <2>1. /\ Head(toPool).id \in Nat /\ Head(toPool).of \in Method \cup {"push"}
        /\ Head(toPool).req \in 0..MaxReq
    BY <1>1 DEF Asked
  <2> QED BY <1>3, <2>1, LineTyped
<1>5. In(fromPool') = In(fromPool) \cup {Line(kind, Head(toPool).id, Head(toPool).of, Head(toPool).req, ok)}
  BY <1>2, <1>4, Appended DEF TypeOK
<1>6. /\ Head(toPool) \in In(toPool) /\ In(toPool) = In(toPool') \cup {Head(toPool)}
      /\ OneEach(toPool) => /\ OneEach(toPool')
                            /\ \A x \in In(toPool') : x.req # 0 => x.req # Head(toPool).req
  BY <1>1, Taken
<1> QED BY <1>1, <1>2, <1>4, <1>5, <1>6

Push == Line(IF protocol = "ETH" THEN "job" ELSE "text", 0, "push", 0, TRUE)

LEMMA PushMoves ==
  ASSUME TypeOK, PoolPushes
  PROVE  /\ Push \in Lines /\ fromPool' = Append(fromPool, Push)
         /\ In(fromPool') = In(fromPool) \cup {Push} /\ UNCHANGED toPool
         /\ Push.of = "push" /\ Push.req = 0 /\ Push.kind \in {"job", "text"}
<1> DEFINE kind == IF protocol = "ETH" THEN "job" ELSE "text"
<1>1. kind \in {"job", "text"}
  OBVIOUS
<1>2. Push = Line(kind, 0, "push", 0, TRUE) /\ fromPool' = Append(fromPool, Push) /\ UNCHANGED toPool
  BY DEF PoolPushes, Push
<1> HIDE DEF kind
<1>3. Push \in Lines /\ Push.of = "push" /\ Push.req = 0 /\ Push.kind = kind
  BY <1>1, <1>2, BoundAssumption DEF Line, Lines
<1>4. In(fromPool') = In(fromPool) \cup {Push}
  <2>1. fromPool \in Seq(Lines)
    BY DEF TypeOK
  <2>2. In(Append(fromPool, Push)) = In(fromPool) \cup {Push}
    BY <1>3, <2>1, Appended
  <2> QED BY <1>2, <2>2
<1> QED BY <1>1, <1>2, <1>3, <1>4

(***************************************************************************)
(* What is in the pipes fits the protocol, which only the first request    *)
(* decides; before it there are pushes, and nothing the miner was told.    *)
(***************************************************************************)
Comes(line) ==
  \/ line.of = "push" /\ line.req = 0 /\ line.kind \in {"job", "text"}
  \/ /\ line.req # 0 /\ FitsIn(protocol, line.of, line.id, line.req)
     /\ line.kind \in AnswerKinds(line.of)
Fitting ==
  /\ \A q \in In(toPool) : FitsIn(protocol, q.of, q.id, q.req)
  /\ \A line \in In(fromPool) : Comes(line)
Unasked ==
  protocol = "KNOWN" =>
    toPool = <<>> /\ replies = {} /\ \A line \in In(fromPool) : line.of = "push"
FlightInv == Fitting /\ Unasked

\* A request changes the protocol only when nothing but pushes is under way.
LEMMA ProtocolSettles ==
  ASSUME TypeOK, Early, NEW m \in Method, Asks(m)
  PROVE  protocol' = protocol \/ protocol = "KNOWN"
BY DEF Asks, Chosen, Early

LEMMA PipesStayFit ==
  ASSUME TypeOK, FlightInv, UNCHANGED fromPool, protocol' = protocol \/ protocol = "KNOWN"
  PROVE  /\ \A line \in In(fromPool') : Comes(line)'
         /\ \A q \in In(toPool) : FitsIn(protocol', q.of, q.id, q.req)
<1>1. CASE protocol' = protocol
  <2> QED BY <1>1 DEF FlightInv, Fitting, Comes, AnswerKinds
<1>2. CASE protocol = "KNOWN"
  <2>1. In(toPool) = {}
    BY <1>2, NothingIn DEF FlightInv, Unasked
  <2>2. \A line \in In(fromPool) : line.of = "push" /\ line.req = 0 /\ line.kind \in {"job", "text"}
    BY <1>2 DEF FlightInv, Unasked, Fitting, Comes, FitsIn
  <2> QED BY <2>1, <2>2 DEF Comes
<1> QED BY <1>1, <1>2

LEMMA FlightInitial == ASSUME Init PROVE FlightInv
<1>1. toPool = <<>> /\ fromPool = <<>> /\ replies = {}
  BY DEF Init
<1> QED BY <1>1, NothingIn DEF FlightInv, Fitting, Unasked

LEMMA FlightRequest ==
  ASSUME TypeOK, Early, FlightInv, NEW m \in Method, NEW id \in Nat, Requests(m, id)
  PROVE  FlightInv'
<1> DEFINE q == [of |-> m, id |-> id, req |-> n + 1]
<1>1. Asks(m) /\ FitsIn(protocol', m, id, n + 1) /\ protocol' # "KNOWN"
  BY DEF Requests
<1>2. In(toPool') = In(toPool) \cup {q} /\ UNCHANGED fromPool
  BY AskMoves
<1>3. FitsIn(protocol', q.of, q.id, q.req)
  BY <1>1
<1> HIDE DEF q
<1>4. /\ \A line \in In(fromPool') : Comes(line)'
      /\ \A x \in In(toPool) : FitsIn(protocol', x.of, x.id, x.req)
  BY <1>1, <1>2, ProtocolSettles, PipesStayFit
<1>5. \A x \in In(toPool') : FitsIn(protocol', x.of, x.id, x.req)
  BY <1>2, <1>3, <1>4
<1> QED BY <1>1, <1>4, <1>5 DEF FlightInv, Fitting, Unasked

\* A request that is not forwarded, in a protocol that stays.
LEMMA FlightUnsent ==
  ASSUME TypeOK, Early, FlightInv, NEW m \in Method, Asks(m), UNCHANGED toPool,
         protocol' = "KNOWN" => protocol = "KNOWN" /\ UNCHANGED replies
  PROVE  FlightInv'
<1>1. UNCHANGED fromPool
  BY DEF Asks
<1>2. /\ \A line \in In(fromPool') : Comes(line)'
      /\ \A x \in In(toPool) : FitsIn(protocol', x.of, x.id, x.req)
  BY <1>1, ProtocolSettles, PipesStayFit
<1>3. Fitting'
  BY <1>2 DEF Fitting
<1>4. Unasked'
  BY <1>1 DEF Unasked, FlightInv
<1> QED BY <1>3, <1>4 DEF FlightInv

LEMMA FlightRead ==
  ASSUME TypeOK, FlightInv, Reads
  PROVE  FlightInv'
<1>1. UNCHANGED <<protocol, toPool>> /\ Takes
  BY DEF Reads, Takes
<1>2. In(fromPool') \subseteq In(fromPool)
  BY <1>1, ReadMoves
<1>3. \A line \in In(fromPool') : Comes(line)'
  BY <1>1, <1>2 DEF FlightInv, Fitting, Comes, AnswerKinds
<1>4. Fitting'
  BY <1>1, <1>3 DEF FlightInv, Fitting
<1>5. Unasked'
  BY <1>1, <1>2 DEF FlightInv, Unasked, Reads, Hush
<1> QED BY <1>4, <1>5 DEF FlightInv

LEMMA FlightAnswer == ASSUME TypeOK, FlightInv, PoolAnswers PROVE FlightInv'
<1>1. PICK kind \in AnswerKinds(Head(toPool).of), ok \in BOOLEAN :
        /\ Head(toPool) \in In(toPool) /\ Head(toPool) \in Asked /\ toPool # <<>>
        /\ In(toPool) = In(toPool') \cup {Head(toPool)}
        /\ In(fromPool') = In(fromPool)
                           \cup {Line(kind, Head(toPool).id, Head(toPool).of, Head(toPool).req, ok)}
  BY AnswerMoves
<1> DEFINE q == Head(toPool)
           line == Line(kind, q.id, q.of, q.req, ok)
<1>2. UNCHANGED <<protocol, replies>>
  BY DEF PoolAnswers
<1>3. FitsIn(protocol, q.of, q.id, q.req) /\ q.req # 0
  BY <1>1 DEF FlightInv, Fitting, Asked
<1>4. line.of = q.of /\ line.id = q.id /\ line.req = q.req /\ line.kind = kind
  BY DEF Line
<1> HIDE DEF q, line
<1>5. Comes(line)
  BY <1>1, <1>3, <1>4 DEF Comes, q
<1>6. \A x \in In(fromPool') : Comes(x)
  BY <1>1, <1>5 DEF FlightInv, Fitting, line, q
<1>7. Fitting'
  BY <1>1, <1>2, <1>6 DEF FlightInv, Fitting, Comes, AnswerKinds
<1>8. protocol # "KNOWN"
  BY <1>1 DEF FlightInv, Unasked
<1> QED BY <1>2, <1>7, <1>8 DEF FlightInv, Unasked

LEMMA FlightPush == ASSUME TypeOK, FlightInv, PoolPushes PROVE FlightInv'
<1>1. /\ In(fromPool') = In(fromPool) \cup {Push} /\ UNCHANGED <<protocol, toPool, replies>>
      /\ Push.of = "push" /\ Push.req = 0 /\ Push.kind \in {"job", "text"}
  BY PushMoves DEF PoolPushes
<1>2. \A x \in In(fromPool') : Comes(x)
  BY <1>1 DEF FlightInv, Fitting, Comes
<1>3. Fitting'
  BY <1>1, <1>2 DEF FlightInv, Fitting, Comes, AnswerKinds
<1> QED BY <1>1, <1>3 DEF FlightInv, Unasked

\* A first line of another kind is swallowed.
LEMMA UnsentForms ==
  ASSUME TypeOK, Early, EthSubmitAll \/ Swallow
  PROVE  \E m \in Method :
           /\ Asks(m) /\ UNCHANGED <<toPool, forwarded>>
           /\ \/ protocol = "KNOWN" /\ protocol' = "KNOWN" /\ UNCHANGED <<worker, replies>>
                 /\ waiting' \subseteq waiting \cup {n + 1}
              \/ m = "eth_submitWork" /\ mode = "all" /\ protocol = "ETH" /\ protocol' = "ETH"
                 /\ Acknowledge(m) /\ UNCHANGED waiting /\ worker' = ShareIndexAdd(worker)
<1>1. CASE EthSubmitAll
  <2>1. "eth_submitWork" \in Method /\ n # 0
    BY <1>1 DEF Method, EthMethod, EthSubmitAll, Early
  <2> QED BY <1>1, <2>1 DEF EthSubmitAll, Asks, Chosen
<1>2. CASE Swallow
  <2>1. PICK m \in Method : Chosen(m) = "KNOWN" /\ Asks(m) /\ Await(m)
    BY <1>2 DEF Swallow
  <2>2. protocol = "KNOWN" /\ protocol' = "KNOWN"
    BY <2>1 DEF Asks, Chosen, Early
  <2> QED BY <1>2, <2>1, <2>2 DEF Swallow, Await
<1> QED BY <1>1, <1>2

LEMMA FlightKept == ASSUME TypeOK, Early, FlightInv, [Next]_vars PROVE FlightInv'
<1>1. CASE EthSubmitAll \/ Swallow
  <2>1. PICK m \in Method :
          /\ Asks(m) /\ UNCHANGED toPool
          /\ protocol' = "KNOWN" => protocol = "KNOWN" /\ UNCHANGED replies
    BY <1>1, UnsentForms
  <2> QED BY <2>1, FlightUnsent
<1>2. CASE Timer \/ End \/ UNCHANGED vars
  BY <1>2 DEF Timer, End, vars, FlightInv, Fitting, Comes, AnswerKinds, Unasked
<1> QED BY <1>1, <1>2, Forms, FlightRequest, FlightRead, FlightAnswer, FlightPush

(***************************************************************************)
(* A share the miner was told is good was sent.                            *)
(***************************************************************************)
Sent ==
  /\ \A q \in In(toPool) : q.req \in forwarded
  /\ \A line \in In(fromPool) : line.of # "push" => line.req \in forwarded

LEMMA SentKept == ASSUME TypeOK, Early, Sent, [Next]_vars PROVE Sent'
<1>1. CASE \E m \in Method, id \in Nat : Requests(m, id)
  <2>1. PICK m \in Method, id \in Nat : Requests(m, id)
    BY <1>1
  <2>2. /\ In(toPool') = In(toPool) \cup {[of |-> m, id |-> id, req |-> n + 1]} /\ UNCHANGED fromPool
        /\ forwarded' = forwarded \cup {n + 1}
    BY <2>1, AskMoves DEF Requests, Send
  <2> QED BY <2>2 DEF Sent
<1>2. CASE EthSubmitAll \/ Swallow
  BY <1>2, UnsentForms DEF Sent, Asks
<1>3. CASE Reads
  <2>1. UNCHANGED <<toPool, forwarded>> /\ In(fromPool') \subseteq In(fromPool)
    BY <1>3, ReadMoves DEF Reads, Takes
  <2> QED BY <2>1 DEF Sent
<1>4. CASE PoolAnswers
  <2>1. PICK kind \in AnswerKinds(Head(toPool).of), ok \in BOOLEAN :
        /\ Head(toPool) \in In(toPool) /\ In(toPool) = In(toPool') \cup {Head(toPool)}
        /\ In(fromPool') = In(fromPool)
                           \cup {Line(kind, Head(toPool).id, Head(toPool).of, Head(toPool).req, ok)}
    BY <1>4, AnswerMoves
  <2>2. UNCHANGED forwarded
    BY <1>4 DEF PoolAnswers
  <2> QED BY <2>1, <2>2 DEF Sent, Line
<1>5. CASE PoolPushes
  <2>1. In(fromPool') = In(fromPool) \cup {Push} /\ Push.of = "push" /\ UNCHANGED <<toPool, forwarded>>
    BY <1>5, PushMoves DEF PoolPushes
  <2> QED BY <2>1 DEF Sent
<1>6. CASE Timer \/ End \/ UNCHANGED vars
  BY <1>6 DEF Timer, End, vars, Sent
<1> QED BY <1>1, <1>2, <1>3, <1>4, <1>5, <1>6, Forms

\* What a read adds to the replies is the line, under some id.
LEMMA ToldLine ==
  ASSUME TypeOK, Reads, NEW r \in replies', r \notin replies
  PROVE  \E id \in Nat : /\ r = [Head(fromPool) EXCEPT !.id = id]
                         /\ r.of = Head(fromPool).of /\ r.req = Head(fromPool).req /\ r.ok = Head(fromPool).ok
<1>1. PICK id \in Nat : r = [Head(fromPool) EXCEPT !.id = id]
  BY DEF Reads, Hush, Tell
<1>2. Head(fromPool) \in Lines
  BY HeadTyped DEF Reads, Takes
<1> QED BY <1>1, <1>2 DEF Lines

LEMMA PraisedKept ==
  ASSUME TypeOK, Early, FlightInv, Sent, PraisedSharesWereSent, [Next]_vars
  PROVE  PraisedSharesWereSent'
<1> DEFINE Good(r) == r.of \in ShareMethod /\ r.ok => r.req \in forwarded
<1>1. CASE \E m \in Method, id \in Nat : Requests(m, id)
  <2>1. PICK m \in Method, id \in Nat : Requests(m, id)
    BY <1>1
  <2>2. /\ replies' \subseteq replies \cup {Line("bool", n + 1, m, n + 1, TRUE)}
        /\ forwarded' = forwarded \cup {n + 1} /\ mode' = mode /\ protocol' = Chosen(m)
    BY <2>1 DEF Requests, Send, Answers, Acknowledge, Asks
  <2>3. protocol' = protocol \/ replies = {}
    BY <2>1, ProtocolSettles DEF Requests, FlightInv, Unasked
  <2>4. Line("bool", n + 1, m, n + 1, TRUE).req = n + 1
    BY DEF Line
  <2> QED BY <2>2, <2>3, <2>4 DEF PraisedSharesWereSent
<1>2. CASE EthSubmitAll \/ Swallow
  <2>1. \/ protocol = "KNOWN" /\ UNCHANGED <<replies, forwarded>>
        \/ mode = "all" /\ protocol' = "ETH"
    BY <1>2, UnsentForms
  <2>2. mode' = mode
    BY <1>2, UnsentForms DEF Asks
  <2> QED BY <2>1, <2>2 DEF PraisedSharesWereSent
<1>3. CASE Reads
  <2>1. UNCHANGED <<forwarded, mode, protocol>> /\ Head(fromPool) \in In(fromPool)
    BY <1>3, ReadMoves DEF Reads, Takes
  <2>2. \A r \in replies' : r \notin replies => Good(r)
    <3>1. SUFFICES ASSUME NEW r \in replies', r \notin replies PROVE Good(r)
      OBVIOUS
    <3>2. r.of = Head(fromPool).of /\ r.req = Head(fromPool).req
      BY <1>3, <3>1, ToldLine
    <3> QED BY <2>1, <3>2 DEF Sent, ShareMethod
  <2> QED BY <2>1, <2>2 DEF PraisedSharesWereSent
<1>4. CASE PoolAnswers \/ PoolPushes \/ Timer \/ End \/ UNCHANGED vars
  BY <1>4 DEF PoolAnswers, PoolPushes, Timer, End, vars, PraisedSharesWereSent
<1> QED BY <1>1, <1>2, <1>3, <1>4, Forms

\* PraisedSharesWereSent: a share that was acknowledged, at once or by the pool,
\* is one the loop wrote to the pool (but for eth_submitWork in handle_stream_all).
THEOREM PraiseIsEarned == Spec => []PraisedSharesWereSent
<1>1. Init => FlightInv /\ Sent /\ PraisedSharesWereSent
  <2>1. SUFFICES ASSUME Init PROVE Sent /\ PraisedSharesWereSent
    BY FlightInitial
  <2>2. toPool = <<>> /\ fromPool = <<>> /\ replies = {}
    BY <2>1 DEF Init
  <2> QED BY <2>2, NothingIn DEF Sent, PraisedSharesWereSent
<1>2. TypeOK /\ Early /\ FlightInv /\ [Next]_vars => FlightInv'
  BY FlightKept
<1>3. TypeOK /\ Early /\ Sent /\ [Next]_vars => Sent'
  BY SentKept
<1>4. TypeOK /\ Early /\ FlightInv /\ Sent /\ PraisedSharesWereSent /\ [Next]_vars => PraisedSharesWereSent'
  BY PraisedKept
<1> QED BY <1>1, <1>2, <1>3, <1>4, Types, PTL DEF Spec

(***************************************************************************)
(* What resets the counters and sets the worker online.                    *)
(***************************************************************************)
LoginLine(line) ==
  \/ line.of \in LoginMethod
  \/ /\ line.kind = "bool"
     /\ \/ protocol = "STRATUM"
        \/ line.of = "other" /\ (protocol = "NICEHASH" \/ line.id = CLIENT_LOGIN)

LEMMA LogindOnLogin ==
  ASSUME TypeOK, FlightInv, ReadEth \/ ReadStratum \/ ReadNicehash \/ ReadUnknown,
         worker' \notin {worker, ShareAccept(worker), ShareReject(worker)}
  PROVE  worker' = Logind(worker) /\ LoginLine(Head(fromPool))
<1> DEFINE line == Head(fromPool)
<1>1. Comes(line)
  BY ReadMoves DEF ReadEth, ReadStratum, ReadNicehash, ReadUnknown, FlightInv, Fitting
<1> HIDE DEF line
<1>2. line.kind = "bool" =>
        FitsIn(protocol, line.of, line.id, line.req) /\ "bool" \in AnswerKinds(line.of)
  BY <1>1 DEF Comes
<1>3. line.kind = "bool" =>
        line.of \notin {"eth_getWork", "mining.subscribe EthereumStratum/1.0.0"}
  BY <1>2 DEF AnswerKinds
<1>4. CASE ReadEth
  <2>1. worker' = Logind(worker) /\ line.kind = "bool" /\ line.id = CLIENT_LOGIN /\ protocol = "ETH"
    BY <1>4 DEF ReadEth, Verdict, line
  <2>2. line.of \in {"eth_submitLogin", "other"}
    BY <1>2, <1>3, <2>1, Ids DEF FitsIn
  <2> QED BY <2>1, <2>2 DEF LoginLine, LoginMethod, line
<1>5. CASE ReadStratum
  <2>1. worker' = Logind(worker) /\ line.kind = "bool" /\ protocol = "STRATUM"
    BY <1>5 DEF ReadStratum, Verdict, line
  <2> QED BY <2>1 DEF LoginLine, line
<1>6. CASE ReadNicehash
  <2>1. worker' = Logind(worker) /\ line.kind = "bool" /\ line.id # CLIENT_SUBMITWORK /\ protocol = "NICEHASH"
    BY <1>6 DEF ReadNicehash, Verdict, line
  <2>2. line.of \in {"mining.authorize", "other"}
    BY <1>2, <1>3, <2>1, Ids DEF FitsIn
  <2> QED BY <2>1, <2>2 DEF LoginLine, LoginMethod, line
<1>7. CASE ReadUnknown
  BY <1>7 DEF ReadUnknown
<1> QED BY <1>4, <1>5, <1>6, <1>7

LEMMA WorkerSteps ==
  ASSUME TypeOK, Early, FlightInv, [Next]_vars
  PROVE  \/ worker' \in {worker, Login(worker, "miner"), ShareIndexAdd(worker),
                         ShareAccept(worker), ShareReject(worker)}
         \/ Takes /\ worker' = Logind(worker) /\ LoginLine(Head(fromPool))
<1>1. CASE ReadEth \/ ReadStratum \/ ReadNicehash \/ ReadUnknown
  <2>1. Takes
    BY <1>1 DEF ReadEth, ReadStratum, ReadNicehash, ReadUnknown
  <2> QED BY <1>1, <2>1, LogindOnLogin
<1>2. CASE \E m \in Method, id \in Nat : Requests(m, id)
  BY <1>2 DEF Requests, Counts
<1>3. CASE EthSubmitAll \/ Swallow
  BY <1>3, UnsentForms
<1>4. CASE Timer \/ End \/ PoolAnswers \/ PoolPushes \/ UNCHANGED vars
  BY <1>4 DEF Timer, End, PoolAnswers, PoolPushes, vars
<1> QED BY <1>1, <1>2, <1>3, <1>4, RequestForm DEF Next

LEMMA FlightsHold == Spec => [](TypeOK /\ Early /\ FlightInv)
<1>1. TypeOK /\ Early /\ FlightInv /\ [Next]_vars => FlightInv'
  BY FlightKept
<1> QED BY <1>1, FlightInitial, Types, PTL DEF Spec

\* CountersResetOnlyAsLogin: whatever ids the loop gives its requests, a verdict
\* on a share or a hash rate is taken for the answer to a login in STRATUM only,
\* and the answer to a request passed on not in ETH.
THEOREM CountersLast == Spec => CountersResetOnlyAsLogin
<1> DEFINE Reset == \/ worker'.share_index < worker.share_index
                    \/ worker'.accept_index < worker.accept_index
                    \/ worker'.invalid_index < worker.invalid_index
           Allowed == \/ Head(fromPool).of \in LoginMethod
                      \/ /\ Head(fromPool).kind = "bool"
                         /\ \/ protocol = "STRATUM"
                            \/ /\ Head(fromPool).of = "other"
                               /\ protocol = "NICEHASH" \/ Head(fromPool).id = CLIENT_LOGIN
<1>1. ASSUME TypeOK, Early, FlightInv, [Next]_vars, Reset PROVE Allowed
  <2>1. CASE worker' \in {worker, Login(worker, "miner"), ShareIndexAdd(worker),
                          ShareAccept(worker), ShareReject(worker)}
    <3>1. /\ worker \in Worker({"none", "miner"})
          /\ worker.share_index \in Nat /\ worker.accept_index \in Nat /\ worker.invalid_index \in Nat
      BY <1>1 DEF TypeOK, Worker
    <3>2. /\ worker'.share_index \in {worker.share_index, worker.share_index + 1}
          /\ worker'.accept_index \in {worker.accept_index, worker.accept_index + 1}
          /\ worker'.invalid_index \in {worker.invalid_index, worker.invalid_index + 1}
      BY <2>1, <3>1 DEF Worker, Login, ShareIndexAdd, ShareAccept, ShareReject
    <3> QED BY <1>1, <3>1, <3>2
  <2>2. CASE LoginLine(Head(fromPool))
    BY <2>2 DEF LoginLine
  <2> QED BY <1>1, <2>1, <2>2, WorkerSteps
<1>2. TypeOK /\ Early /\ FlightInv /\ [Next]_vars => [Reset => Allowed]_vars
  BY <1>1
<1> QED BY <1>2, FlightsHold, PTL DEF Spec, CountersResetOnlyAsLogin

(***************************************************************************)
(* A worker that is online, or was reported so, had its login answered.    *)
(***************************************************************************)
LoggedIn == answered \cap LoginMethod # {}

\* In STRATUM any bare bool sets the worker online, in ETH one with the login's
\* id; but the login is the first request, and the pool answers in order, so its
\* answer comes before another.
LoginFirst ==
  protocol \in Ordered /\ ~LoggedIn =>
    /\ \A i \in 1..Len(fromPool) : fromPool[i].of # "push" => \E j \in 1..i : IsLogin(fromPool[j])
    /\ (\E i \in 1..Len(fromPool) : IsLogin(fromPool[i])) \/ (toPool # <<>> /\ IsLogin(Head(toPool)))

LEMMA AppendHead ==
  ASSUME NEW S, NEW s \in Seq(S), NEW e \in S
  PROVE  /\ Append(s, e) # <<>> /\ Head(Append(s, e)) = IF s = <<>> THEN e ELSE Head(s)
<1>1. /\ Len(s) \in Nat /\ Len(Append(s, e)) = Len(s) + 1 /\ Append(s, e) # <<>>
      /\ Head(Append(s, e)) = Append(s, e)[1]
  OBVIOUS
<1>2. CASE s = <<>>
  BY <1>1, <1>2
<1>3. CASE s # <<>>
  <2>1. 1 \in 1..Len(s) /\ Head(s) = s[1]
    BY <1>3
  <2>2. Append(s, e)[1] = s[1]
    BY <2>1
  <2> QED BY <1>1, <1>3, <2>1, <2>2
<1> QED BY <1>2, <1>3

LEMMA LoginFirstRequest ==
  ASSUME TypeOK, Early, FlightInv, LoginFirst, NEW m \in Method, NEW id \in Nat, Requests(m, id)
  PROVE  LoginFirst'
<1> DEFINE q == [of |-> m, id |-> id, req |-> n + 1]
<1>1. /\ q \in Asked /\ toPool' = Append(toPool, q) /\ UNCHANGED <<fromPool, answered>>
      /\ toPool \in Seq(Asked) /\ q.of = m
  BY AskMoves DEF Requests, Asks, TypeOK, Asked
<1> HIDE DEF q
<1>2. toPool' # <<>> /\ Head(toPool') = IF toPool = <<>> THEN q ELSE Head(toPool)
  BY <1>1, AppendHead
<1>3. CASE n = 0
  <2>1. protocol = "KNOWN" /\ toPool = <<>> /\ \A line \in In(fromPool) : line.of = "push"
    BY <1>3 DEF Early, FlightInv, Unasked
  <2>2. \A i \in 1..Len(fromPool) : fromPool[i].of = "push"
    BY <2>1 DEF In
  <2>3. protocol' \in Ordered => IsLogin(q)
    BY <1>1, <1>3 DEF Requests, IsLogin
  <2> QED BY <1>1, <1>2, <2>1, <2>2, <2>3 DEF LoginFirst
<1>4. CASE n # 0
  <2>1. protocol' = protocol
    BY <1>4 DEF Requests, Asks, Chosen
  <2> QED BY <1>1, <1>2, <2>1 DEF LoginFirst, LoggedIn
<1> QED BY <1>3, <1>4

LEMMA LoginFirstRead ==
  ASSUME TypeOK, LoginFirst, Reads
  PROVE  LoginFirst'
<1>1. Takes /\ fromPool # <<>> /\ UNCHANGED <<protocol, toPool>> /\ fromPool' = Tail(fromPool)
      /\ answered' = answered \cup {Head(fromPool).of}
  BY DEF Reads, Takes
<1>2. Len(fromPool) \in Nat \ {0} /\ Len(fromPool') = Len(fromPool) - 1 /\ Head(fromPool) = fromPool[1]
      /\ \A i \in 1..Len(fromPool') : i + 1 \in 1..Len(fromPool) /\ fromPool'[i] = fromPool[i + 1]
  BY <1>1, HeadTyped DEF TypeOK
<1> SUFFICES ASSUME protocol \in Ordered, ~LoggedIn'
             PROVE  /\ \A i \in 1..Len(fromPool') :
                         fromPool'[i].of # "push" => \E j \in 1..i : IsLogin(fromPool'[j])
                    /\ \/ \E i \in 1..Len(fromPool') : IsLogin(fromPool'[i])
                       \/ toPool # <<>> /\ IsLogin(Head(toPool))
  BY <1>1 DEF LoginFirst
<1>3. ~LoggedIn /\ ~IsLogin(fromPool[1])
  BY <1>1, <1>2 DEF LoggedIn, IsLogin, LoginMethod
<1>4. \A j \in 1..Len(fromPool) : IsLogin(fromPool[j]) => j - 1 \in 1..Len(fromPool') /\ IsLogin(fromPool'[j - 1])
  <2>1. \A j \in 1..Len(fromPool) : j # 1 => j - 1 \in 1..Len(fromPool') /\ (j - 1) + 1 = j
    BY <1>2
  <2> QED BY <1>2, <1>3, <2>1
<1>5. ASSUME NEW i \in 1..Len(fromPool'), fromPool'[i].of # "push"
      PROVE  \E j \in 1..i : IsLogin(fromPool'[j])
  <2>1. i + 1 \in 1..Len(fromPool) /\ fromPool[i + 1].of # "push"
    BY <1>2, <1>5
  <2>2. PICK j \in 1..i + 1 : IsLogin(fromPool[j])
    BY <1>3, <2>1 DEF LoginFirst
  <2>3. j \in 1..Len(fromPool) /\ (j - 1 \in 1..Len(fromPool') => j - 1 \in 1..i)
    BY <1>2, <2>1, <2>2
  <2> QED BY <1>4, <2>2, <2>3
<1>6. (\E i \in 1..Len(fromPool') : IsLogin(fromPool'[i])) \/ (toPool # <<>> /\ IsLogin(Head(toPool)))
  BY <1>3, <1>4 DEF LoginFirst
<1> QED BY <1>5, <1>6

\* A line at the end of the pipe: what came before it came before.
LEMMA LoginFirstLine ==
  ASSUME TypeOK, LoginFirst, NEW line \in Lines, fromPool' = Append(fromPool, line),
         UNCHANGED <<protocol, answered>>,
         \/ line.of = "push" /\ UNCHANGED toPool
         \/ toPool # <<>> /\ line.of = Head(toPool).of
  PROVE  LoginFirst'
<1>1. /\ Len(fromPool) \in Nat /\ Len(fromPool') = Len(fromPool) + 1
      /\ fromPool'[Len(fromPool) + 1] = line
      /\ \A i \in 1..Len(fromPool) : fromPool'[i] = fromPool[i]
  BY DEF TypeOK
<1> DEFINE last == Len(fromPool) + 1
<1>2. /\ last \in 1..last /\ 1..Len(fromPool) \subseteq 1..last
      /\ \A i \in 1..last : i \in 1..Len(fromPool) \/ i = last
      /\ \A i \in 1..Len(fromPool) : 1..i \subseteq 1..Len(fromPool)
  BY <1>1
<1> SUFFICES ASSUME protocol \in Ordered, ~LoggedIn
             PROVE  /\ \A i \in 1..last :
                         fromPool'[i].of # "push" => \E j \in 1..i : IsLogin(fromPool'[j])
                    /\ \/ \E i \in 1..last : IsLogin(fromPool'[i])
                       \/ toPool' # <<>> /\ IsLogin(Head(toPool'))
  BY <1>1 DEF LoginFirst, LoggedIn
<1>3. fromPool'[last] = line
  BY <1>1
<1> HIDE DEF last
<1>4. ASSUME NEW i \in 1..Len(fromPool), fromPool'[i].of # "push"
      PROVE  \E j \in 1..i : IsLogin(fromPool'[j])
  <2>1. fromPool'[i] = fromPool[i]
    BY <1>1
  <2>2. PICK j \in 1..i : IsLogin(fromPool[j])
    BY <1>4, <2>1 DEF LoginFirst
  <2>3. fromPool'[j] = fromPool[j]
    BY <1>1, <1>2, <2>2
  <2> QED BY <2>2, <2>3
<1>5. CASE \E i \in 1..Len(fromPool) : IsLogin(fromPool[i])
  <2>1. PICK j \in 1..Len(fromPool) : IsLogin(fromPool'[j])
    BY <1>1, <1>5
  <2>2. j \in 1..last
    BY <1>2, <2>1
  <2> QED BY <1>2, <1>4, <2>1, <2>2
<1>6. CASE ~\E i \in 1..Len(fromPool) : IsLogin(fromPool[i])
  <2>1. toPool # <<>> /\ IsLogin(Head(toPool))
    BY <1>6 DEF LoginFirst
  <2>2. CASE line.of = "push" /\ UNCHANGED toPool
    BY <1>2, <1>3, <1>4, <2>1, <2>2
  <2>3. CASE line.of = Head(toPool).of
    <3>1. IsLogin(fromPool'[last])
      BY <1>3, <2>1, <2>3 DEF IsLogin
    <3> QED BY <1>2, <1>4, <3>1
  <2> QED BY <2>2, <2>3
<1> QED BY <1>5, <1>6

LEMMA LoginFirstKept ==
  ASSUME TypeOK, Early, FlightInv, LoginFirst, [Next]_vars PROVE LoginFirst'
<1>1. CASE PoolAnswers
  <2>1. PICK kind \in AnswerKinds(Head(toPool).of), ok \in BOOLEAN :
          /\ Line(kind, Head(toPool).id, Head(toPool).of, Head(toPool).req, ok) \in Lines
          /\ fromPool' = Append(fromPool, Line(kind, Head(toPool).id, Head(toPool).of, Head(toPool).req, ok))
          /\ toPool # <<>>
    BY <1>1, AnswerMoves
  <2>2. Line(kind, Head(toPool).id, Head(toPool).of, Head(toPool).req, ok).of = Head(toPool).of
    BY DEF Line
  <2>3. UNCHANGED <<protocol, answered>>
    BY <1>1 DEF PoolAnswers
  <2> QED BY <2>1, <2>2, <2>3, LoginFirstLine
<1>2. CASE PoolPushes
  <2>1. Push \in Lines /\ fromPool' = Append(fromPool, Push) /\ Push.of = "push"
        /\ UNCHANGED <<toPool, protocol, answered>>
    BY <1>2, PushMoves DEF PoolPushes
  <2> QED BY <2>1, LoginFirstLine
<1>3. CASE EthSubmitAll \/ Swallow
  <2>1. UNCHANGED <<toPool, fromPool, answered>>
    BY <1>3, UnsentForms DEF Asks
  <2>2. protocol' = protocol
    BY <1>3, UnsentForms
  <2> QED BY <2>1, <2>2 DEF LoginFirst, LoggedIn
<1>4. CASE Timer \/ End \/ UNCHANGED vars
  BY <1>4 DEF Timer, End, vars, LoginFirst, LoggedIn
<1> QED BY <1>1, <1>2, <1>3, <1>4, Forms, LoginFirstRequest, LoginFirstRead

\* In NICEHASH the answer to a request passed on may have been taken for it.
Mistaken == protocol = "NICEHASH" /\ "other" \in answered

OnlineInv == (worker.online => LoggedIn \/ Mistaken) /\ ReportedOnlineIsAnswered

LEMMA OnlineKept ==
  ASSUME TypeOK, Early, FlightInv, LoginFirst, OnlineInv, [Next]_vars PROVE OnlineInv'
<1>1. answered \subseteq answered' /\ (LoggedIn => LoggedIn') /\ (Mistaken => Mistaken')
  <2>1. answered \subseteq answered'
    <3>1. CASE Reads
      BY <3>1 DEF Reads, Takes
    <3>2. CASE UNCHANGED answered
      BY <3>2
    <3> QED BY <3>1, <3>2, Forms DEF Requests, Asks, EthSubmitAll, Swallow, Timer, End, PoolAnswers,
               PoolPushes, vars
  <2>2. protocol' = protocol \/ protocol = "KNOWN"
    <3>1. CASE \E m \in Method : Asks(m)
      BY <3>1, ProtocolSettles
    <3>2. CASE UNCHANGED protocol
      BY <3>2
    <3> QED BY <3>1, <3>2, Forms DEF Requests, EthSubmitAll, Swallow, Reads, Takes, Timer, End,
               PoolAnswers, PoolPushes, vars, Method, EthMethod
  <2> QED BY <2>1, <2>2 DEF LoggedIn, Mistaken
<1>2. worker'.online => (LoggedIn \/ Mistaken)'
  <2>1. CASE worker' \in {worker, Login(worker, "miner"), ShareIndexAdd(worker),
                          ShareAccept(worker), ShareReject(worker)}
    <3>1. worker \in Worker({"none", "miner"})
      BY DEF TypeOK
    <3>2. worker'.online = worker.online
      BY <2>1, <3>1 DEF Worker, Login, ShareIndexAdd, ShareAccept, ShareReject
    <3> QED BY <1>1, <3>2 DEF OnlineInv
  <2>2. CASE Takes /\ LoginLine(Head(fromPool))
    <3>1. answered' = answered \cup {Head(fromPool).of} /\ fromPool # <<>>
      BY <2>2 DEF Takes
    <3>2. CASE Head(fromPool).of \in LoginMethod
      BY <3>1, <3>2 DEF LoggedIn
    <3>3. CASE protocol \in Ordered /\ Head(fromPool).kind = "bool"
      <4>1. Comes(Head(fromPool))
        BY <2>2, ReadMoves DEF FlightInv, Fitting
      <4>2. Head(fromPool).of # "push"
        BY <3>3, <4>1 DEF Comes, FitsIn
      <4>3. 1 \in 1..Len(fromPool) /\ fromPool[1] = Head(fromPool)
        BY <3>1, HeadTyped
      <4>4. LoggedIn \/ \E j \in 1..1 : IsLogin(fromPool[j])
        BY <3>3, <4>2, <4>3 DEF LoginFirst
      <4>5. LoggedIn \/ IsLogin(fromPool[1])
        BY <4>4
      <4>6. IsLogin(fromPool[1]) => Head(fromPool).of \in LoginMethod
        BY <4>3 DEF IsLogin, LoginMethod
      <4> QED BY <1>1, <3>2, <4>5, <4>6
    <3>4. CASE protocol = "NICEHASH" /\ Head(fromPool).of = "other"
      BY <2>2, <3>1, <3>4 DEF Takes, Mistaken
    <3>5. protocol \in {"ETH", "STRATUM", "NICEHASH"}
      <4>1. Comes(Head(fromPool))
        BY <2>2, ReadMoves DEF FlightInv, Fitting
      <4> QED BY <2>2, <4>1 DEF TypeOK, FlightInv, Unasked, LoginLine, LoginMethod, Takes, In
    <3> QED BY <2>2, <3>2, <3>3, <3>4, <3>5 DEF LoginLine, Ordered
  <2> QED BY <2>1, <2>2, WorkerSteps
<1>3. ReportedOnlineIsAnswered'
  <2>1. CASE Timer
    BY <1>1, <2>1 DEF Timer, OnlineInv, ReportedOnlineIsAnswered, LoggedIn, Mistaken
  <2>2. CASE UNCHANGED reported
    BY <1>1, <2>2 DEF OnlineInv, ReportedOnlineIsAnswered, LoggedIn, Mistaken
  <2> QED BY <2>1, <2>2, Forms DEF Requests, Asks, Reads, Takes, EthSubmitAll, Swallow, End,
             PoolAnswers, PoolPushes, vars
<1> QED BY <1>2, <1>3 DEF OnlineInv

\* ReportedOnlineIsAnswered: a pool's answer to the login comes before every
\* report that the worker is online, in every protocol and both loops; only in
\* NICEHASH may it have been the answer to a request that was passed on.
THEOREM OnlineIsAnswered == Spec => []ReportedOnlineIsAnswered
<1>1. Init => LoginFirst /\ OnlineInv
  <2>1. SUFFICES ASSUME Init PROVE LoginFirst /\ OnlineInv
    OBVIOUS
  <2> QED BY <2>1 DEF Init, LoginFirst, Ordered, OnlineInv, ReportedOnlineIsAnswered, Default
<1>2. TypeOK /\ Early /\ FlightInv /\ LoginFirst /\ [Next]_vars => LoginFirst'
  BY LoginFirstKept
<1>3. TypeOK /\ Early /\ FlightInv /\ LoginFirst /\ OnlineInv /\ [Next]_vars => OnlineInv'
  BY OnlineKept
<1>4. OnlineInv => ReportedOnlineIsAnswered
  BY DEF OnlineInv
<1> QED BY <1>1, <1>2, <1>3, <1>4, FlightsHold, PTL DEF Spec

(***************************************************************************)
(* A miner that asks one thing at a time gets the answer under its id.     *)
(***************************************************************************)
\* No request is under way twice, and none that was not made.
Once ==
  /\ OneEach(toPool) /\ OneEach(fromPool)
  /\ \A q \in In(toPool), line \in In(fromPool) : q.req # line.req
  /\ \A q \in In(toPool) \cup In(fromPool) : q.req <= n

\* As long as the miner never asked while an answer was due, what waits is the
\* last request, and whatever awaits an answer in the pipes waits.
Serial ==
  serial =>
    /\ waiting \subseteq {n}
    /\ \A q \in In(toPool) \cup In(fromPool) : q.of \in Awaited => q.req \in waiting

LEMMA Ranges ==
  ASSUME TypeOK
  PROVE  /\ n \in Nat
         /\ \A q \in In(toPool) : q.req \in Nat \ {0}
         /\ \A line \in In(fromPool) : line.req \in Nat
<1>1. toPool \in Seq(Asked) /\ fromPool \in Seq(Lines) /\ n \in Nat
  BY BoundAssumption DEF TypeOK, Asked
<1>2. In(toPool) \subseteq Asked /\ In(fromPool) \subseteq Lines
  BY <1>1 DEF In
<1> QED BY <1>1, <1>2, BoundAssumption DEF Asked, Lines

LEMMA OnceAnswer == ASSUME TypeOK, Once, PoolAnswers PROVE Once'
<1>1. PICK kind \in AnswerKinds(Head(toPool).of), ok \in BOOLEAN :
        LET q    == Head(toPool)
            line == Line(kind, q.id, q.of, q.req, ok)
        IN  /\ q \in In(toPool) /\ In(toPool) = In(toPool') \cup {q}
            /\ line \in Lines /\ fromPool' = Append(fromPool, line)
            /\ In(fromPool') = In(fromPool) \cup {line}
            /\ OneEach(toPool')
            /\ \A x \in In(toPool') : x.req # 0 => x.req # q.req
  BY AnswerMoves DEF Once
<1> DEFINE q == Head(toPool)
           line == Line(kind, q.id, q.of, q.req, ok)
<1>2. line.req = q.req /\ UNCHANGED n
  BY DEF Line, PoolAnswers
<1>3. /\ q \in In(toPool) /\ In(toPool) = In(toPool') \cup {q} /\ OneEach(toPool')
      /\ \A x \in In(toPool') : x.req # 0 => x.req # q.req
      /\ line \in Lines /\ fromPool' = Append(fromPool, line) /\ In(fromPool') = In(fromPool) \cup {line}
  BY <1>1
<1> HIDE DEF q, line
<1>4. OneEach(fromPool')
  <2>1. \A x \in In(fromPool) : x.req # line.req
    BY <1>2, <1>3 DEF Once
  <2>2. fromPool \in Seq(Lines)
    BY DEF TypeOK
  <2>3. OneEach(Append(fromPool, line))
    BY <1>3, <2>1, <2>2, Appended DEF Once
  <2> QED BY <1>3, <2>3
<1>5. \A x \in In(toPool'), y \in In(fromPool') : x.req # y.req
  <2>1. \A x \in In(toPool') : x.req # 0
    BY <1>3, Ranges
  <2> QED BY <1>2, <1>3, <2>1 DEF Once
<1>6. \A x \in In(toPool') \cup In(fromPool') : x.req <= n'
  BY <1>2, <1>3 DEF Once
<1> QED BY <1>3, <1>4, <1>5, <1>6 DEF Once

LEMMA OnceKept == ASSUME TypeOK, Early, Once, [Next]_vars PROVE Once'
<1>1. CASE \E m \in Method, id \in Nat : Requests(m, id)
  <2>1. PICK m \in Method, id \in Nat : Requests(m, id)
    BY <1>1
  <2> DEFINE q == [of |-> m, id |-> id, req |-> n + 1]
  <2>2. /\ q \in Asked /\ toPool' = Append(toPool, q) /\ q.req = n + 1 /\ toPool \in Seq(Asked)
        /\ In(toPool') = In(toPool) \cup {q} /\ UNCHANGED fromPool /\ n' = n + 1 /\ n \in Nat
    BY <2>1, AskMoves, Ranges DEF Requests, Asks, TypeOK, Asked
  <2> HIDE DEF q
  <2>3. \A x \in In(toPool) \cup In(fromPool) : x.req # q.req /\ x.req <= n'
    BY <2>2, Ranges DEF Once
  <2>4. OneEach(toPool')
    <3>1. OneEach(Append(toPool, q))
      BY <2>2, <2>3, Appended DEF Once
    <3> QED BY <2>2, <3>1
  <2>5. q.req <= n'
    BY <2>2
  <2> QED BY <2>2, <2>3, <2>4, <2>5 DEF Once
<1>2. CASE EthSubmitAll \/ Swallow
  <2>1. UNCHANGED <<toPool, fromPool>> /\ n' = n + 1 /\ n \in Nat
    BY <1>2, UnsentForms, Ranges DEF Asks
  <2>2. \A x \in In(toPool) \cup In(fromPool) : x.req <= n + 1
    BY <2>1, Ranges DEF Once
  <2> QED BY <2>1, <2>2 DEF Once
<1>3. CASE Reads
  <2>1. /\ UNCHANGED <<toPool, n>> /\ In(fromPool') \subseteq In(fromPool)
        /\ OneEach(fromPool) => OneEach(fromPool')
    BY <1>3, ReadMoves DEF Reads, Takes
  <2> QED BY <2>1 DEF Once
<1>4. CASE PoolPushes
  <2>1. /\ Push \in Lines /\ fromPool' = Append(fromPool, Push) /\ fromPool \in Seq(Lines)
        /\ In(fromPool') = In(fromPool) \cup {Push} /\ Push.req = 0 /\ UNCHANGED <<toPool, n>>
    BY <1>4, PushMoves DEF PoolPushes, TypeOK
  <2>2. OneEach(fromPool')
    <3>1. OneEach(Append(fromPool, Push))
      BY <2>1, Appended DEF Once
    <3> QED BY <2>1, <3>1
  <2>3. \A q \in In(toPool) : q.req # Push.req
    BY <2>1, Ranges
  <2>4. Push.req <= n
    BY <2>1, Ranges
  <2> QED BY <2>1, <2>2, <2>3, <2>4 DEF Once
<1>5. CASE Timer \/ End \/ UNCHANGED vars
  BY <1>5 DEF Timer, End, vars, Once
<1> QED BY <1>1, <1>2, <1>3, <1>4, <1>5, Forms, OnceAnswer

LEMMA SerialKept ==
  ASSUME TypeOK, Early, FlightInv, Once, Serial, [Next]_vars PROVE Serial'
<1>1. ASSUME NEW m \in Method, Asks(m), serial'
      PROVE  /\ waiting = {} /\ n' = n + 1 /\ UNCHANGED fromPool
             /\ \A q \in In(toPool) \cup In(fromPool) : q.of \notin Awaited
  <2>1. serial /\ waiting = {} /\ n' = n + 1 /\ UNCHANGED fromPool
    BY <1>1 DEF Asks
  <2> QED BY <2>1 DEF Serial
<1>2. CASE \E m \in Method, id \in Nat : Requests(m, id)
  <2>1. PICK m \in Method, id \in Nat : Requests(m, id)
    BY <1>2
  <2>2. /\ In(toPool') = In(toPool) \cup {[of |-> m, id |-> id, req |-> n + 1]}
        /\ waiting' \subseteq waiting \cup {n + 1} /\ (m \in Awaited => n + 1 \in waiting')
    BY <2>1, AskMoves DEF Requests, Answers
  <2> QED BY <1>1, <2>1, <2>2 DEF Serial, Requests
<1>3. CASE EthSubmitAll \/ Swallow
  <2>1. PICK m \in Method : Asks(m) /\ UNCHANGED toPool /\ waiting' \subseteq waiting \cup {n + 1}
    BY <1>3, UnsentForms
  <2> QED BY <1>1, <2>1 DEF Serial
<1>4. CASE Reads
  <2>1. /\ UNCHANGED <<toPool, n, serial>> /\ Head(fromPool) \in In(fromPool)
        /\ In(fromPool') \subseteq In(fromPool)
        /\ \A x \in In(fromPool') : x.req # 0 => x.req # Head(fromPool).req
    BY <1>4, ReadMoves DEF Reads, Takes, Once
  <2>2. waiting' = waiting \/ waiting' = waiting \ {Head(fromPool).req}
    BY <1>4 DEF Reads, Hush, Tell
  <2>3. 0 \notin waiting
    BY DEF TypeOK
  <2>4. \A q \in In(toPool) : q.req # Head(fromPool).req
    BY <2>1 DEF Once
  <2> QED BY <2>1, <2>2, <2>3, <2>4 DEF Serial
<1>5. CASE PoolAnswers
  <2>1. PICK kind \in AnswerKinds(Head(toPool).of), ok \in BOOLEAN :
        /\ Head(toPool) \in In(toPool) /\ In(toPool) = In(toPool') \cup {Head(toPool)}
        /\ In(fromPool') = In(fromPool)
                           \cup {Line(kind, Head(toPool).id, Head(toPool).of, Head(toPool).req, ok)}
    BY <1>5, AnswerMoves
  <2>2. UNCHANGED <<n, serial, waiting>>
    BY <1>5 DEF PoolAnswers
  <2> QED BY <2>1, <2>2 DEF Serial, Line
<1>6. CASE PoolPushes
  <2>1. /\ In(fromPool') = In(fromPool) \cup {Push} /\ Push.of = "push"
        /\ UNCHANGED <<toPool, n, serial, waiting>>
    BY <1>6, PushMoves DEF PoolPushes
  <2> QED BY <2>1 DEF Serial, Awaited
<1>7. CASE Timer \/ End \/ UNCHANGED vars
  BY <1>7 DEF Timer, End, vars, Serial
<1> QED BY <1>2, <1>3, <1>4, <1>5, <1>6, <1>7, Forms

\* What a read tells the miner of a request that awaited its answer.
LEMMA ToldMatches ==
  ASSUME TypeOK, FlightInv, Serial, serial,
         ReadEth \/ ReadStratum \/ ReadNicehash \/ ReadUnknown,
         NEW r \in replies', r \notin replies, r.of \in Awaited
  PROVE  r.id = r.req
<1> DEFINE line == Head(fromPool)
<1>1. Takes /\ Reads
  BY ReadForm DEF ReadEth, ReadStratum, ReadNicehash, ReadUnknown
<1>2. line \in In(fromPool) /\ Comes(line)
  BY <1>1, ReadMoves DEF FlightInv, Fitting
<1>3. line.of = r.of /\ line.req = r.req
  BY <1>1, ToldLine
<1>4. \A id \in Nat : [line EXCEPT !.id = id].id = id
  BY <1>1, HeadTyped DEF Takes, Lines
<1> HIDE DEF line
<1>5. line.req \in waiting /\ rpc_id = line.req /\ rpc_id \in Nat
  <2>1. line.req \in waiting /\ waiting \subseteq {n}
    BY <1>2, <1>3 DEF Serial
  <2>2. rpc_id = n /\ n \in Nat
    BY Ranges DEF TypeOK
  <2> QED BY <2>1, <2>2
<1>6. line.of \in {"eth_getWork", "mining.submit"} /\ line.kind \in AnswerKinds(line.of)
      /\ FitsIn(protocol, line.of, line.id, line.req)
  BY <1>2, <1>3 DEF Comes, Awaited
<1>7. CASE ReadEth
  <2>1. line.of = "eth_getWork" /\ line.id = CLIENT_GETWORK
    BY <1>6, <1>7 DEF ReadEth, FitsIn
  <2>2. line.kind = "job"
    BY <1>6, <2>1 DEF AnswerKinds
  <2>3. Tell(line, rpc_id)
    BY <1>7, <2>1, <2>2 DEF ReadEth, line
  <2> QED BY <1>3, <1>4, <1>5, <2>3 DEF Tell
<1>8. CASE ReadStratum
  <2>1. line.of = "mining.submit" /\ line.id = line.req
    BY <1>6, <1>8 DEF ReadStratum, FitsIn
  <2>2. Tell(line, line.id)
    BY <1>8 DEF ReadStratum, line
  <2> QED BY <1>3, <1>4, <1>5, <2>1, <2>2 DEF Tell
<1>9. CASE ReadNicehash
  <2>1. line.of = "mining.submit" /\ line.id = CLIENT_SUBMITWORK /\ protocol = "NICEHASH"
    BY <1>6, <1>9 DEF ReadNicehash, FitsIn
  <2>2. line.kind = "bool"
    BY <1>6, <2>1 DEF AnswerKinds
  <2>3. Tell(line, rpc_id)
    BY <1>9, <2>1, <2>2, Ids DEF ReadNicehash, line
  <2> QED BY <1>3, <1>4, <1>5, <2>3 DEF Tell
<1>10. CASE ReadUnknown
  BY <1>10 DEF ReadUnknown, Hush
<1> QED BY <1>7, <1>8, <1>9, <1>10

LEMMA MatchKept ==
  ASSUME TypeOK, Early, FlightInv, Serial, AnswersMatchRequests, [Next]_vars
  PROVE  AnswersMatchRequests'
<1>1. CASE ReadEth \/ ReadStratum \/ ReadNicehash \/ ReadUnknown
  <2>1. serial' = serial
    BY <1>1 DEF ReadEth, ReadStratum, ReadNicehash, ReadUnknown, Takes
  <2> QED BY <1>1, <2>1, ToldMatches DEF AnswersMatchRequests
<1>2. CASE \E m \in Method, id \in Nat : Requests(m, id)
  <2>1. PICK m \in Method : Asks(m) /\ Answers(m)
    BY <1>2 DEF Requests
  <2>2. Line("bool", n + 1, m, n + 1, TRUE).of = m
    BY DEF Line
  <2> QED BY <2>1, <2>2 DEF AnswersMatchRequests, Answers, Acknowledge, Asks
<1>3. CASE EthSubmitAll \/ Swallow
  <2>1. \/ UNCHANGED replies
        \/ Acknowledge("eth_submitWork")
    BY <1>3, UnsentForms
  <2>2. Line("bool", n + 1, "eth_submitWork", n + 1, TRUE).of \notin Awaited
    BY DEF Line, Awaited
  <2>3. serial' => serial
    BY <1>3, UnsentForms DEF Asks
  <2> QED BY <2>1, <2>2, <2>3 DEF AnswersMatchRequests, Acknowledge
<1>4. CASE Timer \/ End \/ PoolAnswers \/ PoolPushes \/ UNCHANGED vars
  BY <1>4 DEF Timer, End, PoolAnswers, PoolPushes, vars, AnswersMatchRequests
<1> QED BY <1>1, <1>2, <1>3, <1>4, RequestForm DEF Next

\* AnswersMatchRequests: remembering the last id alone is enough for a miner that
\* waits for each answer it needs, in every protocol and both loops.
THEOREM AnswersMatch == Spec => []AnswersMatchRequests
<1>1. Init => Once /\ Serial /\ AnswersMatchRequests
  <2>1. SUFFICES ASSUME Init PROVE Once /\ Serial /\ AnswersMatchRequests
    OBVIOUS
  <2>2. toPool = <<>> /\ fromPool = <<>> /\ replies = {} /\ waiting = {}
    BY <2>1 DEF Init
  <2> QED BY <2>2, NothingIn DEF Once, Serial, AnswersMatchRequests
<1>2. TypeOK /\ Early /\ Once /\ [Next]_vars => Once'
  BY OnceKept
<1>3. TypeOK /\ Early /\ FlightInv /\ Once /\ Serial /\ [Next]_vars => Serial'
  BY SerialKept
<1>4. TypeOK /\ Early /\ FlightInv /\ Serial /\ AnswersMatchRequests /\ [Next]_vars => AnswersMatchRequests'
  BY MatchKept
<1> QED BY <1>1, <1>2, <1>3, <1>4, FlightsHold, PTL DEF Spec

===============================================================================
