--------------------------- MODULE SupervisionProofs ---------------------------
(* Proofs about Supervision, for any stored proxies, whatever ports they    *)
(* share, and any number of starts and crashes.                             *)
EXTENDS Supervision, SequenceTheorems, TLAPS

LEMMA Constants ==
  /\ Instance \subseteq Nat \ {0} /\ NoConn \notin Instance /\ Reset \notin Instance
  /\ \A p \in Proxy : PortsOf[p] \in Seq(Port) /\ Len(PortsOf[p]) > 0
  /\ \A k \in 1..Len(Stored) : Stored[k] \in Proxy
<1>1. \A p \in Proxy : PortsOf[p] \in Seq(Port) /\ Len(PortsOf[p]) > 0
  <2> TAKE p \in Proxy
  <2>1. PortsOf[p] \in Seq(Range(PortsOf[p])) /\ PortsOf[p] # <<>>
    BY PortsAssumption
  <2>2. Range(PortsOf[p]) \subseteq Port
    BY DEF Port
  <2>3. Len(PortsOf[p]) > 0
    BY <2>1, EmptySeq
  <2> QED BY <2>1, <2>2, <2>3, SeqMonotonic
<1>2. \A k \in 1..Len(Stored) : Stored[k] \in Proxy
  BY StoredAssumption DEF Proxy, Range
<1> QED BY <1>1, <1>2, StartAssumption DEF Instance, NoConn, Reset

(***************************************************************************)
(* What every action leaves: one child ends, or the parent's variables     *)
(* change within their types.                                              *)
(***************************************************************************)
LEMMA EndTyped ==
  ASSUME TypeOK, NEW c \in Child, End(c)
  PROVE  /\ pc' \in [Child -> {"none", "starting", "binding", "serving", "ended"}]
         /\ held' \in [Child -> Seq(Port)] /\ conn' \in [Child -> Instance \cup {NoConn, Reset}]
         /\ \A d \in Child :
              /\ Len(held'[d]) <= Len(PortsOf[d[2]])
              /\ pc'[d] = "binding" => Len(held'[d]) < Len(PortsOf[d[2]])
              /\ pc'[d] \notin {"binding", "serving"} => held'[d] = <<>> /\ conn'[d] = NoConn
<1>1. Len(PortsOf[c[2]]) > 0
  BY Constants DEF Child
<1> QED BY <1>1 DEF TypeOK, End

LEMMA TypeInitial == Init => TypeOK
<1> SUFFICES ASSUME Init PROVE TypeOK
  OBVIOUS
<1>1. \A c \in Child : Len(PortsOf[c[2]]) > 0
  BY Constants DEF Child
<1>2. \A c \in Child : Len(held[c]) <= Len(PortsOf[c[2]])
  BY <1>1 DEF Init
<1>3. Len(Stored) \in Nat
  BY StoredAssumption
<1> QED BY <1>2, <1>3 DEF Init, TypeOK

\* Each child is spawned at most once: those still to come have no past.
Unspawned ==
  \A i \in Instance, k \in 1..Len(Stored) :
    k > next[i] => pc[<<i, Stored[k]>>] = "none" /\ <<i, Stored[k]>> \notin failed

LEMMA TypeKept == TypeOK /\ Unspawned /\ [Next]_vars => TypeOK'
<1> SUFFICES ASSUME TypeOK, Unspawned, [Next]_vars PROVE TypeOK'
  OBVIOUS
<1> DEFINE Parents == /\ par' \in [Instance -> {"none", "spawning", "binding", "up", "killing",
                                               "exited", "bailed", "failed", "crashed"}]
                      /\ table' \in [Instance -> SUBSET Proxy]
                      /\ next' \in [Instance -> 0..Len(Stored)]
                      /\ feed' \subseteq {i \in Instance : Running(i)'}
                      /\ failed' \subseteq Child /\ crashed' \subseteq Instance
<1>1. ASSUME NEW i \in Instance, Start(i) PROVE TypeOK'
  BY <1>1 DEF TypeOK, Start, Running
<1>2. ASSUME NEW i \in Instance, Spawn(i) PROVE TypeOK'
  <2>1. next[i] + 1 \in 1..Len(Stored)
    BY <1>2, StoredAssumption DEF Spawn, TypeOK
  <2>2. <<i, Stored[next[i] + 1]>> \in Child /\ Stored[next[i] + 1] \in Proxy
    BY <2>1, Constants DEF Child
  <2>3. next' \in [Instance -> 0..Len(Stored)]
    BY <1>2, <2>1 DEF Spawn, TypeOK
  <2>4. pc[<<i, Stored[next[i] + 1]>>] = "none"
    BY <1>2, <2>1 DEF Unspawned, TypeOK
  <2>5. table' \in [Instance -> SUBSET Proxy]
    <3>1. \/ table' = table
          \/ table' = [table EXCEPT ![i] = @ \cup {<<i, Stored[next[i] + 1]>>[2]}]
      BY <1>2 DEF Spawn
    <3>2. <<i, Stored[next[i] + 1]>>[2] = Stored[next[i] + 1]
      OBVIOUS
    <3>3. table[i] \cup {Stored[next[i] + 1]} \in SUBSET Proxy
      BY <2>2 DEF TypeOK
    <3> QED BY <3>1, <3>2, <3>3 DEF TypeOK
  <2> QED BY <1>2, <2>2, <2>3, <2>4, <2>5 DEF Spawn, TypeOK, Running
<1>3. ASSUME NEW i \in Instance, Spawned(i) PROVE TypeOK'
  BY <1>3 DEF TypeOK, Spawned, Running
<1>4. ASSUME NEW i \in Instance, BindFeed(i) PROVE TypeOK'
  BY <1>4 DEF TypeOK, BindFeed, Running
<1>5. ASSUME NEW i \in Instance, BindWeb(i) PROVE TypeOK'
  BY <1>5 DEF TypeOK, BindWeb, Running
<1>6. ASSUME NEW i \in Instance, Kill(i) PROVE TypeOK'
  <2>1. PICK p \in Proxy : End(<<i, p>>) \/ UNCHANGED <<pc, held, conn>>
    BY <1>6 DEF Kill, TypeOK
  <2>2. Parents
    BY <1>6 DEF Kill, TypeOK, Running
  <2>3. CASE End(<<i, p>>)
    BY <2>2, <2>3, EndTyped DEF TypeOK, Child
  <2>4. CASE UNCHANGED <<pc, held, conn>>
    BY <2>2, <2>4 DEF TypeOK
  <2> QED BY <2>1, <2>3, <2>4
<1>7. ASSUME NEW i \in Instance, KillFails(i) \/ Bail(i) PROVE TypeOK'
  BY <1>7 DEF TypeOK, KillFails, Bail, Running
<1>8. ASSUME NEW i \in Instance, Crash(i) PROVE TypeOK'
  BY <1>8 DEF TypeOK, Crash, Running
<1>9. ASSUME NEW c \in Child, StartUp(c) PROVE TypeOK'
  <2>1. Len(PortsOf[c[2]]) > 0
    BY Constants DEF Child
  <2> QED BY <1>9, <2>1 DEF TypeOK, StartUp, Running
<1>10. ASSUME NEW c \in Child, Bind(c) PROVE TypeOK'
  <2>1. CASE End(c)
    BY <1>10, <2>1, EndTyped DEF TypeOK, Bind, Running
  <2>2. CASE ~End(c)
    <3>1. Len(held[c]) + 1 \in 1..Len(PortsOf[c[2]]) /\ PortsOf[c[2]] \in Seq(Port)
      BY <1>10, Constants DEF Bind, TypeOK, Child
    <3>2. NextPort(c) \in Port
      BY <3>1 DEF NextPort
    <3>3. held' = [held EXCEPT ![c] = Append(held[c], NextPort(c))]
      BY <1>10, <2>2 DEF Bind
    <3>4. /\ held' \in [Child -> Seq(Port)] /\ Len(held'[c]) = Len(held[c]) + 1
          /\ \A d \in Child \ {c} : held'[d] = held[d]
      BY <3>2, <3>3 DEF TypeOK
    <3>5. /\ pc[c] = "binding"
          /\ pc' = [pc EXCEPT ![c] = IF Len(held[c]) + 1 = Len(PortsOf[c[2]])
                                     THEN "serving" ELSE "binding"]
          /\ UNCHANGED <<par, next, table, feed, conn, failed, crashed>>
      BY <1>10, <2>2 DEF Bind
    <3>6. Len(PortsOf[c[2]]) \in Nat
      BY <3>1
    <3> QED BY <3>1, <3>4, <3>5, <3>6 DEF TypeOK, Running
  <2> QED BY <2>1, <2>2
<1>11. ASSUME NEW c \in Child, StartFails(c) \/ TaskFails(c) PROVE TypeOK'
  BY <1>11, EndTyped DEF TypeOK, StartFails, TaskFails, Running
<1>12. ASSUME NEW c \in Child, Connect(c) PROVE TypeOK'
  BY <1>12 DEF TypeOK, Connect, Running
<1>13. ASSUME NEW c \in Child, Report(c) PROVE TypeOK'
  <2>1. Parents
    BY <1>13 DEF Report, TypeOK, Running
  <2>2. CASE End(c)
    BY <2>1, <2>2, EndTyped DEF TypeOK
  <2>3. CASE ~End(c)
    BY <1>13, <2>1, <2>3 DEF Report, TypeOK
  <2> QED BY <2>2, <2>3
<1>14. CASE UNCHANGED vars
  BY <1>14 DEF TypeOK, vars, Running
<1> QED
  BY <1>1, <1>2, <1>3, <1>4, <1>5, <1>6, <1>7, <1>8, <1>9, <1>10, <1>11, <1>12, <1>13, <1>14
  DEF Next, ParentStep, ChildStep

LEMMA UnspawnedKept == TypeOK /\ Unspawned /\ [Next]_vars => Unspawned'
<1> SUFFICES ASSUME TypeOK, Unspawned, [Next]_vars,
                    NEW i \in Instance, NEW k \in 1..Len(Stored), k > next'[i]
             PROVE  pc'[<<i, Stored[k]>>] = "none" /\ <<i, Stored[k]>> \notin failed'
  BY DEF Unspawned
<1> DEFINE c == <<i, Stored[k]>>
<1>1. c \in Child
  BY Constants DEF Child
<1>2. ASSUME k > next[i] PROVE pc[c] = "none" /\ c \notin failed
  BY <1>2 DEF Unspawned
<1> HIDE DEF c
<1>3. ASSUME NEW j \in Instance, Spawn(j) PROVE pc'[c] = "none" /\ c \notin failed'
  <2>1. next[j] + 1 \in 1..Len(Stored) /\ next[i] \in Nat /\ next[j] \in Nat
    BY <1>3, StoredAssumption DEF Spawn, TypeOK
  <2>2. k > next[i]
    BY <1>3, <2>1 DEF Spawn, TypeOK
  <2>3. c # <<j, Stored[next[j] + 1]>>
    <3>1. CASE j = i
      <4>1. k # next[j] + 1
        BY <1>3, <2>1, <3>1 DEF Spawn, TypeOK
      <4> QED BY <2>1, <4>1, StoredAssumption DEF IsInjective, c
    <3> QED BY <3>1 DEF c
  <2> QED BY <1>1, <1>2, <1>3, <2>2, <2>3 DEF Spawn, TypeOK
<1>4. ASSUME NEW d \in Child, pc[d] # "none", End(d) PROVE UNCHANGED next => pc'[c] = "none"
  BY <1>1, <1>2, <1>4 DEF End, TypeOK
<1>5. ASSUME NEW j \in Instance, Kill(j) PROVE pc'[c] = "none" /\ c \notin failed'
  <2>1. PICK p \in Proxy : /\ (Alive(<<j, p>>) /\ End(<<j, p>>)) \/ UNCHANGED pc
                          /\ UNCHANGED <<next, failed>>
    BY <1>5 DEF Kill, TypeOK
  <2>2. CASE UNCHANGED pc
    BY <1>2, <2>1, <2>2
  <2>3. CASE Alive(<<j, p>>) /\ End(<<j, p>>)
    <3>1. <<j, p>> \in Child /\ pc[<<j, p>>] # "none"
      BY <2>3 DEF Child, Alive
    <3> QED BY <1>2, <1>4, <2>1, <2>3, <3>1
  <2> QED BY <2>1, <2>2, <2>3
<1>6. ASSUME NEW d \in Child, ChildStep(d) \/ StartFails(d) \/ Report(d) \/ TaskFails(d)
      PROVE  pc'[c] = "none" /\ c \notin failed'
  <2>1. UNCHANGED next /\ (failed' = failed \/ failed' = failed \cup {d}) /\ pc[d] # "none"
    BY <1>6 DEF ChildStep, StartUp, Bind, Connect, StartFails, Report, TaskFails
  <2>2. d # c
    BY <1>2, <2>1
  <2>3. \/ End(d) \/ UNCHANGED pc
        \/ \E v \in {"binding", "serving"} : pc' = [pc EXCEPT ![d] = v]
    BY <1>6 DEF ChildStep, StartUp, Bind, Connect, StartFails, Report, TaskFails
  <2> QED BY <1>1, <1>2, <2>1, <2>2, <2>3 DEF End, TypeOK
<1>7. ASSUME UNCHANGED <<next, pc, failed>> PROVE pc'[c] = "none" /\ c \notin failed'
  BY <1>2, <1>7
<1> QED
  BY <1>3, <1>5, <1>6, <1>7
  DEF Next, ParentStep, Start, Spawned, BindFeed, BindWeb, KillFails, Bail, Crash, vars, c

LEMMA Base == Spec => [](TypeOK /\ Unspawned)
<1>1. Init => TypeOK /\ Unspawned
  BY TypeInitial, Constants DEF Init, Unspawned, Child
<1>2. TypeOK /\ Unspawned /\ [Next]_vars => (TypeOK /\ Unspawned)'
  BY TypeKept, UnspawnedKept
<1> QED BY <1>1, <1>2, PTL DEF Spec

\* No process holds a port twice, or anything before it binds, and the web
\* server's record of what it spawned is exact.
THEOREM TypeCorrect == Spec => []TypeOK
BY Base, PTL

(***************************************************************************)
(* Ports.  A child binds its proxy's ports in order, and none that another *)
(* has; it serves once it has the last.                                    *)
(***************************************************************************)
InOrder ==
  \A c \in Child :
    /\ \A k \in 1..Len(held[c]) : held[c][k] = PortsOf[c[2]][k]
    /\ pc[c] = "serving" => Len(held[c]) = Len(PortsOf[c[2]])
Exclusive ==
  \A c, d \in Child : Range(held[c]) \cap Range(held[d]) # {} => c = d

\* Only Bind gives a child a port, or lets it serve; the others at most end it.
LEMMA OnlyBind ==
  ASSUME TypeOK, Unspawned, [Next]_vars,
         \A c \in Child : ~ (Bind(c) /\ ~End(c))
  PROVE  \A c \in Child :
           /\ held'[c] = held[c] \/ held'[c] = <<>>
           /\ pc'[c] = "serving" => pc[c] = "serving" /\ held'[c] = held[c]
<1> DEFINE Goal == \A c \in Child :
                     /\ held'[c] = held[c] \/ held'[c] = <<>>
                     /\ pc'[c] = "serving" => pc[c] = "serving" /\ held'[c] = held[c]
<1>1. ASSUME NEW d \in Child, End(d) PROVE Goal
  BY <1>1 DEF End, TypeOK
<1>2. ASSUME UNCHANGED held, NEW d, NEW v \in {"starting", "binding"},
             pc' = pc \/ pc' = [pc EXCEPT ![d] = v]
      PROVE  Goal
  BY <1>2 DEF TypeOK
<1>3. ASSUME NEW i \in Instance, Spawn(i) PROVE Goal
  BY <1>2, <1>3 DEF Spawn
<1>4. ASSUME NEW i \in Instance, Kill(i) PROVE Goal
  <2>1. PICK p \in Proxy : End(<<i, p>>) \/ UNCHANGED <<held, pc>>
    BY <1>4 DEF Kill, TypeOK
  <2>2. CASE UNCHANGED <<held, pc>>
    BY <2>2
  <2> QED BY <1>1, <2>1, <2>2 DEF Child
<1>5. ASSUME NEW d \in Child, StartUp(d) \/ Connect(d) PROVE Goal
  BY <1>2, <1>5 DEF StartUp, Connect
<1>6. ASSUME NEW d \in Child, StartFails(d) \/ Report(d) \/ TaskFails(d) PROVE Goal
  BY <1>1, <1>2, <1>6 DEF StartFails, Report, TaskFails
<1>7. ASSUME UNCHANGED <<held, pc>> PROVE Goal
  BY <1>7
<1>8. ASSUME NEW d \in Child, Bind(d) PROVE Goal
  BY <1>1, <1>8
<1> QED
  BY <1>3, <1>4, <1>5, <1>6, <1>7, <1>8
  DEF Next, ParentStep, ChildStep, Start, Spawned, BindFeed, BindWeb, KillFails, Bail, Crash, vars

LEMMA PortsKept ==
  TypeOK /\ Unspawned /\ InOrder /\ Exclusive /\ [Next]_vars => InOrder' /\ Exclusive'
<1> SUFFICES ASSUME TypeOK, Unspawned, InOrder, Exclusive, [Next]_vars
             PROVE  InOrder' /\ Exclusive'
  OBVIOUS
<1>1. CASE \A c \in Child : ~ (Bind(c) /\ ~End(c))
  <2>1. \A c \in Child :
          /\ held'[c] = held[c] \/ held'[c] = <<>>
          /\ pc'[c] = "serving" => pc[c] = "serving" /\ held'[c] = held[c]
    BY <1>1, OnlyBind
  <2>2. Range(<<>>) = {}
    BY DEF Range
  <2>3. InOrder'
    BY <2>1 DEF InOrder
  <2>4. Exclusive'
    BY <2>1, <2>2 DEF Exclusive
  <2> QED BY <2>3, <2>4
<1>2. ASSUME NEW c \in Child, Bind(c), ~End(c) PROVE InOrder' /\ Exclusive'
  <2> DEFINE n == Len(held[c]) + 1
  <2>1. /\ Free(NextPort(c)) /\ pc[c] = "binding"
        /\ held' = [held EXCEPT ![c] = Append(@, NextPort(c))]
        /\ pc' = [pc EXCEPT ![c] = IF n = Len(PortsOf[c[2]]) THEN "serving" ELSE "binding"]
    BY <1>2 DEF Bind
  <2>2. /\ held[c] \in Seq(Port) /\ PortsOf[c[2]] \in Seq(Port)
        /\ NextPort(c) = PortsOf[c[2]][n] /\ n \in 1..Len(PortsOf[c[2]])
    BY <2>1, Constants DEF TypeOK, Child, NextPort
  <2>3. /\ Len(held'[c]) = n /\ held'[c][n] = NextPort(c)
        /\ \A k \in 1..Len(held[c]) : held'[c][k] = held[c][k]
        /\ DOMAIN held'[c] = 1..n
    BY <2>1, <2>2 DEF TypeOK
  <2>4. \A d \in Child \ {c} : held'[d] = held[d] /\ pc'[d] = pc[d]
    BY <2>1 DEF TypeOK
  <2>5. InOrder'
    <3>1. \A k \in 1..n : held'[c][k] = PortsOf[c[2]][k]
      BY <2>2, <2>3 DEF InOrder
    <3>2. pc'[c] = "serving" => n = Len(PortsOf[c[2]])
      BY <2>1 DEF TypeOK
    <3> QED BY <2>3, <2>4, <3>1, <3>2 DEF InOrder
  <2>6. Exclusive'
    <3>1. \A x \in Range(held'[c]) : x \in Range(held[c]) \/ x = NextPort(c)
      BY <2>2, <2>3 DEF Range
    <3>2. \A d \in Child : NextPort(c) \notin Range(held[d])
      BY <2>1 DEF Free
    <3> QED BY <2>4, <3>1, <3>2 DEF Exclusive
  <2> QED BY <2>5, <2>6
<1> QED BY <1>1, <1>2

LEMMA Ports == Spec => [](TypeOK /\ InOrder /\ Exclusive)
<1>1. Init => InOrder /\ Exclusive
  BY DEF Init, InOrder, Exclusive, Range
<1> QED BY <1>1, Base, PortsKept, PTL DEF Spec

\* A serving process has its ports in full and none of another's.
LEMMA ServingIsWhole ==
  ASSUME TypeOK, InOrder, NEW c \in Child, pc[c] = "serving"
  PROVE  held[c] = PortsOf[c[2]]
<1>1. held[c] \in Seq(Port) /\ PortsOf[c[2]] \in Seq(Port)
  BY Constants DEF TypeOK, Child
<1> QED BY <1>1, SeqEqual DEF InOrder

\* WholeOrNothing: whatever was started twice, or shares a port, serves whole
\* or not at all, for any proxies and any history of starts and crashes.
THEOREM ServesWhole == Spec => []WholeOrNothing
<1>1. TypeOK /\ InOrder /\ Exclusive => WholeOrNothing
  BY ServingIsWhole DEF WholeOrNothing, Exclusive
<1> QED BY <1>1, Ports, PTL

\* OneProcessPerProxy: two processes of a proxy would hold the same first port.
THEOREM ServedOnce == Spec => []OneProcessPerProxy
<1>1. ASSUME TypeOK, InOrder, Exclusive PROVE OneProcessPerProxy
  <2> SUFFICES ASSUME NEW c \in Child, NEW d \in Child, pc[c] = "serving", pc[d] = "serving",
                      c[2] = d[2]
               PROVE  c = d
    BY DEF OneProcessPerProxy
  <2>1. held[c] = PortsOf[c[2]] /\ held[d] = PortsOf[c[2]]
    BY <1>1, ServingIsWhole
  <2>2. 1 \in DOMAIN PortsOf[c[2]]
    BY Constants DEF Child
  <2> QED BY <1>1, <2>1, <2>2 DEF Exclusive, Range
<1> QED BY <1>1, Ports, PTL

(***************************************************************************)
(* Ends.  What a step does to a child that it does not itself start.       *)
(***************************************************************************)
LEMMA StepOfChild ==
  ASSUME TypeOK, [Next]_vars, NEW c \in Child, pc'[c] # pc[c]
  PROVE  \/ pc'[c] = "starting" /\ par[c[1]] = "spawning" /\ Spawn(c[1])
         \/ pc[c] \in {"starting", "binding"} /\ pc'[c] \in {"binding", "serving"}
              /\ UNCHANGED <<par, failed>>
         \/ Alive(c) /\ pc'[c] = "ended" /\ UNCHANGED par /\
              \/ par[c[1]] = "killing" /\ failed' = failed
              \/ conn[c] \in (Instance \ feed) \cup {Reset} /\ failed' = failed
              \/ pc[c] = "binding" /\ failed' = failed
              \/ failed' = failed \cup {c}
<1> DEFINE Goal ==
         \/ pc'[c] = "starting" /\ par[c[1]] = "spawning" /\ Spawn(c[1])
         \/ pc[c] \in {"starting", "binding"} /\ pc'[c] \in {"binding", "serving"}
              /\ UNCHANGED <<par, failed>>
         \/ Alive(c) /\ pc'[c] = "ended" /\ UNCHANGED par /\
              \/ par[c[1]] = "killing" /\ failed' = failed
              \/ conn[c] \in (Instance \ feed) \cup {Reset} /\ failed' = failed
              \/ pc[c] = "binding" /\ failed' = failed
              \/ failed' = failed \cup {c}
<1>1. ASSUME NEW i \in Instance, Spawn(i) PROVE Goal
  <2>1. /\ par[i] = "spawning"
        /\ pc' = [pc EXCEPT ![<<i, Stored[next[i] + 1]>>] = "starting"]
    BY <1>1 DEF Spawn
  <2>2. c = <<i, Stored[next[i] + 1]>> /\ pc'[c] = "starting"
    BY <2>1 DEF TypeOK
  <2>3. c[1] = i
    BY <2>2
  <2> QED BY <1>1, <2>1, <2>2, <2>3
<1>2. ASSUME NEW d \in Child, End(d) PROVE c = d /\ pc'[c] = "ended"
  BY <1>2 DEF End, TypeOK
<1>3. ASSUME NEW i \in Instance, Kill(i) PROVE Goal
  <2>1. PICK p \in Proxy : Alive(<<i, p>>) /\ End(<<i, p>>)
    BY <1>3 DEF Kill, TypeOK
  <2>2. c = <<i, p>> /\ pc'[c] = "ended"
    BY <1>2, <2>1 DEF Child
  <2>3. c[1] = i
    BY <2>2
  <2> QED BY <1>3, <2>1, <2>2, <2>3 DEF Kill
<1>4. ASSUME NEW d \in Child, StartUp(d) PROVE Goal
  BY <1>4 DEF StartUp, TypeOK
<1>5. ASSUME NEW d \in Child, Bind(d) PROVE Goal
  <2>1. c = d
    BY <1>2, <1>5 DEF Bind, TypeOK
  <2>2. CASE End(d)
    BY <1>2, <1>5, <2>1, <2>2 DEF Bind, Alive
  <2>3. CASE ~End(d)
    BY <1>5, <2>1, <2>3 DEF Bind, TypeOK
  <2> QED BY <2>2, <2>3
<1>6. ASSUME NEW d \in Child, StartFails(d) \/ TaskFails(d) PROVE Goal
  BY <1>2, <1>6 DEF StartFails, TaskFails, Alive
<1>7. ASSUME NEW d \in Child, Report(d) PROVE Goal
  <2>1. End(d) /\ conn[d] \in (Instance \ feed) \cup {Reset} /\ pc[d] = "serving"
        /\ UNCHANGED <<par, failed>>
    BY <1>7 DEF Report
  <2> QED BY <1>2, <2>1 DEF Alive
<1>8. CASE UNCHANGED pc
  BY <1>8
<1> QED
  BY <1>1, <1>3, <1>4, <1>5, <1>6, <1>7, <1>8
  DEF Next, ParentStep, ChildStep, Start, Spawned, BindFeed, BindWeb, KillFails, Bail, Crash, Connect, vars

\* A child that failed does not run, and is not spawned again.
FailedIsOver == \A c \in failed : ~Alive(c)

LEMMA FailedKept == TypeOK /\ Unspawned /\ FailedIsOver /\ [Next]_vars => FailedIsOver'
<1> SUFFICES ASSUME TypeOK, Unspawned, FailedIsOver, [Next]_vars, NEW c \in failed'
             PROVE  ~Alive(c)'
  BY DEF FailedIsOver
<1>1. c \in Child
  BY TypeKept DEF TypeOK
<1>2. CASE c \notin failed
  <2>1. ASSUME NEW i \in Instance, Spawn(i) PROVE ~Alive(c)'
    <3>1. next[i] + 1 \in 1..Len(Stored) /\ next[i] \in Nat
      BY <2>1, StoredAssumption DEF Spawn, TypeOK
    <3>2. c = <<i, Stored[next[i] + 1]>> /\ UNCHANGED pc
      BY <1>2, <2>1 DEF Spawn
    <3>3. pc[<<i, Stored[next[i] + 1]>>] = "none"
      BY <3>1 DEF Unspawned
    <3> QED BY <3>2, <3>3 DEF Alive
  <2>2. ASSUME NEW d \in Child, StartFails(d) \/ TaskFails(d) PROVE ~Alive(c)'
    BY <1>1, <1>2, <2>2 DEF StartFails, TaskFails, End, Alive, TypeOK
  <2>3. CASE failed' = failed
    BY <1>2, <2>3
  <2> QED
    BY <2>1, <2>2, <2>3
    DEF Next, ParentStep, ChildStep, Start, Spawned, BindFeed, BindWeb, Kill,
        KillFails, Bail, Crash, StartUp, Bind, Connect, Report, vars
<1>3. CASE c \in failed
  <2>1. ~Alive(c)
    BY <1>3 DEF FailedIsOver
  <2>2. CASE pc'[c] = pc[c]
    BY <2>1, <2>2 DEF Alive
  <2>3. CASE pc'[c] # pc[c]
    <3>1. CASE pc'[c] = "starting" /\ Spawn(c[1])
      <4> DEFINE i == c[1]
      <4>1. i \in Instance
        BY <1>1 DEF Child
      <4>2. next[i] + 1 \in 1..Len(Stored) /\ next[i] \in Nat
        BY <3>1, <4>1, StoredAssumption DEF Spawn, TypeOK
      <4>3. c = <<i, Stored[next[i] + 1]>>
        BY <1>1, <2>3, <3>1 DEF Spawn, TypeOK
      <4>4. c \notin failed
        BY <4>1, <4>2, <4>3 DEF Unspawned
      <4> QED BY <1>3, <4>4
    <3>2. CASE ~ (pc'[c] = "starting" /\ Spawn(c[1]))
      BY <1>1, <2>1, <2>3, <3>2, StepOfChild DEF Alive
    <3> QED BY <3>1, <3>2
  <2> QED BY <2>2, <2>3
<1> QED BY <1>2, <1>3

\* EndsForCause: starting the program another time, or another proxy on the same
\* ports, never ends a process that serves.
THEOREM EndsOnlyForCause == Spec => EndsForCause
<1>1. Init => FailedIsOver
  BY DEF Init, FailedIsOver
<1>2. ASSUME TypeOK, FailedIsOver, [Next]_vars, NEW c \in Child,
             pc[c] = "serving", pc'[c] = "ended"
      PROVE  \/ par[c[1]] = "killing"
             \/ conn[c] \in (Instance \ feed) \cup {Reset}
             \/ failed' # failed
  <2>1. c \notin failed
    BY <1>2 DEF FailedIsOver, Alive
  <2> QED BY <1>2, <2>1, StepOfChild
<1>3. TypeOK /\ FailedIsOver /\ [Next]_vars =>
        [\A c \in Child : pc[c] = "serving" /\ pc'[c] = "ended" =>
           \/ par[c[1]] = "killing"
           \/ conn[c] \in (Instance \ feed) \cup {Reset}
           \/ failed' # failed]_vars
  BY <1>2
<1> QED BY <1>1, <1>3, Base, FailedKept, PTL DEF Spec, EndsForCause

(***************************************************************************)
(* The table.  A child that runs is in the table of who started it, until  *)
(* the loop that kills takes it out; nothing is added from then on.        *)
(***************************************************************************)
Tabled ==
  \A i \in Instance, p \in Proxy :
    /\ Alive(<<i, p>>) => p \in table[i]
    /\ par[i] = "bailed" => p \notin table[i]

\* What a step other than Spawn and Kill does to the table, and to who bails.
LEMMA TableOfOthers ==
  ASSUME TypeOK, [Next]_vars, NEW i \in Instance, ~Spawn(i), ~Kill(i)
  PROVE  /\ table'[i] = table[i]
         /\ par'[i] = "bailed" => par[i] = "bailed" \/ Bail(i)
<1> DEFINE Goal == /\ table'[i] = table[i]
                   /\ par'[i] = "bailed" => par[i] = "bailed" \/ Bail(i)
<1>1. ASSUME NEW j \in Instance, Spawn(j) \/ Kill(j) PROVE Goal
  <2>1. j # i /\ UNCHANGED par
    BY <1>1 DEF Spawn, Kill
  <2>2. table'[i] = table[i]
    BY <1>1, <2>1 DEF Spawn, Kill, TypeOK
  <2> QED BY <2>1, <2>2
<1>2. ASSUME NEW j \in Instance,
             Start(j) \/ Spawned(j) \/ BindFeed(j) \/ BindWeb(j) \/ KillFails(j) \/ Crash(j)
      PROVE  Goal
  BY <1>2 DEF Start, Spawned, BindFeed, BindWeb, KillFails, Crash, TypeOK
<1>3. ASSUME NEW j \in Instance, Bail(j) PROVE Goal
  BY <1>3 DEF Bail, TypeOK
<1>4. CASE UNCHANGED <<par, table>>
  BY <1>4
<1> QED
  BY <1>1, <1>2, <1>3, <1>4
  DEF Next, ParentStep, ChildStep, StartUp, Bind, Connect, StartFails, Report, TaskFails, vars

LEMMA TabledKept == TypeOK /\ Tabled /\ [Next]_vars => Tabled'
<1> SUFFICES ASSUME TypeOK, Tabled, [Next]_vars, NEW i \in Instance, NEW p \in Proxy
             PROVE  /\ Alive(<<i, p>>)' => p \in table'[i]
                    /\ par'[i] = "bailed" => p \notin table'[i]
  BY DEF Tabled
<1> DEFINE c == <<i, p>>
<1>1. c \in Child /\ c[1] = i
  BY DEF Child
<1>2. /\ Alive(c) => p \in table[i]
      /\ par[i] = "bailed" => p \notin table[i]
  BY DEF Tabled
<1>3. CASE Spawn(i)
  <2>1. par'[i] = "spawning" /\ table[i] \subseteq table'[i]
    BY <1>3 DEF Spawn, TypeOK
  <2>2. CASE pc'[c] = pc[c]
    BY <1>2, <2>1, <2>2 DEF Alive
  <2>3. CASE pc'[c] # pc[c]
    <3>1. /\ c = <<i, Stored[next[i] + 1]>>
          /\ table' = [table EXCEPT ![i] = @ \cup {<<i, Stored[next[i] + 1]>>[2]}]
      BY <1>1, <1>3, <2>3 DEF Spawn, TypeOK
    <3>2. p = Stored[next[i] + 1]
      BY <3>1
    <3> QED BY <2>1, <3>1, <3>2 DEF TypeOK
  <2> QED BY <2>2, <2>3
<1>4. CASE Kill(i)
  <2>1. PICK q \in table[i] :
          /\ table' = [table EXCEPT ![i] = @ \ {q}]
          /\ \/ Alive(<<i, q>>) /\ End(<<i, q>>)
             \/ ~Alive(<<i, q>>) /\ UNCHANGED <<pc, held, conn>>
    BY <1>4 DEF Kill
  <2>2. par'[i] = "killing" /\ table'[i] = table[i] \ {q} /\ q \in Proxy
    BY <1>4, <2>1 DEF Kill, TypeOK
  <2>3. CASE q = p
    <3>1. ~Alive(c)'
      BY <1>1, <2>1, <2>3 DEF End, Alive, TypeOK
    <3> QED BY <2>2, <3>1
  <2>4. CASE q # p
    <3>1. <<i, q>> # c
      BY <2>4
    <3>2. pc'[c] = pc[c]
      BY <1>1, <2>1, <3>1 DEF End, TypeOK
    <3> QED BY <1>2, <2>2, <2>4, <3>2 DEF Alive
  <2> QED BY <2>3, <2>4
<1>5. CASE ~Spawn(i) /\ ~Kill(i)
  <2>1. /\ table'[i] = table[i]
        /\ par'[i] = "bailed" => par[i] = "bailed" \/ Bail(i)
    BY <1>5, TableOfOthers
  <2>2. Alive(c)' => Alive(c)
    <3>1. CASE pc'[c] = pc[c]
      BY <3>1 DEF Alive
    <3>2. CASE pc'[c] # pc[c]
      BY <1>1, <1>5, <3>2, StepOfChild DEF Alive
    <3> QED BY <3>1, <3>2
  <2>3. Bail(i) => p \notin table[i]
    BY DEF Bail
  <2> QED BY <1>2, <2>1, <2>2, <2>3
<1> QED BY <1>3, <1>4, <1>5

\* WebFailureLeavesNone: the loop over the table, whatever children end and in
\* whatever order meanwhile, reaches every one that runs.
THEOREM NoneIsLeft == Spec => []WebFailureLeavesNone
<1>1. Init => Tabled
  BY DEF Init, Tabled, Alive, Child
<1>2. Tabled => WebFailureLeavesNone
  BY DEF Tabled, WebFailureLeavesNone
<1> QED BY <1>1, <1>2, Base, TabledKept, PTL DEF Spec
================================================================================
