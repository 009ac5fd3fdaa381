------------------------------ MODULE Supervision ------------------------------
(***************************************************************************)
(* Starting and ending the processes: the web server (async_main, "parent")*)
(* starts one child per stored proxy, then takes its feed port and its web *)
(* port; a child (tokio_run) takes the proxy's ports and reports over one  *)
(* connection to the feed.  The program may be started again while or      *)
(* after an earlier start of it runs, and children outlive a parent that   *)
(* crashes.  What ConfigStore says of configs.yaml is constant here.       *)
(***************************************************************************)
EXTENDS Integers, Sequences, Functions

CONSTANTS
  Stored,    \* the proxies in configs.yaml, in the file's order
  PortsOf,   \* per proxy, its ports in the order they are bound: tcp, encrypt, ssl
  MaxStart   \* bound: how often the program is started

Proxy == Range(Stored)
Instance == 1..MaxStart
Child == Instance \X Proxy   \* the process of a proxy, and who started it
Port == UNION {Range(PortsOf[p]) : p \in Proxy}

NoConn == 0    \* a connection is the number of the instance it leads to, or
Reset == -1    \* the peer is known to be gone

ASSUME StoredAssumption == Stored \in Seq(Proxy) /\ IsInjective(Stored)
ASSUME PortsAssumption ==    \* Settings::check: at least one port is not 0
  \A p \in Proxy : PortsOf[p] \in Seq(Range(PortsOf[p])) \ {<<>>} /\ IsInjective(PortsOf[p])
ASSUME StartAssumption == MaxStart \in Nat

VARIABLES
  par,      \* what an instance of the web server does
  next,     \* how many children it tried to start
  table,    \* the proxies in its table, with the handle of the child
  feed,     \* the instances listening on 127.0.0.1:65501
  pc,       \* what a child does
  held,     \* the ports it has bound
  conn,     \* its connection to the feed
  failed,   \* history: children that failed by themselves
  crashed   \* history: instances that crashed

vars == <<par, next, table, feed, pc, held, conn, failed, crashed>>

Init ==
  /\ par = [i \in Instance |-> "none"] /\ next = [i \in Instance |-> 0] /\ feed = {}
  /\ table = [i \in Instance |-> {}]
  /\ pc = [c \in Child |-> "none"] /\ held = [c \in Child |-> <<>>]
  /\ conn = [c \in Child |-> NoConn]
  /\ failed = {} /\ crashed = {}

Alive(c) == pc[c] \in {"starting", "binding", "serving"}
Running(i) == par[i] \in {"spawning", "binding", "up", "killing"}

(***************************************************************************)
(* The parent.                                                             *)
(***************************************************************************)
Start(i) ==
  /\ par[i] = "none" /\ \A j \in Instance : j < i => par[j] # "none"
  /\ par' = [par EXCEPT ![i] = "spawning"]
  /\ UNCHANGED <<next, table, feed, pc, held, conn, failed, crashed>>

\* run_server; its error is only logged.
SpawnUnlisted(i) ==
  /\ par[i] = "spawning" /\ next[i] < Len(Stored)
  /\ next' = [next EXCEPT ![i] = @ + 1]
  /\ LET c == <<i, Stored[next[i] + 1]>>
     IN  /\ \/ pc' = [pc EXCEPT ![c] = "starting"] /\ UNCHANGED failed
            \/ failed' = failed \cup {c} /\ UNCHANGED pc
         /\ table' = [table EXCEPT ![i] = {c[2]}]
  /\ UNCHANGED <<par, feed, held, conn, crashed>>

Spawn(i) ==
  /\ par[i] = "spawning" /\ next[i] < Len(Stored)
  /\ next' = [next EXCEPT ![i] = @ + 1]
  /\ LET c == <<i, Stored[next[i] + 1]>>
     IN  \/ /\ pc' = [pc EXCEPT ![c] = "starting"]
            /\ table' = [table EXCEPT ![i] = @ \cup {c[2]}]
            /\ UNCHANGED failed
         \/ failed' = failed \cup {c} /\ UNCHANGED <<pc, table>>
  /\ UNCHANGED <<par, feed, held, conn, crashed>>

\* The task recv_from_child is started, and races with the web port.
SpawnedEarly(i) ==
  /\ par[i] = "spawning"
  /\ par' = [par EXCEPT ![i] = "binding"]
  /\ UNCHANGED <<next, table, feed, pc, held, conn, failed, crashed>>

Spawned(i) ==
  /\ par[i] = "spawning" /\ next[i] = Len(Stored)
  /\ par' = [par EXCEPT ![i] = "binding"]
  /\ UNCHANGED <<next, table, feed, pc, held, conn, failed, crashed>>

\* process::exit(1) when the port is taken: the children stay.
BindFeed(i) ==
  /\ par[i] \in {"binding", "up", "killing"} /\ i \notin feed
  /\ \/ feed = {} /\ feed' = {i} /\ UNCHANGED par
     \/ feed # {} /\ par' = [par EXCEPT ![i] = "exited"] /\ UNCHANGED feed
  /\ UNCHANGED <<next, table, pc, held, conn, failed, crashed>>

BindWeb(i) ==
  /\ par[i] = "binding"
  /\ par' = [par EXCEPT ![i] = IF \E j \in Instance : par[j] = "up" THEN "killing" ELSE "up"]
  /\ UNCHANGED <<next, table, feed, pc, held, conn, failed, crashed>>

EndConnKept(c) ==
  /\ pc' = [pc EXCEPT ![c] = "ended"]
  /\ held' = [held EXCEPT ![c] = <<>>]
  /\ UNCHANGED conn

End(c) ==
  /\ pc' = [pc EXCEPT ![c] = "ended"]
  /\ held' = [held EXCEPT ![c] = <<>>]
  /\ conn' = [conn EXCEPT ![c] = NoConn]

\* The web port is taken: kill().await, child by child, in the table's order;
\* for one that is gone already it only collects the exit status.
KillByName(i) ==
  /\ par[i] = "killing"
  /\ \E p \in table[i] :
       /\ table' = [table EXCEPT ![i] = @ \ {p}]
       /\ \E j \in Instance : Alive(<<j, p>>) /\ End(<<j, p>>)
  /\ UNCHANGED <<par, next, feed, failed, crashed>>

Kill(i) ==
  /\ par[i] = "killing"
  /\ \E p \in table[i] :
       /\ table' = [table EXCEPT ![i] = @ \ {p}]
       /\ \/ Alive(<<i, p>>) /\ End(<<i, p>>)
          \/ ~Alive(<<i, p>>) /\ UNCHANGED <<pc, held, conn>>
  /\ UNCHANGED <<par, next, feed, failed, crashed>>

\* kill() is refused, or the wait for the child fails: `?` ends the loop and the
\* process, and the rest of the table is not killed.
KillFails(i) ==
  /\ par[i] = "killing" /\ table[i] # {}
  /\ par' = [par EXCEPT ![i] = "failed"] /\ feed' = feed \ {i}
  /\ UNCHANGED <<next, table, pc, held, conn, failed, crashed>>

Bail(i) ==
  /\ par[i] = "killing" /\ table[i] = {}
  /\ par' = [par EXCEPT ![i] = "bailed"] /\ feed' = feed \ {i}
  /\ UNCHANGED <<next, table, pc, held, conn, failed, crashed>>

\* Nothing kills the children of a parent that goes away (no kill_on_drop).
Crash(i) ==
  /\ Running(i)
  /\ par' = [par EXCEPT ![i] = "crashed"] /\ feed' = feed \ {i}
  /\ crashed' = crashed \cup {i}
  /\ UNCHANGED <<next, table, pc, held, conn, failed>>

(***************************************************************************)
(* A child.                                                                *)
(***************************************************************************)
\* Settings, certificates and the logins to the fee pools: read, or the end.
StartUp(c) ==
  /\ pc[c] = "starting" /\ pc' = [pc EXCEPT ![c] = "binding"]
  /\ UNCHANGED <<par, next, table, feed, held, conn, failed, crashed>>

StartFails(c) ==
  /\ pc[c] = "starting" /\ End(c) /\ failed' = failed \cup {c}
  /\ UNCHANGED <<par, next, table, feed, crashed>>

Free(port) == \A d \in Child : port \notin Range(held[d])
NextPort(c) == PortsOf[c[2]][Len(held[c]) + 1]

\* accept_tcp, accept_en_tcp, accept_tcp_with_tls: bind, or process::exit(1).
BindIgnored(c) ==
  /\ pc[c] = "binding"
  /\ held' = [held EXCEPT ![c] = Append(@, NextPort(c))]
  /\ pc' = [pc EXCEPT ![c] = IF Len(held[c]) + 1 = Len(PortsOf[c[2]])
                             THEN "serving" ELSE "binding"]
  /\ UNCHANGED <<par, next, table, feed, conn, failed, crashed>>

Bind(c) ==
  /\ pc[c] = "binding"
  /\ \/ /\ Free(NextPort(c))
        /\ held' = [held EXCEPT ![c] = Append(@, NextPort(c))]
        /\ pc' = [pc EXCEPT ![c] = IF Len(held[c]) + 1 = Len(PortsOf[c[2]])
                                   THEN "serving" ELSE "binding"]
        /\ UNCHANGED conn
     \/ ~Free(NextPort(c)) /\ End(c)
  /\ UNCHANGED <<par, next, table, feed, failed, crashed>>

\* send_to_parent: one connection, tried again every two minutes ...
Connect(c) ==
  /\ pc[c] = "serving" /\ conn[c] = NoConn
  /\ \E i \in feed : conn' = [conn EXCEPT ![c] = i]
  /\ UNCHANGED <<par, next, table, feed, pc, held, failed, crashed>>

\* ... and, once open, never: the first write after the parent went away may
\* still succeed, one that fails panics and ends the process.
Report(c) ==
  /\ pc[c] = "serving"
  /\ \/ /\ conn[c] \in Instance \ feed
        /\ conn' = [conn EXCEPT ![c] = Reset] /\ UNCHANGED <<pc, held>>
     \/ conn[c] \in (Instance \ feed) \cup {Reset} /\ End(c)
  /\ UNCHANGED <<par, next, table, feed, failed, crashed>>

\* try_join! got an error: a fee pool cannot be logged in to again, ...
TaskFails(c) ==
  /\ pc[c] = "serving" /\ End(c) /\ failed' = failed \cup {c}
  /\ UNCHANGED <<par, next, table, feed, crashed>>

ParentStep(i) ==
  Spawn(i) \/ Spawned(i) \/ BindFeed(i) \/ BindWeb(i) \/ Kill(i) \/ Bail(i)
ChildStep(c) == StartUp(c) \/ Bind(c) \/ Connect(c)

Next ==
  \/ \E i \in Instance : Start(i) \/ ParentStep(i) \/ KillFails(i) \/ Crash(i)
  \/ \E c \in Child : ChildStep(c) \/ StartFails(c) \/ Report(c) \/ TaskFails(c)

\* The program is started once; processes run, and what they await of the
\* operating system returns; every proxy has a miner, whose session reports twice
\* a minute.
Fairness ==
  /\ WF_vars(Start(1))
  /\ \A i \in Instance : WF_vars(ParentStep(i))
  /\ \A c \in Child : WF_vars(Bind(c) \/ Connect(c)) /\ WF_vars(Report(c))

\* What no line of the code makes sure of: the logins to the fee pools, which a
\* child awaits before it binds a port, return.
LoginsReturn == \A c \in Child : WF_vars(StartUp(c))

Spec == Init /\ [][Next]_vars /\ Fairness

--------------------------------------------------------------------------------
\* Types; a child that does not run holds nothing.
TypeOK ==
  /\ par \in [Instance -> {"none", "spawning", "binding", "up", "killing",
                           "exited", "bailed", "failed", "crashed"}]
  /\ table \in [Instance -> SUBSET Proxy]
  /\ next \in [Instance -> 0..Len(Stored)] /\ feed \subseteq {i \in Instance : Running(i)}
  /\ pc \in [Child -> {"none", "starting", "binding", "serving", "ended"}]
  /\ held \in [Child -> Seq(Port)] /\ conn \in [Child -> Instance \cup {NoConn, Reset}]
  /\ \A c \in Child :
       /\ Len(held[c]) <= Len(PortsOf[c[2]])
       /\ pc[c] = "binding" => Len(held[c]) < Len(PortsOf[c[2]])
       /\ pc[c] \notin {"binding", "serving"} => held[c] = <<>> /\ conn[c] = NoConn
  /\ failed \subseteq Child /\ crashed \subseteq Instance

\* A process that serves a proxy has all its ports, none of which another
\* process has: whatever was started twice, or shares a port, either serves
\* whole or is gone.
WholeOrNothing ==
  \A c \in Child : pc[c] = "serving" =>
    /\ held[c] = PortsOf[c[2]]
    /\ \A d \in Child \ {c} : Range(held[d]) \cap Range(held[c]) = {}

\* However often the program was started and crashed, and whoever is left over
\* from earlier, no proxy is ever served by two processes.
OneProcessPerProxy ==
  \A c, d \in Child : pc[c] = "serving" /\ pc[d] = "serving" /\ c[2] = d[2] => c = d

\* An instance that went through the loop that kills its children, because the
\* web port was taken, leaves no process, wherever in their own start they were
\* and whoever of them ended meanwhile: its table had every one that ran.
WebFailureLeavesNone ==
  \A i \in Instance, p \in Proxy : par[i] = "bailed" => ~Alive(<<i, p>>)

\* A process that serves ends because its own parent kills it, its feed went
\* away, or a task of its own failed: never because the program is started
\* another time, or another proxy wants its port.
EndsForCause ==
  [][\A c \in Child : pc[c] = "serving" /\ pc'[c] = "ended" =>
       \/ par[c[1]] = "killing"
       \/ conn[c] \in (Instance \ feed) \cup {Reset}
       \/ failed' # failed]_vars

Served(p) == \E i \in Instance : pc[<<i, p>>] = "serving"
Outrun(p) ==    \* one that shares a port was faster
  \E q \in Proxy \ {p} : Served(q) /\ Range(PortsOf[p]) \cap Range(PortsOf[q]) # {}

\* Started once, with nothing failing and fee pools that answer, every stored
\* proxy comes to be served (or one that shares a port with it) for good.
FreshStartServes ==
  LoginsReturn =>
    \/ <>[](\A p \in Proxy : Served(p) \/ Outrun(p))
    \/ <>(failed # {} \/ crashed # {} \/ \E i \in Instance : i > 1 /\ par[i] # "none")

\* doc/0.2.2: the stored proxies are started again after a restart.  So when the
\* starts do not overlap, the last one leads to a web server that stays up, and
\* no process fails by itself or waits for a fee pool, all come to be served.
OneAtATime == \A i, j \in Instance : Running(i) /\ Running(j) => i = j
RestartServes ==
  LoginsReturn /\ []OneAtATime /\ <>[](par[MaxStart] = "up") /\ [](failed = {}) =>
    <>[](\A p \in Proxy : Served(p))
================================================================================
