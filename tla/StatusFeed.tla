----------------------------- MODULE StatusFeed -----------------------------
(***************************************************************************)
(* How the web page learns which workers of a proxy are online.            *)
(*                                                                         *)
(* Every session reports a clone of its Worker on a timer, and once more   *)
(* when it ends while online, on the unbounded worker_tx.  One task of the *)
(* proxy process, send_to_parent, writes the reports to a TCP connection   *)
(* with the parent; there recv_from_child keeps, for the proxy, one entry  *)
(* per worker name and overwrites it with every report of that name.       *)
(*                                                                         *)
(* A report is what the page needs of a Worker: its name and whether it is *)
(* online.  (FeeExchange's variable reported is the flag of the last one.) *)
(***************************************************************************)
EXTENDS Naturals, Sequences

CONSTANTS
  Session,     \* the miners' connections, each reused after it ended
  Name,        \* worker names, "wallet.name"
  Habits,      \* the ways miners use names: what each session may log in as
  MaxPending   \* bound: reports on their way to the parent

NoName == "none"

ASSUME NamesAssumption == /\ NoName \notin Name
                          /\ Habits \subseteq [Session -> SUBSET Name]
ASSUME PendingAssumption == MaxPending \in Nat \ {0}

Report == [worker : Name \cup {NoName}, online : BOOLEAN]

VARIABLES
  (* the sessions *)
  open, worker, online,
  (* the proxy process *)
  childUp, queue, linked,
  (* the connection and the parent *)
  wire, registered, workers,
  (* history, and what never changes *)
  told,        \* the session has reported itself online
  latest,      \* the last report put on worker_tx about each name
  dropped,     \* the names whose last report to arrive the parent dropped
  mayUse       \* the names each session may log in as

sessions == <<open, worker, online, told>>
child    == <<childUp, linked>>
parent   == <<registered, workers, dropped>>
vars == <<sessions, child, queue, wire, parent, latest, mayUse>>

Init ==
  /\ open = [s \in Session |-> FALSE]
  /\ worker = [s \in Session |-> NoName]
  /\ online = [s \in Session |-> FALSE]
  /\ childUp = TRUE
  /\ queue = <<>>
  /\ linked = FALSE
  /\ wire = <<>>
  /\ registered = FALSE
  /\ workers = <<>>
  /\ dropped = {}
  /\ told = [s \in Session |-> FALSE]
  /\ latest = [n \in Name \cup {NoName} |-> "never"]
  /\ mayUse \in Habits

-----------------------------------------------------------------------------
(* The sessions.                                                           *)

(* worker_tx.send of an unbounded channel; MaxPending is the bound.        *)
Tell(report) ==
  /\ Len(queue) + Len(wire) < MaxPending
  /\ queue' = Append(queue, report)
  /\ latest' = [latest EXCEPT ![report.worker] = IF report.online THEN "online" ELSE "offline"]

Accept(s) ==
  /\ childUp /\ ~open[s]
  /\ open' = [open EXCEPT ![s] = TRUE]
  /\ UNCHANGED <<mayUse, worker, online, told, child, queue, wire, parent, latest>>

(* eth_submitLogin: Worker.worker is set before the pool answers, and also *)
(* when the session is online under another name already.                  *)
Login(s, n) ==
  /\ childUp /\ open[s] /\ n \in mayUse[s]
  /\ worker' = [worker EXCEPT ![s] = n]
  /\ UNCHANGED <<mayUse, open, online, told, child, queue, wire, parent, latest>>

(* The pool's reply to the login: logind.                                  *)
Logind(s) ==
  /\ childUp /\ open[s] /\ worker[s] # NoName
  /\ online' = [online EXCEPT ![s] = TRUE]
  /\ UNCHANGED <<mayUse, open, worker, told, child, queue, wire, parent, latest>>

(* The timer of the select!, also before any login.                        *)
Timer(s) ==
  /\ childUp /\ open[s]
  /\ Tell([worker |-> worker[s], online |-> online[s]])
  /\ told' = [told EXCEPT ![s] = @ \/ online[s]]
  /\ UNCHANGED <<mayUse, open, worker, online, child, wire, parent>>

(* Mutant: a session that ends reports its Worker as it is.                *)
LastReportStale(s) ==
  IF online[s] THEN Tell([worker |-> worker[s], online |-> TRUE])
  ELSE UNCHANGED <<queue, latest>>

(* What the accept loop's task does when transfer returned.                *)
LastReport(s) ==
  IF online[s] THEN Tell([worker |-> worker[s], online |-> FALSE])
  ELSE UNCHANGED <<queue, latest>>

SessionEnds(s) ==
  /\ childUp /\ open[s]
  /\ LastReport(s)
  /\ open' = [open EXCEPT ![s] = FALSE]
  /\ worker' = [worker EXCEPT ![s] = NoName]
  /\ online' = [online EXCEPT ![s] = FALSE]
  /\ told' = [told EXCEPT ![s] = FALSE]
  /\ UNCHANGED <<mayUse, child, wire, parent>>

-----------------------------------------------------------------------------
(* The proxy process.                                                      *)

(* send_to_parent connects (and tries again two minutes after a failure).  *)
Connect ==
  /\ childUp /\ ~linked
  /\ linked' = TRUE
  /\ UNCHANGED <<mayUse, sessions, childUp, queue, wire, parent, latest>>

Send ==
  /\ childUp /\ linked /\ queue # <<>>
  /\ wire' = Append(wire, Head(queue))
  /\ queue' = Tail(queue)
  /\ UNCHANGED <<mayUse, sessions, child, parent, latest>>

(* A task of try_join! failed: the process ends and takes every session    *)
(* and the reports not yet written with it.  Nobody starts it again.       *)
ChildDies ==
  /\ childUp
  /\ childUp' = FALSE /\ linked' = FALSE
  /\ queue' = <<>>
  /\ open' = [s \in Session |-> FALSE]
  /\ worker' = [s \in Session |-> NoName]
  /\ online' = [s \in Session |-> FALSE]
  /\ told' = [s \in Session |-> FALSE]
  /\ UNCHANGED <<mayUse, wire, parent, latest>>

-----------------------------------------------------------------------------
(* The parent.                                                             *)

(* crate_app enters the proxy in the table after run_server started it; a  *)
(* proxy started with the parent is entered before any report arrives.     *)
Register ==
  /\ ~registered
  /\ registered' = TRUE
  /\ UNCHANGED <<mayUse, sessions, child, queue, wire, workers, dropped, latest>>

(* Mutant: only a new name makes it into the table.                        *)
UpdateNewOnly(entries, report) ==
  IF \E i \in 1..Len(entries) : entries[i].worker = report.worker
  THEN entries ELSE Append(entries, report)

(* Mutant: is_update is never set.                                         *)
UpdateAppends(entries, report) == Append(entries, report)

(* Every entry of the name is overwritten; without one the report is added.*)
Update(entries, report) ==
  IF \E i \in 1..Len(entries) : entries[i].worker = report.worker
  THEN [i \in 1..Len(entries) |-> IF entries[i].worker = report.worker THEN report ELSE entries[i]]
  ELSE Append(entries, report)

(* recv_from_child; the report of a proxy it does not know is dropped.     *)
RecvLine ==
  /\ wire # <<>>
  /\ wire' = Tail(wire)
  /\ \/ /\ registered /\ workers' = Update(workers, Head(wire))
        /\ dropped' = dropped \ {Head(wire).worker}
     \/ /\ ~registered /\ workers' = workers
        /\ dropped' = dropped \cup {Head(wire).worker}
  /\ UNCHANGED <<mayUse, sessions, child, queue, registered, latest>>

-----------------------------------------------------------------------------
SessionStep(s) ==
  \/ Accept(s) \/ Logind(s) \/ Timer(s) \/ SessionEnds(s)
  \/ \E n \in Name : Login(s, n)

Next ==
  \/ \E s \in Session : SessionStep(s)
  \/ Connect \/ Send \/ ChildDies
  \/ Register \/ RecvLine

(* The runtimes of both processes poll tasks that can go on; the parent    *)
(* listens, and enters the proxy in its table once it started it.  Miners, *)
(* pools and timers owe nothing.                                           *)
Fairness == WF_vars(Connect) /\ WF_vars(Send) /\ WF_vars(Register) /\ WF_vars(RecvLine)

Spec == Init /\ [][Next]_vars /\ Fairness

-----------------------------------------------------------------------------
Shown(n) == \E i \in 1..Len(workers) : workers[i].worker = n /\ workers[i].online
Drained == queue = <<>> /\ wire = <<>>

(* Every variable stays in its type; a name has one entry in the table.    *)
TypeOK ==
  /\ open \in [Session -> BOOLEAN]
  /\ worker \in [Session -> Name \cup {NoName}]
  /\ online \in [Session -> BOOLEAN]
  /\ childUp \in BOOLEAN /\ linked \in BOOLEAN /\ registered \in BOOLEAN
  /\ queue \in Seq(Report) /\ wire \in Seq(Report) /\ workers \in Seq(Report)
  /\ told \in [Session -> BOOLEAN] /\ mayUse \in Habits
  /\ latest \in [Name \cup {NoName} -> {"never", "online", "offline"}]
  /\ dropped \subseteq Name \cup {NoName}
  /\ \A i, k \in 1..Len(workers) : workers[i].worker = workers[k].worker => i = k

(* Nothing is reordered, lost or overwritten by an older report on its way *)
(* through the queue, the socket and the table: once all reports arrived,  *)
(* the page says of every name what was reported last under it, also when  *)
(* several sessions use the name (main.rs:464-490, 520-533).  Only a name  *)
(* whose last report came before the proxy was in the parent's table, and  *)
(* was dropped (main.rs:534-535), is not shown.                            *)
EntriesAreLatest ==
  Drained /\ childUp =>
    \A n \in Name \ dropped : Shown(n) <=> latest[n] = "online"

(* When every session has one name of its own, the page shows, once all    *)
(* reports arrived, exactly the workers whose session is running and has   *)
(* reported itself online: no ghost, and nobody left out but those whose   *)
(* last report was dropped, until they report again.                       *)
OwnNames ==
  \A s, t \in Session : \A n \in mayUse[s], k \in mayUse[t] : s = t <=> n = k
Reporting(n) == \E s \in Session : open[s] /\ told[s] /\ worker[s] = n
TableMatchesSessions ==
  OwnNames /\ Drained /\ childUp =>
    /\ \A n \in Name \ dropped : Shown(n) <=> Reporting(n)
    /\ \A n \in dropped : ~Shown(n)

(* What was reported last of a worker is shown in the end, online as well  *)
(* as offline, unless a newer report of that name says otherwise, the      *)
(* proxy dies with the report, or the report, one that says online, was    *)
(* dropped because the proxy was not in the table yet.                     *)
ReportsAreShown ==
  \A n \in Name :
    /\ latest[n] = "offline" ~> ~Shown(n) \/ latest[n] = "online" \/ ~childUp
    /\ latest[n] = "online" ~> Shown(n) \/ latest[n] = "offline" \/ ~childUp \/ n \in dropped

-----------------------------------------------------------------------------
(* "下线后的旷工不在展示", workers that went offline are no longer shown   *)
(* (doc/0.2.2开发日志:24): once all reports arrived, a worker that is      *)
(* shown has a session.                                                    *)
NoGhostWorkers ==
  Drained => \A n \in Name : Shown(n) => \E s \in Session : open[s] /\ worker[s] = n
=============================================================================
