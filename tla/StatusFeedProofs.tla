---------------------------- MODULE StatusFeedProofs ----------------------------
(* Proofs about StatusFeed, for any sessions, names, habits and number of   *)
(* reports on their way.                                                    *)
EXTENDS StatusFeed, SequenceTheorems, TLAPS

(***************************************************************************)
(* What the parent does with a report.                                     *)
(***************************************************************************)
OneEntryPerName(entries) ==
  \A i, k \in 1..Len(entries) : entries[i].worker = entries[k].worker => i = k

\* The entries of the report's name become the report, the others stay, and no
\* name is entered twice.
LEMMA UpdateEntries ==
  ASSUME NEW entries \in Seq(Report), NEW report \in Report, OneEntryPerName(entries)
  PROVE  /\ Update(entries, report) \in Seq(Report)
         /\ OneEntryPerName(Update(entries, report))
         /\ \A i \in 1..Len(Update(entries, report)) :
              \/ Update(entries, report)[i] = report
              \/ /\ i \in 1..Len(entries) /\ Update(entries, report)[i] = entries[i]
                 /\ entries[i].worker # report.worker
         /\ \E i \in 1..Len(Update(entries, report)) :
              Update(entries, report)[i].worker = report.worker
         /\ \A i \in 1..Len(entries) :
              \E k \in 1..Len(Update(entries, report)) :
                Update(entries, report)[k].worker = entries[i].worker
<1> DEFINE old == \E i \in 1..Len(entries) : entries[i].worker = report.worker
           over == [i \in 1..Len(entries) |->
                      IF entries[i].worker = report.worker THEN report ELSE entries[i]]
<1>1. CASE old
  <2>1. Update(entries, report) = over
    BY <1>1 DEF Update
  <2>2. over \in Seq(Report) /\ Len(over) = Len(entries)
    OBVIOUS
  <2>3. \A i \in 1..Len(entries) : over[i].worker = entries[i].worker
    OBVIOUS
  <2>4. OneEntryPerName(over)
    BY <2>2, <2>3 DEF OneEntryPerName
  <2>5. \E i \in 1..Len(over) : over[i].worker = report.worker
    BY <1>1, <2>2, <2>3
  <2>6. \A i \in 1..Len(over) : over[i] = report \/
          (i \in 1..Len(entries) /\ over[i] = entries[i] /\ entries[i].worker # report.worker)
    BY <2>2
  <2> HIDE DEF over
  <2> QED BY <2>1, <2>2, <2>3, <2>4, <2>5, <2>6
<1>2. CASE ~old
  <2>1. Update(entries, report) = Append(entries, report)
    BY <1>2 DEF Update
  <2>2. /\ Append(entries, report) \in Seq(Report)
        /\ Len(Append(entries, report)) = Len(entries) + 1
        /\ Append(entries, report)[Len(entries) + 1] = report
        /\ \A i \in 1..Len(entries) : Append(entries, report)[i] = entries[i]
    BY AppendProperties
  <2>3. \A i \in 1..Len(entries) + 1 :
          \/ i = Len(entries) + 1 /\ Append(entries, report)[i] = report
          \/ i \in 1..Len(entries) /\ Append(entries, report)[i] = entries[i]
    BY <2>2
  <2>4. \A i \in 1..Len(entries) : entries[i].worker # report.worker
    BY <1>2
  <2>5. OneEntryPerName(Append(entries, report))
    BY <2>2, <2>3, <2>4 DEF OneEntryPerName
  <2>6. Len(entries) + 1 \in 1..Len(entries) + 1 /\ 1..Len(entries) \subseteq 1..Len(entries) + 1
    OBVIOUS
  <2> QED BY <2>1, <2>2, <2>3, <2>4, <2>5, <2>6
<1> QED BY <1>1, <1>2

(***************************************************************************)
(* Type correctness.                                                       *)
(***************************************************************************)
LEMMA TypeInitial == ASSUME Init PROVE TypeOK
<1>1. worker \in [Session -> Name \cup {NoName}]
  BY DEF Init
<1>2. queue \in Seq(Report) /\ wire \in Seq(Report) /\ workers \in Seq(Report) /\ Len(workers) = 0
  BY DEF Init
<1>3. latest \in [Name \cup {NoName} -> {"never", "online", "offline"}]
  BY DEF Init
<1>4. \A i, k \in 1..Len(workers) : workers[i].worker = workers[k].worker => i = k
  BY <1>2
<1> QED BY <1>1, <1>2, <1>3, <1>4 DEF Init, TypeOK

\* A report put on worker_tx.
LEMMA TellTyped ==
  ASSUME TypeOK, NEW report \in Report, Tell(report)
  PROVE  /\ queue' \in Seq(Report)
         /\ latest' \in [Name \cup {NoName} -> {"never", "online", "offline"}]
BY DEF TypeOK, Tell, Report

LEMMA SessionTyped ==
  ASSUME TypeOK, NEW s \in Session, SessionStep(s)
  PROVE  TypeOK'
<1>1. CASE Accept(s)
  BY <1>1 DEF TypeOK, Accept, child, parent
<1>2. ASSUME NEW n \in Name, Login(s, n) PROVE TypeOK'
  BY <1>2 DEF TypeOK, Login, child, parent
<1>3. CASE Logind(s)
  BY <1>3 DEF TypeOK, Logind, child, parent
<1>4. CASE Timer(s)
  <2>1. [worker |-> worker[s], online |-> online[s]] \in Report
    BY DEF TypeOK, Report
  <2>2. queue' \in Seq(Report) /\ latest' \in [Name \cup {NoName} -> {"never", "online", "offline"}]
    BY <1>4, <2>1, TellTyped DEF Timer
  <2>3. told' \in [Session -> BOOLEAN]
    BY <1>4 DEF Timer, TypeOK
  <2> QED BY <1>4, <2>2, <2>3 DEF TypeOK, Timer, child, parent
<1>5. CASE SessionEnds(s)
  <2>1. [worker |-> worker[s], online |-> FALSE] \in Report
    BY DEF TypeOK, Report
  <2>2. queue' \in Seq(Report) /\ latest' \in [Name \cup {NoName} -> {"never", "online", "offline"}]
    <3>1. CASE online[s]
      BY <1>5, <2>1, <3>1, TellTyped DEF SessionEnds, LastReport
    <3>2. CASE ~online[s]
      BY <1>5, <3>2 DEF SessionEnds, LastReport, TypeOK
    <3> QED BY <3>1, <3>2
  <2> QED BY <1>5, <2>2 DEF TypeOK, SessionEnds, child, parent
<1> QED BY <1>1, <1>2, <1>3, <1>4, <1>5 DEF SessionStep

LEMMA TypeKept == TypeOK /\ [Next]_vars => TypeOK'
<1> SUFFICES ASSUME TypeOK, [Next]_vars PROVE TypeOK'
  OBVIOUS
<1>1. ASSUME NEW s \in Session, SessionStep(s) PROVE TypeOK'
  BY <1>1, SessionTyped
<1>2. CASE Connect
  BY <1>2 DEF TypeOK, Connect, sessions, parent
<1>3. CASE Send
  <2>1. queue \in Seq(Report) /\ queue # <<>> /\ wire \in Seq(Report)
    BY <1>3 DEF TypeOK, Send
  <2>2. wire' \in Seq(Report) /\ queue' \in Seq(Report)
    BY <1>3, <2>1, HeadTailProperties, AppendProperties DEF Send
  <2> QED BY <1>3, <2>2 DEF TypeOK, Send, sessions, child, parent
<1>4. CASE ChildDies
  <2>1. worker' \in [Session -> Name \cup {NoName}] /\ queue' \in Seq(Report)
    BY <1>4 DEF ChildDies
  <2> QED BY <1>4, <2>1 DEF TypeOK, ChildDies, parent
<1>5. CASE Register
  BY <1>5 DEF TypeOK, Register, sessions, child
<1>6. CASE RecvLine
  <2>1. Head(wire) \in Report /\ Tail(wire) \in Seq(Report)
    BY <1>6 DEF TypeOK, RecvLine
  <2>2. workers' \in Seq(Report) /\ OneEntryPerName(workers')
    <3>1. workers \in Seq(Report) /\ OneEntryPerName(workers)
      BY DEF TypeOK, OneEntryPerName
    <3>2. /\ Update(workers, Head(wire)) \in Seq(Report)
          /\ OneEntryPerName(Update(workers, Head(wire)))
      BY <2>1, <3>1, UpdateEntries
    <3>3. workers' = Update(workers, Head(wire)) \/ workers' = workers
      BY <1>6 DEF RecvLine
    <3> QED BY <3>1, <3>2, <3>3
  <2>3. dropped' \subseteq Name \cup {NoName}
    BY <1>6, <2>1 DEF RecvLine, TypeOK, Report
  <2> QED BY <1>6, <2>1, <2>2, <2>3 DEF TypeOK, RecvLine, OneEntryPerName, sessions, child
<1>7. CASE UNCHANGED vars
  BY <1>7 DEF TypeOK, vars, sessions, child, parent
<1> QED BY <1>1, <1>2, <1>3, <1>4, <1>5, <1>6, <1>7 DEF Next

\* TypeOK: no report is torn or mixed up on its way, and the table never has two
\* entries of one worker, whatever order names are reported in.
THEOREM TypeCorrect == Spec => []TypeOK
BY TypeInitial, TypeKept, PTL DEF Spec

(***************************************************************************)
(* The reports on their way, the oldest first, and the last of them about  *)
(* a name.                                                                 *)
(***************************************************************************)
Pending == wire \o queue
Flag(report) == IF report.online THEN "online" ELSE "offline"
LastAbout(q, i, n) ==
  q[i].worker = n /\ \A k \in 1..Len(q) : k > i => q[k].worker # n
Silent(q, n) == \A i \in 1..Len(q) : q[i].worker # n

\* What is reported last about a name is on its way, or else in the table, or
\* was dropped.
Listed(n) == \E i \in 1..Len(workers) : workers[i].worker = n
LatestInv(n) ==
  /\ \A i \in 1..Len(Pending) : LastAbout(Pending, i, n) => Flag(Pending[i]) = latest[n]
  /\ Silent(Pending, n) =>
       /\ \A i \in 1..Len(workers) : workers[i].worker = n => Flag(workers[i]) = latest[n]
       /\ n \notin dropped /\ ~Listed(n) => latest[n] = "never"

\* Reports of a proxy the parent does not know yet leave nothing behind.
NewsInv ==
  /\ ~registered => workers = <<>>
  /\ childUp => \A n \in Name : LatestInv(n)

LEMMA NewsInitial == Init => NewsInv
<1> SUFFICES ASSUME Init PROVE NewsInv
  OBVIOUS
<1>1. Pending = <<>> /\ Len(Pending) = 0 /\ Len(workers) = 0
  BY DEF Init, Pending
<1> QED BY <1>1 DEF Init, NewsInv, LatestInv, Listed

\* A report that moves from the queue to the socket keeps its place.
LEMMA Moved ==
  ASSUME NEW S, NEW a \in Seq(S), NEW b \in Seq(S), b # <<>>
  PROVE  Append(a, Head(b)) \o Tail(b) = a \o b
<1>1. b = <<Head(b)>> \o Tail(b) /\ <<Head(b)>> \in Seq(S) /\ Tail(b) \in Seq(S)
  BY HeadTailProperties
<1>2. Append(a, Head(b)) = a \o <<Head(b)>>
  BY AppendIsConcat, HeadTailProperties
<1> QED BY <1>1, <1>2, ConcatAssociative

\* A report that is added is the last one about its name; the others' stay.
LEMMA TellNews ==
  ASSUME TypeOK, NewsInv, NEW report \in Report, Tell(report), UNCHANGED <<wire, workers, dropped>>,
         NEW n \in Name, LatestInv(n)
  PROVE  LatestInv(n)'
<1>1. Pending \in Seq(Report) /\ wire \in Seq(Report) /\ queue \in Seq(Report)
  BY DEF TypeOK, Pending
<1>2. Pending' = Append(Pending, report)
  <2>1. queue' = Append(queue, report) /\ wire' = wire
    BY DEF Tell
  <2> QED BY <1>1, <2>1 DEF Pending
<1>3. /\ Len(Pending') = Len(Pending) + 1 /\ Len(Pending) \in Nat
      /\ Pending'[Len(Pending) + 1] = report
      /\ \A i \in 1..Len(Pending) : Pending'[i] = Pending[i]
  BY <1>1, <1>2
<1>4. latest'[n] = IF report.worker = n THEN Flag(report) ELSE latest[n]
  BY DEF TypeOK, Tell, Flag, Report
<1>5. ASSUME NEW i \in 1..Len(Pending'), LastAbout(Pending', i, n)
      PROVE  Flag(Pending'[i]) = latest'[n]
  <2>1. CASE i = Len(Pending) + 1
    BY <1>3, <1>4, <1>5, <2>1 DEF LastAbout
  <2>2. CASE i # Len(Pending) + 1
    <3>1. i \in 1..Len(Pending) /\ Len(Pending) + 1 > i
      BY <1>3, <2>2
    <3>2. report.worker # n
      BY <1>3, <1>5, <3>1 DEF LastAbout
    <3>3. LastAbout(Pending, i, n)
      BY <1>3, <1>5, <3>1 DEF LastAbout
    <3> QED BY <1>3, <1>4, <3>1, <3>2, <3>3 DEF LatestInv
  <2> QED BY <2>1, <2>2
<1>6. ASSUME Silent(Pending', n)
      PROVE  latest'[n] = latest[n] /\ Silent(Pending, n)
  <2>1. report.worker # n /\ Silent(Pending, n)
    BY <1>3, <1>6 DEF Silent
  <2> QED BY <1>4, <2>1
<1> QED BY <1>5, <1>6 DEF LatestInv, Listed

\* A report that arrives goes into the table, in place of older ones.
LEMMA RecvNews ==
  ASSUME TypeOK, NewsInv, RecvLine, NEW n \in Name, LatestInv(n)
  PROVE  LatestInv(n)'
<1>1. /\ Pending \in Seq(Report) /\ wire \in Seq(Report) /\ queue \in Seq(Report)
      /\ wire # <<>> /\ wire' = Tail(wire) /\ queue' = queue /\ latest' = latest
  BY DEF TypeOK, Pending, RecvLine
<1>2. Pending # <<>> /\ Pending' = Tail(Pending) /\ Pending[1] = Head(wire) /\ Head(wire) \in Report
  BY <1>1 DEF Pending
<1>3. /\ Len(Pending) \in Nat /\ Len(Pending') = Len(Pending) - 1
      /\ \A i \in 1..Len(Pending') : Pending'[i] = Pending[i + 1]
  BY <1>1, <1>2
<1>4. \A i \in 2..Len(Pending) : i - 1 \in 1..Len(Pending') /\ Pending[i] = Pending'[i - 1]
  BY <1>3
<1>5. ASSUME NEW i \in 1..Len(Pending'), LastAbout(Pending', i, n)
      PROVE  Flag(Pending'[i]) = latest'[n]
  <2>1. i + 1 \in 1..Len(Pending) /\ Pending[i + 1] = Pending'[i]
    BY <1>3
  <2>2. ASSUME NEW k \in 1..Len(Pending), k > i + 1 PROVE Pending[k].worker # n
    <3>1. k \in 2..Len(Pending) /\ k - 1 > i
      BY <1>3, <2>2
    <3> QED BY <1>4, <1>5, <3>1 DEF LastAbout
  <2>3. LastAbout(Pending, i + 1, n)
    BY <1>5, <2>1, <2>2 DEF LastAbout
  <2> QED BY <1>1, <2>1, <2>3 DEF LatestInv
<1>6. ASSUME Silent(Pending', n), NEW i \in 1..Len(workers'), workers'[i].worker = n
      PROVE  Flag(workers'[i]) = latest'[n]
  <2>1. registered /\ workers' = Update(workers, Head(wire))
    <3>1. CASE ~registered
      BY <1>6, <3>1 DEF RecvLine, NewsInv
    <3> QED BY <3>1 DEF RecvLine
  <2>2. \A k \in 2..Len(Pending) : Pending[k].worker # n
    BY <1>4, <1>6 DEF Silent
  <2>3. workers \in Seq(Report) /\ OneEntryPerName(workers)
    BY DEF TypeOK, OneEntryPerName
  <2>4. \/ workers'[i] = Head(wire)
        \/ /\ i \in 1..Len(workers) /\ workers'[i] = workers[i]
           /\ workers[i].worker # Head(wire).worker
    <3>1. \A k \in 1..Len(Update(workers, Head(wire))) :
            \/ Update(workers, Head(wire))[k] = Head(wire)
            \/ /\ k \in 1..Len(workers) /\ Update(workers, Head(wire))[k] = workers[k]
               /\ workers[k].worker # Head(wire).worker
      <4>1. Head(wire) \in Report
        BY <1>2
      <4> QED BY <2>3, <4>1, UpdateEntries
    <3>2. i \in 1..Len(Update(workers, Head(wire)))
      BY <1>6, <2>1
    <3> QED BY <2>1, <3>1, <3>2
  <2>5. CASE workers'[i] = Head(wire)
    <3>1. \A k \in 1..Len(Pending) : k > 1 => k \in 2..Len(Pending)
      BY <1>3
    <3>2. 1 \in 1..Len(Pending) /\ LastAbout(Pending, 1, n)
      BY <1>1, <1>2, <1>3, <1>6, <2>2, <2>5, <3>1 DEF LastAbout
    <3> QED BY <1>1, <1>2, <2>5, <3>2 DEF LatestInv
  <2>6. CASE /\ i \in 1..Len(workers) /\ workers'[i] = workers[i]
             /\ workers[i].worker # Head(wire).worker
    <3>1. \A k \in 1..Len(Pending) : k = 1 \/ k \in 2..Len(Pending)
      BY <1>3
    <3>2. Silent(Pending, n)
      BY <1>2, <1>6, <2>2, <2>6, <3>1 DEF Silent
    <3> QED BY <1>1, <1>6, <2>6, <3>2 DEF LatestInv
  <2> QED BY <2>4, <2>5, <2>6
<1>7. ASSUME Silent(Pending', n), n \notin dropped', ~Listed(n)'
      PROVE  latest'[n] = "never"
  <2>1. workers \in Seq(Report) /\ OneEntryPerName(workers) /\ Head(wire) \in Report
    BY <1>2 DEF TypeOK, OneEntryPerName
  <2>2. /\ \E i \in 1..Len(Update(workers, Head(wire))) :
             Update(workers, Head(wire))[i].worker = Head(wire).worker
        /\ \A i \in 1..Len(workers) :
             \E k \in 1..Len(Update(workers, Head(wire))) :
               Update(workers, Head(wire))[k].worker = workers[i].worker
    BY <2>1, UpdateEntries
  <2>3. Head(wire).worker # n /\ n \notin dropped /\ ~Listed(n)
    <3>1. CASE registered
      BY <1>7, <2>2, <3>1 DEF RecvLine, Listed
    <3>2. CASE ~registered
      BY <1>7, <3>2 DEF RecvLine, Listed
    <3> QED BY <3>1, <3>2
  <2>4. \A k \in 1..Len(Pending) : k = 1 \/ k \in 2..Len(Pending)
    BY <1>3
  <2>5. Silent(Pending, n)
    BY <1>2, <1>4, <1>7, <2>3, <2>4 DEF Silent
  <2> QED BY <1>1, <2>3, <2>5 DEF LatestInv
<1> QED BY <1>5, <1>6, <1>7 DEF LatestInv

LEMMA NewsKept == TypeOK /\ NewsInv /\ [Next]_vars => NewsInv'
<1> SUFFICES ASSUME TypeOK, NewsInv, [Next]_vars PROVE NewsInv'
  OBVIOUS
<1> DEFINE Quiet == UNCHANGED <<childUp, wire, queue, latest, workers, dropped>> /\ (registered => registered')
<1>1. ASSUME Quiet PROVE NewsInv'
  BY <1>1 DEF NewsInv, LatestInv, Pending, Listed
<1>2. ASSUME NEW s \in Session, SessionStep(s) PROVE NewsInv'
  <2>1. CASE Accept(s) \/ Logind(s) \/ \E n \in Name : Login(s, n)
    <3>1. Quiet
      BY <2>1 DEF Accept, Logind, Login, child, parent
    <3> QED BY <1>1, <3>1
  <2>2. ASSUME NEW report \in Report, Tell(report), UNCHANGED <<wire, workers, dropped, registered, childUp>>
        PROVE  NewsInv'
    BY <2>2, TellNews DEF NewsInv
  <2>3. CASE Timer(s)
    <3>1. [worker |-> worker[s], online |-> online[s]] \in Report
      BY DEF TypeOK, Report
    <3> QED BY <2>2, <2>3, <3>1 DEF Timer, child, parent
  <2>4. CASE SessionEnds(s)
    <3>1. [worker |-> worker[s], online |-> FALSE] \in Report
      BY DEF TypeOK, Report
    <3>2. CASE online[s]
      BY <2>2, <2>4, <3>1, <3>2 DEF SessionEnds, LastReport, child, parent
    <3>3. CASE ~online[s]
      BY <1>1, <2>4, <3>3 DEF SessionEnds, LastReport, child, parent
    <3> QED BY <3>2, <3>3
  <2> QED BY <1>2, <2>1, <2>3, <2>4 DEF SessionStep
<1>3. CASE Connect \/ Register
  BY <1>3, <1>1 DEF Connect, Register, sessions, child, parent, NewsInv, LatestInv, Pending, Listed
<1>4. CASE Send
  <2>1. /\ queue \in Seq(Report) /\ queue # <<>> /\ wire \in Seq(Report)
        /\ wire' = Append(wire, Head(queue)) /\ queue' = Tail(queue)
    BY <1>4 DEF TypeOK, Send
  <2>2. Pending' = Pending
    BY <2>1, Moved DEF Pending
  <2> QED BY <1>4, <2>2 DEF Send, NewsInv, LatestInv, Listed, child, parent
<1>5. CASE ChildDies
  BY <1>5 DEF ChildDies, NewsInv, parent
<1>6. CASE RecvLine
  <2>1. ~registered' => workers' = <<>>
    BY <1>6 DEF RecvLine, NewsInv
  <2>2. childUp' = childUp
    BY <1>6 DEF RecvLine, child
  <2> QED BY <1>6, <2>1, <2>2, RecvNews DEF NewsInv
<1>7. CASE UNCHANGED vars
  BY <1>1, <1>7 DEF vars, child, parent
<1> QED BY <1>2, <1>3, <1>4, <1>5, <1>6, <1>7 DEF Next

LEMMA News == Spec => [](TypeOK /\ NewsInv)
BY TypeInitial, TypeKept, NewsInitial, NewsKept, PTL DEF Spec

\* EntriesAreLatest: once nothing is on its way, the table has the last report
\* about every name whose last report was not dropped, whoever reports under it.
LEMMA DrainedIsLatest == TypeOK /\ NewsInv => EntriesAreLatest
<1> SUFFICES ASSUME TypeOK, NewsInv, Drained, childUp, NEW n \in Name, n \notin dropped
             PROVE  Shown(n) <=> latest[n] = "online"
  BY DEF EntriesAreLatest
<1>1. Len(Pending) = 0
  BY DEF Drained, Pending
<1>2. /\ \A i \in 1..Len(workers) : workers[i].worker = n => Flag(workers[i]) = latest[n]
      /\ ~Listed(n) => latest[n] = "never"
  BY <1>1 DEF NewsInv, LatestInv, Silent
<1>3. CASE ~Listed(n)
  BY <1>2, <1>3 DEF Shown, Listed
<1>4. CASE Listed(n)
  <2>1. PICK i \in 1..Len(workers) : workers[i].worker = n
    BY <1>4 DEF Listed
  <2>2. \A k \in 1..Len(workers) : workers[k].worker = n => k = i
    BY <2>1 DEF TypeOK
  <2>3. Shown(n) <=> workers[i].online
    BY <2>1, <2>2 DEF Shown
  <2> QED BY <1>2, <2>1, <2>3 DEF Flag
<1> QED BY <1>3, <1>4

THEOREM LatestIsShown == Spec => []EntriesAreLatest
BY News, DrainedIsLatest, PTL

(***************************************************************************)
(* The last report about a worker against its session.                     *)
(***************************************************************************)
SessionInv ==
  \A s \in Session :
    /\ told[s] => online[s]
    /\ online[s] => open[s] /\ worker[s] # NoName
    /\ worker[s] # NoName => worker[s] \in mayUse[s]

Telling(n) == \E s \in Session : told[s] /\ worker[s] = n
ToldInv == OwnNames /\ childUp => \A n \in Name : latest[n] = "online" <=> Telling(n)

LEMMA ToldInitial == Init => SessionInv /\ ToldInv
<1> SUFFICES ASSUME Init PROVE SessionInv /\ ToldInv
  OBVIOUS
<1>1. \A s \in Session : ~told[s] /\ ~online[s] /\ worker[s] = NoName
  BY DEF Init
<1>2. \A n \in Name : latest[n] = "never"
  BY DEF Init
<1> QED BY <1>1, <1>2 DEF SessionInv, ToldInv, Telling

LEMMA SessionKept == TypeOK /\ SessionInv /\ [Next]_vars => SessionInv'
<1> SUFFICES ASSUME TypeOK, SessionInv, [Next]_vars PROVE SessionInv'
  OBVIOUS
<1> USE DEF SessionInv, TypeOK
<1>1. ASSUME NEW s \in Session, Accept(s) PROVE SessionInv'
  BY <1>1 DEF Accept
<1>2. ASSUME NEW s \in Session, NEW n \in Name, Login(s, n) PROVE SessionInv'
  BY <1>2, NamesAssumption DEF Login
<1>3. ASSUME NEW s \in Session, Logind(s) PROVE SessionInv'
  BY <1>3 DEF Logind
<1>4. ASSUME NEW s \in Session, Timer(s) PROVE SessionInv'
  BY <1>4 DEF Timer
<1>5. ASSUME NEW s \in Session, SessionEnds(s) PROVE SessionInv'
  BY <1>5 DEF SessionEnds
<1>6. CASE ChildDies
  BY <1>6 DEF ChildDies
<1>7. CASE Connect \/ Send \/ Register \/ RecvLine \/ UNCHANGED vars
  BY <1>7 DEF Connect, Send, Register, RecvLine, vars, sessions
<1> QED BY <1>1, <1>2, <1>3, <1>4, <1>5, <1>6, <1>7 DEF Next, SessionStep

\* With names of their own, a session's report is about nobody else.
LEMMA OwnReports ==
  ASSUME TypeOK, SessionInv, OwnNames, NEW s \in Session, NEW t \in Session, s # t,
         worker[s] # NoName
  PROVE  worker[t] # worker[s]
<1> SUFFICES ASSUME worker[t] = worker[s] PROVE FALSE
  OBVIOUS
<1>1. worker[s] \in mayUse[s] /\ worker[s] \in mayUse[t]
  BY DEF SessionInv
<1>2. \A n \in mayUse[s], k \in mayUse[t] : s = t <=> n = k
  BY DEF OwnNames
<1> QED BY <1>1, <1>2

LEMMA ToldKept == TypeOK /\ SessionInv /\ ToldInv /\ [Next]_vars => ToldInv'
<1> SUFFICES ASSUME TypeOK, SessionInv, ToldInv, [Next]_vars, OwnNames', childUp', NEW n \in Name
             PROVE  latest'[n] = "online" <=> Telling(n)'
  BY DEF ToldInv
<1>1. childUp /\ UNCHANGED mayUse
  BY DEF Next, SessionStep, Accept, Login, Logind, Timer, SessionEnds, Connect, Send, ChildDies,
         Register, RecvLine, vars, child, sessions, parent
<1>2. OwnNames /\ (latest[n] = "online" <=> Telling(n)) /\ n # NoName
  BY <1>1, NamesAssumption DEF ToldInv, OwnNames
<1>3. CASE UNCHANGED <<worker, told, latest>>
  BY <1>2, <1>3 DEF Telling
<1>4. ASSUME NEW s \in Session, NEW k \in Name, Login(s, k)
      PROVE  latest'[n] = "online" <=> Telling(n)'
  <2>1. UNCHANGED <<told, latest>> /\ \A t \in Session \ {s} : worker'[t] = worker[t]
    BY <1>4 DEF Login, TypeOK
  <2>2. worker'[s] = k /\ k \in mayUse[s]
    BY <1>4 DEF Login, TypeOK
  <2>3. told[s] => worker[s] = k
    BY <1>2, <2>2 DEF SessionInv, OwnNames
  <2>4. \A t \in Session : told[t] => worker'[t] = worker[t]
    BY <2>1, <2>2, <2>3
  <2> QED BY <1>2, <2>1, <2>4 DEF Telling
<1>5. ASSUME NEW s \in Session, Timer(s)
      PROVE  latest'[n] = "online" <=> Telling(n)'
  <2>1. /\ worker' = worker /\ \A t \in Session \ {s} : told'[t] = told[t]
        /\ told'[s] = online[s]
    BY <1>5 DEF Timer, TypeOK, SessionInv
  <2>2. latest'[n] = IF worker[s] = n THEN IF online[s] THEN "online" ELSE "offline" ELSE latest[n]
    BY <1>5 DEF Timer, Tell, TypeOK
  <2>3. CASE worker[s] = n
    <3>1. \A t \in Session \ {s} : worker[t] # n
      BY <1>2, <2>3, OwnReports
    <3> QED BY <2>1, <2>2, <2>3, <3>1 DEF Telling
  <2>4. CASE worker[s] # n
    BY <1>2, <2>1, <2>2, <2>4 DEF Telling
  <2> QED BY <2>3, <2>4
<1>6. ASSUME NEW s \in Session, SessionEnds(s)
      PROVE  latest'[n] = "online" <=> Telling(n)'
  <2>1. /\ \A t \in Session \ {s} : told'[t] = told[t] /\ worker'[t] = worker[t]
        /\ told'[s] = FALSE
    BY <1>6 DEF SessionEnds, TypeOK
  <2>2. CASE online[s] /\ worker[s] = n
    <3>1. latest' = [latest EXCEPT ![n] = "offline"] /\ n \in DOMAIN latest
      BY <1>6, <2>2 DEF SessionEnds, LastReport, Tell, TypeOK
    <3>2. \A t \in Session \ {s} : worker[t] # n
      BY <1>2, <2>2, OwnReports
    <3> QED BY <2>1, <3>1, <3>2 DEF Telling
  <2>3. CASE ~(online[s] /\ worker[s] = n)
    <3>1. latest'[n] = latest[n]
      BY <1>6, <2>3 DEF SessionEnds, LastReport, Tell, TypeOK
    <3>2. ~(told[s] /\ worker[s] = n)
      BY <2>3 DEF SessionInv
    <3> QED BY <1>2, <2>1, <3>1, <3>2 DEF Telling
  <2> QED BY <2>2, <2>3
<1>7. ASSUME NEW s \in Session, Accept(s) \/ Logind(s) PROVE UNCHANGED <<worker, told, latest>>
  BY <1>7 DEF Accept, Logind
<1>8. CASE Connect \/ Send \/ Register \/ RecvLine \/ UNCHANGED vars
  BY <1>3, <1>8 DEF Connect, Send, Register, RecvLine, vars, sessions
<1>9. CASE ChildDies
  BY <1>9 DEF ChildDies
<1> QED BY <1>3, <1>4, <1>5, <1>6, <1>7, <1>8, <1>9 DEF Next, SessionStep

\* The parent never lists a name whose last report it dropped: once the proxy is
\* in its table it drops nothing.
DroppedInv ==
  /\ ~registered => workers = <<>>
  /\ \A n \in dropped : ~Listed(n)

LEMMA DroppedKept == TypeOK /\ DroppedInv /\ [Next]_vars => DroppedInv'
<1> SUFFICES ASSUME TypeOK, DroppedInv, [Next]_vars PROVE DroppedInv'
  OBVIOUS
<1>1. CASE UNCHANGED <<workers, dropped>> /\ (registered => registered')
  BY <1>1 DEF DroppedInv, Listed
<1>2. CASE RecvLine /\ ~registered
  <2>1. workers = <<>> /\ workers' = <<>>
    BY <1>2 DEF RecvLine, DroppedInv
  <2> QED BY <2>1 DEF DroppedInv, Listed
<1>3. CASE RecvLine /\ registered
  <2>1. workers \in Seq(Report) /\ OneEntryPerName(workers) /\ Head(wire) \in Report
    BY <1>3 DEF TypeOK, OneEntryPerName, RecvLine
  <2>2. \A i \in 1..Len(Update(workers, Head(wire))) :
          \/ Update(workers, Head(wire))[i] = Head(wire)
          \/ i \in 1..Len(workers) /\ Update(workers, Head(wire))[i] = workers[i]
    BY <2>1, UpdateEntries
  <2>3. /\ workers' = Update(workers, Head(wire)) /\ dropped' = dropped \ {Head(wire).worker}
        /\ registered'
    BY <1>3 DEF RecvLine
  <2> QED BY <2>2, <2>3 DEF DroppedInv, Listed
<1>4. ASSUME NEW s \in Session, SessionStep(s) PROVE UNCHANGED parent
  BY <1>4 DEF SessionStep, Accept, Login, Logind, Timer, SessionEnds
<1>5. CASE Connect \/ Send \/ ChildDies \/ Register \/ UNCHANGED vars
  BY <1>1, <1>5 DEF Connect, Send, ChildDies, Register, vars, parent
<1> QED BY <1>1, <1>2, <1>3, <1>4, <1>5 DEF Next, parent

\* TableMatchesSessions: with a name of its own for every session, the table
\* shows exactly the workers whose session runs and has reported itself online,
\* and leaves out only those whose last report came before the proxy was in it.
THEOREM TableIsTrue == Spec => []TableMatchesSessions
<1>1. ASSUME TypeOK, NewsInv, SessionInv, ToldInv, DroppedInv PROVE TableMatchesSessions
  <2> SUFFICES ASSUME OwnNames, Drained, childUp PROVE TableMatchesSessions
    BY DEF TableMatchesSessions
  <2>1. \A n \in Name \ dropped : Shown(n) <=> Reporting(n)
    <3>1. \A n \in Name : Reporting(n) <=> Telling(n)
      BY <1>1 DEF SessionInv, Reporting, Telling
    <3> QED BY <1>1, <3>1, DrainedIsLatest DEF EntriesAreLatest, ToldInv
  <2>2. \A n \in dropped : ~Shown(n)
    BY <1>1 DEF DroppedInv, Listed, Shown
  <2> QED BY <2>1, <2>2 DEF TableMatchesSessions
<1>2. Spec => [](SessionInv /\ ToldInv)
  <2>1. Spec => []TypeOK
    BY TypeCorrect
  <2> QED BY <2>1, ToldInitial, SessionKept, ToldKept, PTL DEF Spec
<1>3. Spec => []DroppedInv
  <2>1. Init => DroppedInv
    BY DEF Init, DroppedInv
  <2> QED BY <2>1, TypeCorrect, DroppedKept, PTL DEF Spec
<1> QED BY <1>1, <1>2, <1>3, News, PTL
================================================================================
