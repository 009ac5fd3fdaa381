--------------------------- MODULE ConfigStoreProofs ---------------------------
(* Proofs about ConfigStore: its types for any number of threads, and for    *)
(* handlers that run one at a time that no list repeats a name and that      *)
(* table and file agree, for any number of requests, names, failing writes   *)
(* and ends of the process.                                                  *)
EXTENDS ConfigStore, SequenceTheorems, FiniteSetTheorems, TLAPS

(***************************************************************************)
(* Lists of names without repetition.                                      *)
(***************************************************************************)
Distinct(l) == \A i, k \in 1..Len(l) : l[i] = l[k] => i = k

\* A name that was searched for and not found can be added.
LEMMA AppendDistinct ==
  ASSUME NEW l \in Seq(Name), Distinct(l), NEW n \in Name, n \notin ToSet(l)
  PROVE  /\ Append(l, n) \in Seq(Name) /\ Distinct(Append(l, n))
         /\ ToSet(Append(l, n)) = ToSet(l) \cup {n}
<1>1. /\ Append(l, n) \in Seq(Name) /\ Len(Append(l, n)) = Len(l) + 1 /\ Len(l) \in Nat
      /\ Append(l, n)[Len(l) + 1] = n
      /\ \A i \in 1..Len(l) : Append(l, n)[i] = l[i]
  OBVIOUS
<1>2. \A i \in 1..Len(l) : l[i] # n
  BY DEF ToSet
<1>3. \A i \in 1..Len(l) + 1 : i \in 1..Len(l) \/ i = Len(l) + 1
  BY <1>1
<1>4. Distinct(Append(l, n))
  BY <1>1, <1>2, <1>3 DEF Distinct
<1>5. 1..Len(l) \subseteq 1..Len(l) + 1 /\ Len(l) + 1 \in 1..Len(l) + 1
  BY <1>1
<1>6. ToSet(Append(l, n)) = {Append(l, n)[i] : i \in 1..Len(l) + 1}
  BY <1>1 DEF ToSet
<1>7. ToSet(l) = {l[i] : i \in 1..Len(l)}
  BY DEF ToSet
<1>8. ToSet(Append(l, n)) = ToSet(l) \cup {n}
  BY <1>1, <1>3, <1>5, <1>6, <1>7
<1> QED BY <1>1, <1>4, <1>8

LEMMA EmptyDistinct == <<>> \in Seq(Name) /\ Distinct(<<>>) /\ ToSet(<<>>) = {}
BY DEF Distinct, ToSet

\* A list of one name, and the beginning of a list.
LEMMA OneDistinct ==
  ASSUME NEW n \in Name
  PROVE  <<n>> \in Seq(Name) /\ Distinct(<<n>>) /\ n \in ToSet(<<n>>)
<1>1. <<n>> \in Seq(Name) /\ Len(<<n>>) = 1 /\ <<n>>[1] = n
  OBVIOUS
<1>2. Distinct(<<n>>)
  BY <1>1 DEF Distinct
<1>3. n \in ToSet(<<n>>)
  BY <1>1 DEF ToSet
<1> QED BY <1>1, <1>2, <1>3

LEMMA BeginningDistinct ==
  ASSUME NEW l \in Seq(Name), NEW k \in 1..Len(l)
  PROVE  /\ SubSeq(l, 1, k) \in Seq(Name)
         /\ Distinct(l) => Distinct(SubSeq(l, 1, k))
<1>1. /\ SubSeq(l, 1, k) \in Seq(Name) /\ Len(SubSeq(l, 1, k)) = k
      /\ \A i \in 1..k : SubSeq(l, 1, k)[i] = l[i]
  OBVIOUS
<1>2. \A i \in 1..k : i \in 1..Len(l)
  OBVIOUS
<1> QED BY <1>1, <1>2 DEF Distinct

(***************************************************************************)
(* Type correctness.                                                       *)
(***************************************************************************)
Contents == [names : Seq(Name), form : {"list", "garbled", "binary"}]

\* A handler reads and writes only a file it has opened.
TypeInv ==
  /\ pc \in [Request -> {"new"} \cup Active \cup Done]
  /\ name \in [Request -> Name]
  /\ handle \in [Request -> Inode \cup {NoFile}]
  /\ list \in [Request -> Seq(Name)]
  /\ path \in Inode \cup {NoFile}
  /\ content \in [Inode -> Contents]
  /\ table \subseteq Name
  /\ up \in BOOLEAN /\ crashes \in 0..MaxCrash
  /\ \A r \in Request : pc[r] \in {"read"} \cup Writing => handle[r] \in Inode

LEMMA Forms ==
  /\ Text(<<>>) \in Contents /\ Garbled \in Contents /\ Binary \in Contents
  /\ Text(<<>>).names = <<>> /\ Garbled.names = <<>> /\ Binary.names = <<>>
BY EmptyDistinct DEF Text, Garbled, Binary, Contents

LEMMA TextTyped ==
  ASSUME NEW l \in Seq(Name) PROVE Text(l) \in Contents /\ Text(l).names = l /\ Text(l) # Binary
BY DEF Text, Binary, Contents

LEMMA NoFileIsNone == NoFile \notin Inode
BY DEF NoFile, OldFile, Inode

\* What a write leaves, whole or in part.
LEMMA OverwrittenTyped ==
  ASSUME NEW old \in Contents, NEW new \in Seq(Name)
  PROVE  Overwritten(old, new) \subseteq Contents
<1>1. Text(new) \in Contents /\ Garbled \in Contents /\ Binary \in Contents
  BY TextTyped, Forms
<1>2. old.names \in Seq(Name)
  BY DEF Contents
<1>3. ASSUME NEW j \in 2..Len(old.names)
      PROVE  Text(new \o SubSeq(old.names, j, Len(old.names))) \in Contents
  <2>1. SubSeq(old.names, j, Len(old.names)) \in Seq(Name)
    BY <1>2
  <2>2. new \o SubSeq(old.names, j, Len(old.names)) \in Seq(Name)
    BY <2>1
  <2> QED BY <2>2, TextTyped
<1> QED BY <1>1, <1>3 DEF Overwritten

LEMMA PartTyped ==
  ASSUME NEW old \in Contents, NEW new \in Seq(Name)
  PROVE  PartOf(old, new) \subseteq Contents
<1>1. \A k \in 1..Len(new) : SubSeq(new, 1, k) \in Seq(Name)
  BY BeginningDistinct
<1>2. \A k \in 1..Len(new) : Overwritten(old, SubSeq(new, 1, k)) \subseteq Contents
  BY <1>1, OverwrittenTyped
<1> QED BY <1>2, Forms DEF PartOf

LEMMA TypeInitial == ASSUME Init PROVE TypeInv
<1>1. pc \in [Request -> {"new"} \cup Active \cup Done] /\ \A r \in Request : pc[r] = "new"
  BY DEF Init
<1>2. list \in [Request -> Seq(Name)]
  BY EmptyDistinct DEF Init
<1>3. content \in [Inode -> Contents]
  <2>1. PICK l \in Found \cup {<<>>} :
          content = [i \in Inode |-> IF i = OldFile THEN Text(l) ELSE Text(<<>>)]
    BY DEF Init
  <2>2. l \in Seq(Name)
    BY <2>1, FoundAssumption, EmptyDistinct
  <2> QED BY <2>1, <2>2, TextTyped, Forms
<1>4. path \in Inode \cup {NoFile}
  BY DEF Init, Inode
<1>5. \A r \in Request : pc[r] \notin {"read"} \cup Writing
  BY <1>1 DEF Writing
<1>6. /\ name \in [Request -> Name] /\ handle \in [Request -> Inode \cup {NoFile}]
      /\ table \subseteq Name /\ up \in BOOLEAN
  BY DEF Init
<1>7. crashes = 0 /\ 0 \in 0..MaxCrash
  <2>1. crashes = 0
    BY DEF Init
  <2> QED BY <2>1, ThreadsAssumption
<1> QED BY <1>1, <1>2, <1>3, <1>4, <1>5, <1>6, <1>7 DEF TypeInv

\* The steps that open a file, and those that create one.
LEMMA OpenTyped ==
  ASSUME TypeInv, NEW r \in Request, NEW from \in Active, NEW found \in Active, NEW missing \in Active,
         OpenExisting(r, from, found, missing), missing \notin {"read"} \cup Writing
  PROVE  TypeInv'
<1>1. CASE path # NoFile
  BY <1>1 DEF OpenExisting, At, Goto, TypeInv, disk
<1>2. CASE path = NoFile
  BY <1>2 DEF OpenExisting, At, Goto, TypeInv, disk
<1> QED BY <1>1, <1>2

LEMMA CreateTyped ==
  ASSUME TypeInv, NEW r \in Request, NEW which \in {"first", "second"}, CreateFile(r, which)
  PROVE  /\ path' \in Inode /\ content' \in [Inode -> Contents]
         /\ handle' \in [Request -> Inode \cup {NoFile}] /\ handle'[r] \in Inode
         /\ \A s \in Request : s # r => handle'[s] = handle[s]
<1> DEFINE i == IF path = NoFile THEN <<r, which>> ELSE path
<1>1. i \in Inode
  BY DEF TypeInv, Inode
<1> HIDE DEF i
<1>2. path' = i /\ content' = [content EXCEPT ![i] = Text(<<>>)] /\ handle' = [handle EXCEPT ![r] = i]
  BY DEF CreateFile, i
<1> QED BY <1>1, <1>2, Forms DEF TypeInv

LEMMA FirstTyped == ASSUME TypeInv, NEW r \in Request, Create(r) PROVE TypeInv'
<1>1. CreateFile(r, "first") /\ list' = [list EXCEPT ![r] = <<name[r]>>] /\ pc' = [pc EXCEPT ![r] = "write"]
  BY DEF Create, Goto
<1>2. list' \in [Request -> Seq(Name)]
  BY <1>1, OneDistinct DEF TypeInv
<1>3. pc' \in [Request -> {"new"} \cup Active \cup Done]
  BY <1>1 DEF TypeInv, Active, Writing
<1>4. \A s \in Request : pc'[s] \in {"read"} \cup Writing => handle'[s] \in Inode
  BY <1>1, CreateTyped DEF TypeInv
<1> QED BY <1>1, <1>2, <1>3, <1>4, CreateTyped DEF Create, TypeInv

LEMMA SecondTyped == ASSUME TypeInv, NEW r \in Request, Recreate(r) PROVE TypeInv'
<1>1. CreateFile(r, "second") /\ pc' = [pc EXCEPT ![r] = "rewrite"]
  BY DEF Recreate, Goto
<1>2. pc' \in [Request -> {"new"} \cup Active \cup Done]
  BY <1>1 DEF TypeInv, Active, Writing
<1>3. \A s \in Request : pc'[s] \in {"read"} \cup Writing => handle'[s] \in Inode
  BY <1>1, CreateTyped DEF TypeInv
<1> QED BY <1>1, <1>2, <1>3, CreateTyped DEF Recreate, TypeInv

LEMMA ReadTyped == ASSUME TypeInv, NEW r \in Request, Read(r) PROVE TypeInv'
<1> DEFINE stored == content[handle[r]].names
<1>1. stored \in Seq(Name) /\ name[r] \in Name
  BY DEF Read, At, TypeInv, Contents
<1>2. CASE name[r] \in ToSet(stored)
  BY <1>2 DEF Read, At, Goto, TypeInv, disk, Done, Writing
<1>3. CASE name[r] \notin ToSet(stored)
  <2>1. list' = [list EXCEPT ![r] = Append(stored, name[r])] /\ pc' = [pc EXCEPT ![r] = "remove"]
    BY <1>3 DEF Read, Goto
  <2>2. list' \in [Request -> Seq(Name)]
    BY <1>1, <2>1 DEF TypeInv
  <2>3. /\ pc' \in [Request -> {"new"} \cup Active \cup Done]
        /\ \A s \in Request : pc'[s] \in {"read"} \cup Writing => pc[s] \in {"read"} \cup Writing
    BY <2>1 DEF TypeInv, Active, Writing
  <2> QED BY <2>2, <2>3 DEF Read, TypeInv, disk
<1> QED BY <1>2, <1>3

LEMMA ReadFailsTyped == ASSUME TypeInv, NEW r \in Request, ReadFails(r) PROVE TypeInv'
<1>1. list' = [list EXCEPT ![r] = <<name[r]>>] /\ pc' = [pc EXCEPT ![r] = "append"] /\ pc[r] = "read"
  BY DEF ReadFails, Goto, At
<1>2. list' \in [Request -> Seq(Name)]
  BY <1>1, OneDistinct DEF TypeInv
<1>3. /\ pc' \in [Request -> {"new"} \cup Active \cup Done]
      /\ \A s \in Request : pc'[s] \in {"read"} \cup Writing => pc[s] \in {"read"} \cup Writing
  BY <1>1 DEF TypeInv, Active, Writing
<1> QED BY <1>2, <1>3 DEF ReadFails, TypeInv, disk

\* The three steps that write put something into one file and go on.
LEMMA PutTyped ==
  ASSUME TypeInv, NEW r \in Request, NEW new \in Contents, NEW l \in {"run", "unwritten"},
         pc[r] \in Writing, content' = [content EXCEPT ![handle[r]] = new], Goto(r, l),
         UNCHANGED <<local, path, table, up, crashes>>
  PROVE  TypeInv'
<1>1. content' \in [Inode -> Contents]
  BY DEF TypeInv
<1>2. /\ pc' \in [Request -> {"new"} \cup Active \cup Done]
      /\ \A s \in Request : pc'[s] \in {"read"} \cup Writing => pc[s] \in {"read"} \cup Writing
  BY DEF Goto, TypeInv, Active, Writing, Done
<1> QED BY <1>1, <1>2 DEF TypeInv, local

LEMMA WriteTyped ==
  ASSUME TypeInv, NEW r \in Request, Write(r) \/ WriteBehind(r) \/ WriteFails(r)
  PROVE  TypeInv'
<1>1. pc[r] \in Writing
  BY DEF Write, WriteBehind, WriteFails, At, Writing
<1>2. content[handle[r]] \in Contents /\ list[r] \in Seq(Name)
  BY <1>1 DEF TypeInv
<1>3. Behind(content[handle[r]]) \subseteq Contents
  BY Forms DEF Behind
<1>4. CASE Write(r)
  BY <1>1, <1>2, <1>4, OverwrittenTyped, PutTyped DEF Write
<1>5. CASE WriteBehind(r)
  BY <1>1, <1>3, <1>5, PutTyped DEF WriteBehind
<1>6. CASE WriteFails(r)
  BY <1>1, <1>2, <1>3, <1>6, PartTyped, PutTyped DEF WriteFails
<1> QED BY <1>4, <1>5, <1>6

LEMMA HandlerTyped == ASSUME TypeInv, NEW r \in Request, Handler(r) PROVE TypeInv'
<1>1. CASE Begin(r)
  BY <1>1 DEF Begin, Goto, TypeInv, local, disk, Active, Writing
<1>2. CASE Open(r) \/ Reopen(r)
  BY <1>2, OpenTyped DEF Open, Reopen, Active, Writing
<1>3. CASE Create(r) \/ Recreate(r)
  BY <1>3, FirstTyped, SecondTyped
<1>4. CASE Read(r) \/ ReadFails(r)
  BY <1>4, ReadTyped, ReadFailsTyped
<1>5. CASE RemoveFile(r)
  BY <1>5 DEF RemoveFile, Goto, TypeInv, local, Active, Done, Writing
<1>6. CASE Write(r) \/ WriteBehind(r) \/ WriteFails(r)
  BY <1>6, WriteTyped
<1>7. CASE Run(r)
  BY <1>7 DEF Run, Goto, TypeInv, local, disk, Active, Done, Writing
<1>8. CASE Insert(r)
  BY <1>8 DEF Insert, Goto, TypeInv, local, disk, Done, Writing
<1>9. CASE Panic(r, "create", "refused") \/ Panic(r, "recreate", "unwritten")
  BY <1>9 DEF Panic, Goto, TypeInv, local, disk, Done, Writing
<1> QED BY <1>1, <1>2, <1>3, <1>4, <1>5, <1>6, <1>7, <1>8, <1>9 DEF Handler

LEMMA TypeKept == TypeInv /\ [Next]_vars => TypeInv'
<1> SUFFICES ASSUME TypeInv, [Next]_vars PROVE TypeInv'
  OBVIOUS
<1>1. ASSUME NEW r \in Request, Handler(r) PROVE TypeInv'
  BY <1>1, HandlerTyped
<1>2. CASE Crash
  <2>1. /\ pc' \in [Request -> {"new"} \cup Active \cup Done]
        /\ \A r \in Request : pc'[r] \notin {"read"} \cup Writing
    BY <1>2 DEF Crash, TypeInv, Active, Done, Writing
  <2>2. crashes' \in 0..MaxCrash
    BY <1>2, ThreadsAssumption DEF Crash, TypeInv
  <2> QED BY <1>2, <2>1, <2>2 DEF Crash, TypeInv, local, disk
<1>3. CASE Start
  <2>1. Stored \subseteq Name
    BY DEF TypeInv, Contents, ToSet, Stored
  <2> QED BY <1>3, <2>1 DEF Start, TypeInv, local, disk
<1>4. CASE UNCHANGED vars
  BY <1>4 DEF vars, local, disk, TypeInv
<1> QED BY <1>1, <1>2, <1>3, <1>4 DEF Next

(***************************************************************************)
(* Handlers that run one at a time.                                        *)
(***************************************************************************)
Exclusive == \A r, s \in Request : pc[r] \in Active /\ pc[s] \in Active => r = s

\* Without a web server there is no handler and no table.
Stopped == ~up => table = {} /\ \A r \in Request : pc[r] \notin Active

\* No list repeats a name.
NoRepeats ==
  /\ \A r \in Request : Distinct(list[r])
  /\ \A i \in Inode : Distinct(content[i].names)

\* What a handler knows of the file at each of its steps: a new file is empty
\* when it is written, and, unless something was damaged, the list it writes
\* holds every proxy of the table from the moment the old file is gone.
Knows(r) ==
  /\ pc[r] \in {"create", "reopen", "recreate"} => path = NoFile
  /\ pc[r] \in {"read", "remove"} \cup Writing => path \in Inode /\ handle[r] = path
  /\ pc[r] = "remove" =>
       /\ content[path] # Binary
       /\ ToSet(list[r]) = ToSet(content[path].names) \cup {name[r]}
  /\ pc[r] = "append" => content[path] = Binary
  /\ pc[r] \in {"rewrite", "write"} => content[path] = Text(<<>>)
  /\ pc[r] = "write" => name[r] \in ToSet(list[r])
  /\ Undamaged =>
       /\ pc[r] = "write" => table = {}
       /\ pc[r] \in {"reopen", "recreate", "rewrite"} => table \cup {name[r]} \subseteq ToSet(list[r])
       /\ pc[r] \in {"run", "insert"} => name[r] \in Stored
       /\ pc[r] \in {"remove", "reopen", "recreate", "rewrite", "run", "insert"} => name[r] \notin table

Knowing   == \A r \in Request : Knows(r)
SerialInv == Exclusive /\ Stopped /\ NoRepeats /\ Knowing /\ TableIsStored

\* No request of this web server failed to write its list.
AllWritten == \A r \in Request : pc[r] # "unwritten"

\* While one handler runs the others stand still.
LEMMA Alone ==
  ASSUME TypeInv, Exclusive, Threads = 1, NEW r \in Request, Handler(r)
  PROVE  /\ \A s \in Request : s # r => pc[s] \notin Active /\ pc'[s] = pc[s]
         /\ Exclusive' /\ up /\ up' /\ pc[r] # "unwritten"
<1>1. ASSUME NEW s \in Request, s # r PROVE pc'[s] = pc[s]
  BY <1>1 DEF Handler, Begin, Open, Create, Panic, Read, ReadFails, RemoveFile, Reopen, Recreate,
     Write, WriteBehind, WriteFails, Run, Insert, OpenExisting, Goto, TypeInv
<1>2. CASE Begin(r)
  <2>1. Busy = {}
    <3>1. SUFFICES ASSUME NEW s \in Busy PROVE FALSE
      OBVIOUS
    <3>2. Busy = {s}
      BY <3>1 DEF Busy, Exclusive
    <3>3. Cardinality(Busy) = 1
      BY <3>2, FS_Singleton
    <3> QED BY <1>2, <3>3 DEF Begin
  <2> QED BY <1>1, <1>2, <2>1 DEF Begin, At, Busy, Exclusive
<1>3. CASE pc[r] \in Active /\ up /\ up' = up
  <2>1. pc[r] # "unwritten"
    BY <1>3 DEF Active, Writing
  <2> QED BY <1>1, <1>3, <2>1 DEF Exclusive
<1>4. Begin(r) \/ (pc[r] \in Active /\ up /\ up' = up)
  BY DEF Handler, Open, Create, Panic, Read, ReadFails, RemoveFile, Reopen, Recreate,
     Write, WriteBehind, WriteFails, Run, Insert, OpenExisting, At, Active, Writing
<1> QED BY <1>2, <1>3, <1>4

\* So it is enough to look at the handler that moved.
LEMMA SerialByOne ==
  ASSUME TypeInv, SerialInv, Threads = 1, NEW r \in Request, Handler(r), NoRepeats',
         Knows(r)', (Undamaged /\ pc[r] \notin {"reopen", "recreate", "rewrite"} => table \subseteq Stored)'
  PROVE  SerialInv'
<1>1. \A s \in Request : s # r => pc'[s] \notin Active
  BY Alone DEF SerialInv
<1>2. Knowing'
  <2>1. ASSUME NEW s \in Request, s # r PROVE Knows(s)'
    BY <1>1, <2>1 DEF Knows, Active, Writing
  <2> QED BY <2>1 DEF Knowing
<1>3. TableIsStored'
  BY DEF TableIsStored, Replacing
<1> QED BY <1>2, <1>3, Alone DEF SerialInv, Stopped

\* With nothing being replaced, the table is in the file.
LEMMA Settled ==
  ASSUME TypeInv, SerialInv, Threads = 1, NEW r \in Request, Handler(r),
         pc[r] \notin {"reopen", "recreate", "rewrite"}, Undamaged
  PROVE  table \subseteq Stored
<1>1. ~Replacing
  BY Alone DEF SerialInv, Replacing, Active, Writing
<1> QED BY <1>1 DEF SerialInv, TableIsStored

\* What was written before a step of the handler stays so.
LEMMA WrittenBefore ==
  ASSUME TypeInv, SerialInv, Threads = 1, NEW r \in Request, Handler(r), AllWritten'
  PROVE  AllWritten
BY Alone DEF SerialInv, AllWritten

LEMMA DamageByDef == Undamaged <=> AllWritten /\ (path # NoFile => content[path] # Binary)
BY DEF Undamaged, AllWritten

\* A step that leaves the file alone repairs nothing.
LEMMA SameFile ==
  ASSUME TypeInv, SerialInv, Threads = 1, NEW r \in Request, Handler(r), UNCHANGED disk
  PROVE  (Undamaged' => Undamaged) /\ Stored' = Stored
<1>1. Stored' = Stored
  BY DEF disk, Stored
<1>2. AllWritten' => AllWritten
  BY WrittenBefore
<1>3. Undamaged' => Undamaged
  BY <1>2 DEF disk, Undamaged, AllWritten
<1> QED BY <1>1, <1>3

LEMMA OpenSerial == ASSUME TypeInv, SerialInv, Threads = 1, NEW r \in Request, Open(r) PROVE SerialInv'
<1>1. Handler(r) /\ pc[r] = "open" /\ UNCHANGED disk /\ table' = table /\ NoRepeats'
  BY DEF Handler, Open, OpenExisting, At, SerialInv, NoRepeats, disk
<1>2. Undamaged' => table' \subseteq Stored'
  BY <1>1, Settled, SameFile
<1>3. Knows(r)'
  <2>1. CASE path # NoFile
    <3>1. pc'[r] = "read" /\ handle'[r] = path /\ path' = path /\ path \in Inode
      BY <2>1 DEF Open, OpenExisting, Goto, disk, TypeInv
    <3> QED BY <3>1 DEF Knows, Writing
  <2>2. CASE path = NoFile
    <3>1. pc'[r] = "create" /\ path' = path
      BY <2>2 DEF Open, OpenExisting, Goto, disk, TypeInv
    <3> QED BY <2>2, <3>1 DEF Knows, Writing
  <2> QED BY <2>1, <2>2
<1> QED BY <1>1, <1>2, <1>3, SerialByOne

\* Both steps that create a file make a new one, since there is none.
LEMMA CreateMakesNew ==
  ASSUME TypeInv, NEW r \in Request, NEW which \in {"first", "second"}, path = NoFile, CreateFile(r, which)
  PROVE  /\ path' \in Inode /\ path' # NoFile /\ handle'[r] = path' /\ content'[path'] = Text(<<>>)
         /\ content'[path'] # Binary
         /\ (\A i \in Inode : Distinct(content[i].names)) => (\A i \in Inode : Distinct(content'[i].names))
<1> DEFINE i == <<r, which>>
<1>1. i \in Inode
  BY DEF Inode
<1>2. path' = i /\ content' = [content EXCEPT ![i] = Text(<<>>)] /\ handle' = [handle EXCEPT ![r] = i]
  BY DEF CreateFile
<1> HIDE DEF i
<1>3. content'[i] = Text(<<>>) /\ \A j \in Inode : j # i => content'[j] = content[j]
  BY <1>1, <1>2 DEF TypeInv
<1>4. Text(<<>>).names = <<>> /\ Text(<<>>) # Binary /\ Distinct(<<>>)
  BY Forms, EmptyDistinct, TextTyped
<1>5. (\A j \in Inode : Distinct(content[j].names)) => (\A j \in Inode : Distinct(content'[j].names))
  BY <1>3, <1>4
<1> QED BY <1>1, <1>2, <1>3, <1>4, <1>5, NoFileIsNone DEF TypeInv

LEMMA CreateSerial == ASSUME TypeInv, SerialInv, Threads = 1, NEW r \in Request, Create(r) PROVE SerialInv'
<1>1. Handler(r) /\ pc[r] = "create" /\ path = NoFile
  BY DEF Handler, Create, At, SerialInv, Knowing, Knows
<1>2. /\ CreateFile(r, "first") /\ list' = [list EXCEPT ![r] = <<name[r]>>]
      /\ pc' = [pc EXCEPT ![r] = "write"] /\ UNCHANGED <<name, table>>
  BY DEF Create, Goto
<1>3. pc'[r] = "write" /\ list'[r] = <<name[r]>> /\ name[r] \in Name
  BY <1>2 DEF TypeInv
<1>4. Undamaged' => table' = {}
  <2>1. AllWritten' => AllWritten
    BY <1>1, WrittenBefore
  <2>2. AllWritten => table \subseteq Stored
    BY <1>1, Settled DEF Undamaged, AllWritten
  <2>3. Stored = {}
    BY <1>1 DEF Stored
  <2> QED BY <1>2, <2>1, <2>2, <2>3 DEF Undamaged, AllWritten
<1>5. NoRepeats'
  <2>1. \A s \in Request : Distinct(list'[s])
    BY <1>2, <1>3, OneDistinct DEF TypeInv, SerialInv, NoRepeats
  <2> QED BY <1>1, <1>2, <2>1, CreateMakesNew DEF SerialInv, NoRepeats
<1>6. Knows(r)'
  <2>1. name'[r] \in ToSet(list'[r])
    BY <1>2, <1>3, OneDistinct
  <2> QED BY <1>1, <1>2, <1>3, <1>4, <2>1, CreateMakesNew DEF Knows, Writing
<1> QED BY <1>1, <1>4, <1>5, <1>6, SerialByOne

LEMMA ReadSerial == ASSUME TypeInv, SerialInv, Threads = 1, NEW r \in Request, Read(r) PROVE SerialInv'
<1>1. /\ Handler(r) /\ pc[r] = "read" /\ UNCHANGED disk /\ table' = table
      /\ path \in Inode /\ handle[r] = path /\ content[path] # Binary
  BY DEF Handler, Read, At, SerialInv, Knowing, Knows
<1>2. Undamaged' => table' \subseteq Stored'
  BY <1>1, Settled, SameFile
<1> DEFINE stored == content[path].names
<1>3. stored \in Seq(Name) /\ Distinct(stored) /\ name[r] \in Name
  BY <1>1 DEF TypeInv, Contents, SerialInv, NoRepeats
<1>4. CASE name[r] \in ToSet(stored)
  <2>1. pc'[r] = "refused" /\ UNCHANGED <<list, content>>
    BY <1>1, <1>4 DEF Read, Goto, TypeInv, disk
  <2>2. NoRepeats'
    BY <2>1 DEF SerialInv, NoRepeats
  <2>3. Knows(r)'
    BY <2>1 DEF Knows, Writing
  <2> QED BY <1>1, <1>2, <2>2, <2>3, SerialByOne
<1>5. CASE name[r] \notin ToSet(stored)
  <2>1. /\ list' = [list EXCEPT ![r] = Append(stored, name[r])] /\ pc' = [pc EXCEPT ![r] = "remove"]
        /\ UNCHANGED <<name, handle, path, content, table>>
    BY <1>1, <1>5 DEF Read, Goto, disk
  <2>2. pc'[r] = "remove" /\ list'[r] = Append(stored, name[r])
    BY <2>1 DEF TypeInv
  <2>3. ToSet(list'[r]) = ToSet(stored) \cup {name[r]} /\ Distinct(list'[r])
    BY <1>3, <1>5, <2>2, AppendDistinct
  <2>4. NoRepeats'
    BY <2>1, <2>3 DEF TypeInv, SerialInv, NoRepeats
  <2>5. Undamaged' => name[r] \notin table
    <3>1. Stored = ToSet(stored)
      BY <1>1, NoFileIsNone DEF Stored
    <3> QED BY <1>1, <1>2, <1>5, <3>1, SameFile
  <2>6. Knows(r)'
    BY <1>1, <2>1, <2>2, <2>3, <2>5 DEF Knows, Writing
  <2> QED BY <1>1, <1>2, <2>4, <2>6, SerialByOne
<1> QED BY <1>4, <1>5

LEMMA ReadFailsSerial ==
  ASSUME TypeInv, SerialInv, Threads = 1, NEW r \in Request, ReadFails(r) PROVE SerialInv'
<1>1. /\ Handler(r) /\ pc[r] = "read" /\ UNCHANGED <<name, handle, disk, table>>
      /\ path \in Inode /\ handle[r] = path /\ content[path] = Binary
      /\ list' = [list EXCEPT ![r] = <<name[r]>>]
  BY DEF Handler, ReadFails, At, SerialInv, Knowing, Knows
<1>2. pc'[r] = "append"
  BY DEF ReadFails, Goto, TypeInv
<1>3. Undamaged' => table' \subseteq Stored'
  BY <1>1, Settled, SameFile
<1>4. NoRepeats'
  <2>1. \A s \in Request : Distinct(list'[s])
    BY <1>1, OneDistinct DEF TypeInv, SerialInv, NoRepeats
  <2> QED BY <1>1, <2>1 DEF SerialInv, NoRepeats, disk
<1>5. Knows(r)'
  BY <1>1, <1>2 DEF Knows, Writing, disk
<1> QED BY <1>1, <1>3, <1>4, <1>5, SerialByOne

LEMMA RemoveSerial ==
  ASSUME TypeInv, SerialInv, Threads = 1, NEW r \in Request, RemoveFile(r) PROVE SerialInv'
<1>1. /\ Handler(r) /\ pc[r] = "remove" /\ UNCHANGED <<name, handle, list, content, table>>
      /\ path \in Inode /\ content[path] # Binary
      /\ ToSet(list[r]) = ToSet(content[path].names) \cup {name[r]}
      /\ Undamaged => name[r] \notin table
  BY DEF Handler, RemoveFile, At, local, SerialInv, Knowing, Knows
<1>2. NoRepeats'
  BY <1>1 DEF SerialInv, NoRepeats
<1>3. CASE path' = NoFile /\ Goto(r, "reopen")
  <2>1. pc'[r] = "reopen"
    BY <1>3 DEF Goto, TypeInv
  <2>2. Undamaged' => Undamaged
    <3>1. AllWritten' => AllWritten
      BY <1>1, WrittenBefore
    <3> QED BY <1>1, <3>1 DEF Undamaged, AllWritten
  <2>3. Undamaged => table \cup {name[r]} \subseteq ToSet(list[r])
    <3>1. Stored = ToSet(content[path].names)
      BY <1>1, NoFileIsNone DEF Stored
    <3>2. Undamaged => table \subseteq Stored
      BY <1>1, Settled
    <3> QED BY <1>1, <3>1, <3>2
  <2>4. Knows(r)'
    BY <1>1, <1>3, <2>1, <2>2, <2>3 DEF Knows, Writing
  <2> QED BY <1>1, <1>2, <2>1, <2>4, SerialByOne
<1>4. CASE UNCHANGED path /\ Goto(r, "refused")
  <2>1. pc'[r] = "refused"
    BY <1>4 DEF Goto, TypeInv
  <2>2. Undamaged' => table' \subseteq Stored'
    BY <1>1, <1>4, Settled, SameFile DEF disk
  <2>3. Knows(r)'
    BY <2>1 DEF Knows, Writing
  <2> QED BY <1>1, <1>2, <2>2, <2>3, SerialByOne
<1> QED BY <1>3, <1>4 DEF RemoveFile

\* The old file is gone, and nobody made another one meanwhile.
LEMMA ReopenSerial ==
  ASSUME TypeInv, SerialInv, Threads = 1, NEW r \in Request, Reopen(r) PROVE SerialInv'
<1>1. /\ Handler(r) /\ pc[r] = "reopen" /\ path = NoFile /\ UNCHANGED <<name, list, disk, table>>
      /\ Undamaged => name[r] \notin table /\ table \cup {name[r]} \subseteq ToSet(list[r])
  BY DEF Handler, Reopen, OpenExisting, At, SerialInv, Knowing, Knows
<1>2. pc'[r] = "recreate"
  BY <1>1 DEF Reopen, OpenExisting, Goto, TypeInv
<1>3. NoRepeats'
  BY <1>1 DEF SerialInv, NoRepeats, disk
<1>4. Undamaged' => Undamaged
  BY <1>1, SameFile
<1>5. Knows(r)'
  BY <1>1, <1>2, <1>4 DEF Knows, Writing, disk
<1> QED BY <1>1, <1>2, <1>3, <1>5, SerialByOne

LEMMA RecreateSerial ==
  ASSUME TypeInv, SerialInv, Threads = 1, NEW r \in Request, Recreate(r) PROVE SerialInv'
<1>1. /\ Handler(r) /\ path = NoFile /\ UNCHANGED <<name, list, table>> /\ CreateFile(r, "second")
      /\ Undamaged => name[r] \notin table /\ table \cup {name[r]} \subseteq ToSet(list[r])
  BY DEF Handler, Recreate, At, SerialInv, Knowing, Knows
<1>2. pc'[r] = "rewrite"
  BY DEF Recreate, Goto, TypeInv
<1>3. NoRepeats'
  BY <1>1, CreateMakesNew DEF SerialInv, NoRepeats
<1>4. Undamaged' => Undamaged
  <2>1. AllWritten' => AllWritten
    BY <1>1, WrittenBefore
  <2> QED BY <1>1, <2>1 DEF Undamaged, AllWritten
<1>5. Knows(r)'
  BY <1>1, <1>2, <1>4, CreateMakesNew DEF Knows, Writing
<1> QED BY <1>1, <1>2, <1>3, <1>5, SerialByOne

\* The new file is empty, so a write leaves nothing behind its list.
LEMMA WriteSerial ==
  ASSUME TypeInv, SerialInv, Threads = 1, NEW r \in Request, Write(r) PROVE SerialInv'
<1>1. /\ Handler(r) /\ pc[r] \in {"rewrite", "write"} /\ UNCHANGED <<name, handle, list, path, table>>
      /\ path \in Inode /\ handle[r] = path /\ content[path] = Text(<<>>)
  BY DEF Handler, Write, local, Writing, SerialInv, Knowing, Knows
<1>2. list[r] \in Seq(Name) /\ Distinct(list[r])
  BY DEF TypeInv, SerialInv, NoRepeats
<1>3. content' = [content EXCEPT ![path] = Text(list[r])]
  BY <1>1 DEF Write, Overwritten
<1>4. content'[path] = Text(list[r]) /\ \A i \in Inode : i # path => content'[i] = content[i]
  BY <1>1, <1>3 DEF TypeInv
<1>5. NoRepeats'
  <2>1. \A i \in Inode : Distinct(content'[i].names)
    BY <1>2, <1>4, TextTyped DEF SerialInv, NoRepeats
  <2> QED BY <1>1, <2>1 DEF SerialInv, NoRepeats
<1>6. Stored' = ToSet(list[r])
  BY <1>1, <1>2, <1>4, TextTyped, NoFileIsNone DEF Stored
<1>7. Undamaged' => Undamaged
  <2>1. AllWritten' => AllWritten
    BY <1>1, WrittenBefore
  <2>2. content[path] # Binary
    BY <1>1, EmptyDistinct, TextTyped
  <2> QED BY <2>1, <2>2 DEF Undamaged, AllWritten
<1>8. Undamaged => table \subseteq ToSet(list[r]) /\ name[r] \in ToSet(list[r]) /\ name[r] \notin table
  BY <1>1 DEF SerialInv, Knowing, Knows
<1>9. pc'[r] = "run"
  BY DEF Write, Goto, TypeInv
<1>10. Knows(r)'
  BY <1>1, <1>6, <1>7, <1>8, <1>9 DEF Knows, Writing
<1> QED BY <1>1, <1>5, <1>6, <1>7, <1>8, <1>10, SerialByOne

\* A file that is not text stays so, and nothing is claimed of it.
LEMMA WriteBehindSerial ==
  ASSUME TypeInv, SerialInv, Threads = 1, NEW r \in Request, WriteBehind(r) PROVE SerialInv'
<1>1. /\ Handler(r) /\ UNCHANGED <<list, path>>
      /\ path \in Inode /\ handle[r] = path /\ content[path] = Binary
  BY DEF Handler, WriteBehind, At, local, Writing, SerialInv, Knowing, Knows
<1>2. content' = [content EXCEPT ![path] = Binary]
  BY <1>1 DEF WriteBehind, Behind
<1>3. content'[path] = Binary /\ \A i \in Inode : content'[i] = content[i]
  BY <1>1, <1>2 DEF TypeInv
<1>4. ~Undamaged' /\ NoRepeats'
  BY <1>1, <1>3, NoFileIsNone DEF Undamaged, SerialInv, NoRepeats
<1>5. pc'[r] = "run"
  BY DEF WriteBehind, Goto, TypeInv
<1>6. Knows(r)'
  BY <1>4, <1>5 DEF Knows, Writing
<1> QED BY <1>1, <1>4, <1>6, SerialByOne

LEMMA PartDistinct ==
  ASSUME NEW l \in Seq(Name), Distinct(l), NEW new \in PartOf(Text(<<>>), l)
  PROVE  Distinct(new.names)
<1>1. CASE new \in {Text(<<>>), Garbled, Binary}
  BY <1>1, Forms, EmptyDistinct
<1>2. ASSUME NEW k \in 1..Len(l), new \in Overwritten(Text(<<>>), SubSeq(l, 1, k))
      PROVE  Distinct(new.names)
  <2>1. SubSeq(l, 1, k) \in Seq(Name) /\ Distinct(SubSeq(l, 1, k))
    BY BeginningDistinct
  <2>2. new = Text(SubSeq(l, 1, k))
    BY <1>2 DEF Overwritten
  <2> QED BY <2>1, <2>2, TextTyped
<1> QED BY <1>1, <1>2 DEF PartOf

LEMMA WriteFailsSerial ==
  ASSUME TypeInv, SerialInv, Threads = 1, NEW r \in Request, WriteFails(r) PROVE SerialInv'
<1>1. /\ Handler(r) /\ pc[r] \in Writing /\ UNCHANGED <<list, path>> /\ path \in Inode /\ handle[r] = path
      /\ list[r] \in Seq(Name) /\ Distinct(list[r])
      /\ pc[r] = "append" => content[path] = Binary
      /\ pc[r] # "append" => content[path] = Text(<<>>)
  BY DEF Handler, WriteFails, local, Writing, SerialInv, NoRepeats, Knowing, Knows, TypeInv
<1>2. PICK new \in IF pc[r] = "append" THEN {content[path]} \cup Behind(content[path])
                                       ELSE PartOf(content[path], list[r]) :
        content' = [content EXCEPT ![path] = new]
  BY <1>1 DEF WriteFails
<1>3. Distinct(new.names)
  <2>1. CASE pc[r] = "append"
    BY <1>1, <1>2, <2>1, Forms, EmptyDistinct DEF Behind
  <2>2. CASE pc[r] # "append"
    BY <1>1, <1>2, <2>2, PartDistinct
  <2> QED BY <2>1, <2>2
<1>4. content'[path] = new /\ \A i \in Inode : i # path => content'[i] = content[i]
  BY <1>1, <1>2 DEF TypeInv
<1>5. NoRepeats'
  BY <1>1, <1>3, <1>4 DEF SerialInv, NoRepeats
<1>6. pc'[r] = "unwritten" /\ ~Undamaged'
  BY DEF WriteFails, Goto, TypeInv, Undamaged
<1>7. Knows(r)'
  BY <1>6 DEF Knows, Writing
<1> QED BY <1>1, <1>5, <1>6, <1>7, SerialByOne

\* The steps that touch neither the file nor the lists.
LEMMA RestSerial ==
  ASSUME TypeInv, SerialInv, Threads = 1, NEW r \in Request,
         \/ Begin(r) \/ Run(r) \/ Insert(r)
         \/ Panic(r, "create", "refused") \/ Panic(r, "recreate", "unwritten")
  PROVE  SerialInv'
<1>1. Handler(r) /\ UNCHANGED <<name, list, disk>> /\ NoRepeats'
  BY DEF Handler, Begin, Run, Insert, Panic, local, disk, SerialInv, NoRepeats
<1>2. (Undamaged' => Undamaged) /\ Stored' = Stored
  BY <1>1, SameFile
<1>3. CASE Begin(r) \/ Panic(r, "create", "refused")
  <2>1. pc[r] \in {"new", "create"} /\ pc'[r] \in {"open", "refused"} /\ table' = table
    BY <1>3 DEF Begin, Panic, At, Goto, TypeInv
  <2>2. Undamaged' => table' \subseteq Stored'
    BY <1>1, <1>2, <2>1, Settled
  <2>3. Knows(r)'
    BY <2>1 DEF Knows, Writing
  <2> QED BY <1>1, <2>2, <2>3, SerialByOne
<1>4. CASE Run(r)
  <2>1. pc[r] = "run" /\ pc'[r] \in {"insert", "refused"} /\ table' = table
    BY <1>4 DEF Run, At, Goto, TypeInv
  <2>2. Undamaged' => table' \subseteq Stored'
    BY <1>1, <1>2, <2>1, Settled
  <2>3. Undamaged => name[r] \in Stored /\ name[r] \notin table
    BY <2>1 DEF SerialInv, Knowing, Knows
  <2>4. Knows(r)'
    BY <1>1, <1>2, <2>1, <2>3 DEF Knows, Writing
  <2> QED BY <1>1, <2>2, <2>4, SerialByOne
<1>5. CASE Insert(r)
  <2>1. pc[r] = "insert" /\ pc'[r] = "ok" /\ table' = table \cup {name[r]}
    BY <1>5 DEF Insert, At, Goto, TypeInv
  <2>2. Undamaged => name[r] \in Stored /\ table \subseteq Stored
    BY <1>1, <2>1, Settled DEF SerialInv, Knowing, Knows
  <2>3. Knows(r)'
    BY <2>1 DEF Knows, Writing
  <2> QED BY <1>1, <1>2, <2>1, <2>2, <2>3, SerialByOne
<1>6. CASE Panic(r, "recreate", "unwritten")
  <2>1. pc'[r] = "unwritten" /\ ~Undamaged'
    BY <1>6 DEF Panic, Goto, TypeInv, Undamaged
  <2>2. Knows(r)'
    BY <2>1 DEF Knows, Writing
  <2> QED BY <1>1, <2>1, <2>2, SerialByOne
<1> QED BY <1>3, <1>4, <1>5, <1>6

LEMMA HandlerSerial ==
  ASSUME TypeInv, SerialInv, Threads = 1, NEW r \in Request, Handler(r)
  PROVE  SerialInv'
BY OpenSerial, CreateSerial, ReadSerial, ReadFailsSerial, RemoveSerial, ReopenSerial, RecreateSerial,
   WriteSerial, WriteBehindSerial, WriteFailsSerial, RestSerial DEF Handler

LEMMA SerialInitial == ASSUME Init PROVE SerialInv
<1>1. \A r \in Request : pc[r] = "new"
  BY DEF Init
<1>2. Exclusive /\ Stopped
  BY <1>1 DEF Exclusive, Stopped, Init, Active, Writing
<1>3. Knowing
  BY <1>1 DEF Knowing, Knows, Writing
<1>4. TableIsStored
  BY DEF Init, TableIsStored
<1>5. NoRepeats
  <2>1. PICK l \in Found \cup {<<>>} :
          content = [i \in Inode |-> IF i = OldFile THEN Text(l) ELSE Text(<<>>)]
    BY DEF Init
  <2>2. l \in Seq(Name) /\ Distinct(l)
    <3>1. CASE l \in Found
      BY <3>1, FoundAssumption DEF Distinct
    <3>2. CASE l = <<>>
      BY <3>2, EmptyDistinct
    <3> QED BY <2>1, <3>1, <3>2
  <2>3. \A i \in Inode : content[i].names \in {l, <<>>}
    BY <2>1, <2>2, TextTyped, Forms
  <2>4. \A r \in Request : list[r] = <<>>
    BY DEF Init
  <2> QED BY <2>2, <2>3, <2>4, EmptyDistinct DEF NoRepeats
<1> QED BY <1>2, <1>3, <1>4, <1>5 DEF SerialInv

LEMMA SerialKept ==
  ASSUME TypeInv, SerialInv, Threads = 1, [Next]_vars PROVE SerialInv'
<1>1. ASSUME NEW r \in Request, Handler(r) PROVE SerialInv'
  BY <1>1, HandlerSerial
<1>2. CASE Crash
  <2>1. /\ table' = {} /\ UNCHANGED <<list, content>>
        /\ \A r \in Request : pc'[r] \notin Active
    BY <1>2 DEF Crash, Active, Writing, local, disk, TypeInv
  <2>2. Exclusive' /\ Stopped' /\ TableIsStored' /\ NoRepeats'
    BY <2>1 DEF Exclusive, Stopped, TableIsStored, SerialInv, NoRepeats
  <2>3. Knowing'
    BY <2>1 DEF Knowing, Knows, Active, Writing
  <2> QED BY <2>2, <2>3 DEF SerialInv
<1>3. CASE Start
  <2>1. table' \subseteq Stored /\ Stored' = Stored /\ UNCHANGED <<list, content>>
    BY <1>3 DEF Start, Stored, disk, local
  <2>2. pc' = pc /\ up' /\ \A r \in Request : pc[r] \notin Active
    BY <1>3 DEF Start, SerialInv, Stopped
  <2>3. Knowing'
    BY <2>2 DEF Knowing, Knows, Active, Writing
  <2>4. Exclusive' /\ Stopped' /\ TableIsStored' /\ NoRepeats'
    BY <2>1, <2>2 DEF Exclusive, Stopped, TableIsStored, SerialInv, NoRepeats
  <2> QED BY <2>3, <2>4 DEF SerialInv
<1>4. CASE UNCHANGED vars
  BY <1>4 DEF vars, local, disk, SerialInv, Exclusive, Stopped, NoRepeats, Knowing, Knows, TableIsStored,
     Replacing, Stored, Undamaged
<1> QED BY <1>1, <1>2, <1>3, <1>4 DEF Next

\* Both invariants together, the second for one thread only.
StoreInv == TypeInv /\ (Threads = 1 => SerialInv)

LEMMA StoreSafe == Spec => []StoreInv
<1>1. Init => StoreInv
  BY TypeInitial, SerialInitial DEF StoreInv
<1>2. StoreInv /\ [Next]_vars => StoreInv'
  BY TypeKept, SerialKept DEF StoreInv
<1> QED BY <1>1, <1>2, PTL DEF Spec

\* TypeOK: however many handlers interleave, and wherever writes fail or the
\* process ends, every file holds a list of names; and with one handler at a
\* time no list that is kept or written holds a name twice.
THEOREM TypeCorrect == Spec => []TypeOK
<1>1. StoreInv => TypeOK
  <2> SUFFICES ASSUME StoreInv PROVE TypeOK
    OBVIOUS
  <2>1. /\ \A r \in Request : list[r] \in Seq(Name)
        /\ \A i \in Inode : content[i].names \in Seq(Name)
    BY DEF StoreInv, TypeInv, Contents
  <2>2. Threads = 1 => /\ \A r \in Request : Distinct(list[r])
                       /\ \A i \in Inode : Distinct(content[i].names)
    BY DEF StoreInv, SerialInv, NoRepeats
  <2> QED BY <2>1, <2>2 DEF StoreInv, TypeInv, TypeOK, Distinct
<1> QED BY <1>1, StoreSafe, PTL

\* TableIsStored: when handlers run one at a time, a start of the web server
\* finds every proxy of its table, wherever requests and starts ended before,
\* unless a request of this web server could not write its list or the file is
\* not text.
THEOREM SerialTableIsStored == ASSUME Threads = 1 PROVE Spec => []TableIsStored
<1>1. StoreInv => TableIsStored
  BY DEF StoreInv, SerialInv
<1> QED BY <1>1, StoreSafe, PTL

\* NoDuplicateProxy: when handlers run one at a time, the search for the name
\* in the file is enough to keep every name of the table unique, also when the
\* file was missing and nothing was searched, under the same condition.
THEOREM SerialNoDuplicate == ASSUME Threads = 1 PROVE Spec => NoDuplicateProxy
<1>1. StoreInv => \A r \in Request : pc[r] = "insert" /\ Undamaged => name[r] \notin table
  BY DEF StoreInv, SerialInv, Knowing, Knows
<1>2. StoreInv => [\A r \in Request : pc[r] = "insert" /\ pc'[r] = "ok" /\ Undamaged => name[r] \notin table]_vars
  BY <1>1
<1> QED BY <1>2, StoreSafe, PTL DEF NoDuplicateProxy

===============================================================================
