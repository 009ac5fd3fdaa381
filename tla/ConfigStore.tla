---------------------------- MODULE ConfigStore ----------------------------
(***************************************************************************)
(* How the web server creates proxies and remembers them: crate_app, which *)
(* rewrites configs.yaml and starts a process, and async_main, which       *)
(* starts the stored ones.                                                 *)
(*                                                                         *)
(* The handler reads the list, looks for the name, removes the file and    *)
(* writes the longer list to a new one, without a lock; a file that was    *)
(* missing it creates write-only, so that the reading fails and a list of  *)
(* the new name alone is written.  The web server runs handlers on several *)
(* threads, so every system call is an action of its own.  A file that is  *)
(* open when it is removed lives on unnamed, hence the inodes.  A stored   *)
(* configuration is modelled by its name.                                  *)
(***************************************************************************)
EXTENDS Naturals, Sequences, FiniteSets, SequencesExt

CONSTANTS
  Request,   \* the POSTs to /crate/app that pass the checks of their fields
  Name,      \* names of proxies
  Found,     \* the lists an existing configs.yaml may hold at first
  Threads,   \* worker threads of the web server
  MaxCrash   \* bound: how often the web server's process ends

ASSUME ThreadsAssumption == Threads \in Nat \ {0} /\ MaxCrash \in Nat

(* No two servers of the list have a name in common: crate_app refuses it. *)
ASSUME FoundAssumption ==
  Found \subseteq {l \in Seq(Name) : \A i, k \in 1..Len(l) : l[i] = l[k] => i = k}

(* A file holds a list of names (none, when it is empty), text that does   *)
(* not parse, which a reader takes for an empty list, or bytes that are    *)
(* not text, which it cannot read.                                         *)
Text(l) == [names |-> l, form |-> "list"]
Garbled == [names |-> <<>>, form |-> "garbled"]
Binary  == [names |-> <<>>, form |-> "binary"]

(* A text written over another one, both from the start of the file: what  *)
(* is longer in the old one stays behind, whole entries or a part of one.  *)
Overwritten(old, new) ==
  {Text(new)} \cup
  IF old = Text(<<>>) THEN {}
  ELSE {Garbled, Binary} \cup
       {Text(new \o SubSeq(old.names, j, Len(old.names))) : j \in 2..Len(old.names)}

(* The same, when the writing fails or ends somewhere.                     *)
PartOf(old, new) ==
  {old, Garbled, Binary} \cup UNION {Overwritten(old, SubSeq(new, 1, k)) : k \in 1..Len(new)}

(* The file found at first, and those of a request, which creates at most  *)
(* two, with its first and its second attempt to open one.                 *)
OldFile == <<"old", "file">>
Inode   == (Request \X {"first", "second"}) \cup {OldFile}
NoFile  == <<"no", "file">>

VARIABLES
  pc,       \* where each request is
  name,     \* the name it asks for
  handle,   \* the file it has open
  list,     \* the list it writes
  path,     \* the inode configs.yaml is the name of
  content,  \* what each inode holds
  table,    \* names in the AppState of the running web server
  up,       \* the web server runs
  crashes   \* how often it ended

local == <<name, handle, list>>
disk  == <<path, content>>
vars  == <<pc, local, disk, table, up, crashes>>

(* The steps of a handler; "rewrite" puts the longer list into the file    *)
(* made anew, "write" and "append" a list of one into a file that could    *)
(* not be read.                                                            *)
Writing == {"rewrite", "write", "append"}
Active  == {"open", "create", "read", "remove", "reopen", "recreate", "run", "insert"} \cup Writing

(* Answered with success; with an error, or not at all after a panic, the  *)
(* file being as it was or whole; the same, the list not written; and lost *)
(* with the web server.                                                    *)
Done == {"ok", "refused", "unwritten", "lost"}

Init ==
  /\ pc = [r \in Request |-> "new"]
  /\ name \in [Request -> Name]
  /\ handle = [r \in Request |-> NoFile]
  /\ list = [r \in Request |-> <<>>]
  /\ path \in {NoFile, OldFile}
  /\ \E l \in Found \cup {<<>>} : content = [i \in Inode |-> IF i = OldFile THEN Text(l) ELSE Text(<<>>)]
  /\ table = {}
  /\ up = FALSE
  /\ crashes = 0

-----------------------------------------------------------------------------
(* The steps of crate_app.                                                 *)

Goto(r, l) == pc' = [pc EXCEPT ![r] = l]
At(r, l) == up /\ pc[r] = l

Busy == {r \in Request : pc[r] \in Active}

Begin(r) ==
  /\ At(r, "new") /\ Cardinality(Busy) < Threads
  /\ Goto(r, "open")
  /\ UNCHANGED <<local, disk, table, up, crashes>>

(* OpenOptions::open for reading and writing, without create or truncate;  *)
(* it fails when there is no file, and only then.                          *)
OpenExisting(r, from, found, missing) ==
  /\ At(r, from)
  /\ IF path # NoFile
     THEN handle' = [handle EXCEPT ![r] = path] /\ Goto(r, found)
     ELSE Goto(r, missing) /\ UNCHANGED handle
  /\ UNCHANGED <<name, list, disk, table, up, crashes>>

(* File::create: a new file, or the one made meanwhile, truncated.         *)
CreateFile(r, which) ==
  LET i == IF path = NoFile THEN <<r, which>> ELSE path
  IN  /\ path' = i
      /\ content' = [content EXCEPT ![i] = Text(<<>>)]
      /\ handle' = [handle EXCEPT ![r] = i]

(* No file could be created: the handler panics.                           *)
Panic(r, from, end) ==
  /\ At(r, from)
  /\ Goto(r, end)
  /\ UNCHANGED <<local, disk, table, up, crashes>>

Open(r) == OpenExisting(r, "open", "read", "create")

(* The new file is open for writing only: reading it fails, nothing is     *)
(* searched for the name, and the list to write holds this name alone.     *)
Create(r) ==
  /\ At(r, "create")
  /\ CreateFile(r, "first")
  /\ list' = [list EXCEPT ![r] = <<name[r]>>]
  /\ Goto(r, "write")
  /\ UNCHANGED <<name, table, up, crashes>>

(* Mutant: the search for a duplicate is missing.                          *)
ReadUnchecked(r) ==
  /\ At(r, "read")
  /\ content[handle[r]] # Binary
  /\ list' = [list EXCEPT ![r] = Append(content[handle[r]].names, name[r])]
  /\ Goto(r, "remove")
  /\ UNCHANGED <<name, handle, disk, table, up, crashes>>

(* Mutant: the list starts anew instead of from the file.                  *)
ReadForgetful(r) ==
  /\ At(r, "read")
  /\ content[handle[r]] # Binary
  /\ IF name[r] \in ToSet(content[handle[r]].names)
     THEN Goto(r, "refused") /\ UNCHANGED list
     ELSE list' = [list EXCEPT ![r] = <<name[r]>>] /\ Goto(r, "remove")
  /\ UNCHANGED <<name, handle, disk, table, up, crashes>>

(* The list is read and searched for the name.                             *)
Read(r) ==
  /\ At(r, "read")
  /\ content[handle[r]] # Binary
  /\ LET stored == content[handle[r]].names
     IN  IF name[r] \in ToSet(stored)
         THEN Goto(r, "refused") /\ UNCHANGED list
         ELSE list' = [list EXCEPT ![r] = Append(stored, name[r])] /\ Goto(r, "remove")
  /\ UNCHANGED <<name, handle, disk, table, up, crashes>>

(* read_to_string consumes the file before it finds that it is not UTF-8,  *)
(* so the list of one is going to be written behind its end.               *)
ReadFails(r) ==
  /\ At(r, "read")
  /\ content[handle[r]] = Binary
  /\ list' = [list EXCEPT ![r] = <<name[r]>>]
  /\ Goto(r, "append")
  /\ UNCHANGED <<name, handle, disk, table, up, crashes>>

(* drop(cfgs), remove_file(..)?: an error at least when somebody else      *)
(* removed it.                                                             *)
RemoveFile(r) ==
  /\ At(r, "remove")
  /\ \/ path # NoFile /\ path' = NoFile /\ Goto(r, "reopen")
     \/ UNCHANGED path /\ Goto(r, "refused")
  /\ UNCHANGED <<local, content, table, up, crashes>>

Reopen(r) == OpenExisting(r, "reopen", "rewrite", "recreate")

Recreate(r) ==
  /\ At(r, "recreate")
  /\ CreateFile(r, "second")
  /\ Goto(r, "rewrite")
  /\ UNCHANGED <<name, list, table, up, crashes>>

(* write_all, from the start of the file.                                  *)
Write(r) ==
  /\ pc[r] \in {"rewrite", "write"} /\ up
  /\ \E new \in Overwritten(content[handle[r]], list[r]) :
       content' = [content EXCEPT ![handle[r]] = new]
  /\ Goto(r, "run")
  /\ UNCHANGED <<local, path, table, up, crashes>>

(* write_all, from where the file ended when it was read: what it holds is *)
(* no list, also when somebody truncated or replaced it meanwhile.         *)
Behind(old) == IF old = Binary THEN {Binary} ELSE {Garbled, Binary}

WriteBehind(r) ==
  /\ At(r, "append")
  /\ \E new \in Behind(content[handle[r]]) : content' = [content EXCEPT ![handle[r]] = new]
  /\ Goto(r, "run")
  /\ UNCHANGED <<local, path, table, up, crashes>>

(* write_all fails, with a part of the text in the file; or it is cut short *)
(* by the end of the process, which is this step and then Crash.           *)
WriteFails(r) ==
  /\ pc[r] \in Writing /\ up
  /\ LET old == content[handle[r]]
     IN  \E new \in IF pc[r] = "append" THEN {old} \cup Behind(old) ELSE PartOf(old, list[r]) :
           content' = [content EXCEPT ![handle[r]] = new]
  /\ Goto(r, "unwritten")
  /\ UNCHANGED <<local, path, table, up, crashes>>

(* run_server spawns a process or fails; the file keeps the name.          *)
Run(r) ==
  /\ At(r, "run")
  /\ Goto(r, "insert") \/ Goto(r, "refused")
  /\ UNCHANGED <<local, disk, table, up, crashes>>

Insert(r) ==
  /\ At(r, "insert")
  /\ table' = table \cup {name[r]}
  /\ Goto(r, "ok")
  /\ UNCHANGED <<local, disk, up, crashes>>

-----------------------------------------------------------------------------
(* What a start of the web server would find.                              *)
Stored == IF path = NoFile THEN {} ELSE ToSet(content[path].names)

(* The web server's process ends, with its handlers wherever they are.     *)
Crash ==
  /\ up /\ crashes < MaxCrash
  /\ up' = FALSE /\ crashes' = crashes + 1
  /\ pc' = [r \in Request |-> IF pc[r] \in Active \cup {"unwritten"} THEN "lost" ELSE pc[r]]
  /\ table' = {}
  /\ UNCHANGED <<local, disk>>

(* async_main starts the stored proxies; those whose process could be      *)
(* spawned are entered in the table.                                       *)
Start ==
  /\ ~up
  /\ up' = TRUE
  /\ table' \in SUBSET Stored
  /\ UNCHANGED <<pc, local, disk, crashes>>

-----------------------------------------------------------------------------
Handler(r) ==
  \/ Begin(r) \/ Open(r) \/ Create(r) \/ Panic(r, "create", "refused")
  \/ Read(r) \/ ReadFails(r) \/ RemoveFile(r)
  \/ Reopen(r) \/ Recreate(r) \/ Panic(r, "recreate", "unwritten")
  \/ Write(r) \/ WriteBehind(r) \/ WriteFails(r) \/ Run(r) \/ Insert(r)

Next == \/ \E r \in Request : Handler(r)
        \/ Crash \/ Start

Spec == Init /\ [][Next]_vars

-----------------------------------------------------------------------------
(* Every variable stays in its type, and with one thread no list holds a   *)
(* name twice: a start of the web server would run both.                   *)
TypeOK ==
  /\ pc \in [Request -> {"new"} \cup Active \cup Done]
  /\ name \in [Request -> Name]
  /\ handle \in [Request -> Inode \cup {NoFile}]
  /\ path \in Inode \cup {NoFile}
  /\ table \subseteq Name
  /\ up \in BOOLEAN /\ crashes \in 0..MaxCrash
  /\ \A l \in {list[r] : r \in Request} \cup {content[i].names : i \in Inode} :
       l \in Seq(Name) /\ (Threads = 1 => \A i, k \in 1..Len(l) : l[i] = l[k] => i = k)

(* What the code relies on without making sure of it: in the life of this  *)
(* web server no request ended between the removal of the file and the end *)
(* of the writing, and the file can be read as text.                       *)
Undamaged ==
  /\ \A r \in Request : pc[r] # "unwritten"
  /\ path # NoFile => content[path] # Binary

(* The proxies the web server shows are the ones it would start again: no  *)
(* request loses what another one stored, while no file is being replaced  *)
(* and none was damaged.                                                   *)
Replacing == \E r \in Request : pc[r] \in {"reopen", "recreate", "rewrite"}
TableIsStored == ~Replacing /\ Undamaged => table \subseteq Stored

(* A proxy is only created under a name no proxy of the web server has,    *)
(* though a file that was missing is not searched for the name.            *)
NoDuplicateProxy ==
  [][\A r \in Request : pc[r] = "insert" /\ pc'[r] = "ok" /\ Undamaged => name[r] \notin table]_vars

-----------------------------------------------------------------------------
(* "保存当前创建的所有代理服务的配置文件。并重启后自定启动起来", all       *)
(* created proxies are stored and started after a restart                  *)
(* (doc/0.2.2开发日志:9): between requests, a proxy whose creation was     *)
(* answered with success is stored, in a web server that never stops and   *)
(* whose files can all be created, read and written.                       *)
CreatedIsStored ==
  Busy = {} /\ Undamaged => \A r \in Request : pc[r] = "ok" => name[r] \in Stored
=============================================================================
