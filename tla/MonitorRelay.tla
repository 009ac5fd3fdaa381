------------------------------ MODULE MonitorRelay ------------------------------
(***************************************************************************)
(* One connection of the relay `monitor`: a miner on one side, the         *)
(* server's encrypted port on the other, and a single task that reads a    *)
(* line of either and writes it to the other.  A line is two chunks, the   *)
(* second with the separator, so that a write() that takes part of a line  *)
(* can be told from one that takes all of it.                              *)
(***************************************************************************)
EXTENDS Integers, Sequences

CONSTANTS
  Sock,      \* chunks a socket's buffer holds
  MaxLine,   \* bound: lines each side sends
  Garbled    \* a line put together from pieces of others

Dir == {"up", "down"}            \* up: miner to pool
Peer == {"miner", "pool"}
Source == [up |-> "miner", down |-> "pool"]
Sink == [up |-> "pool", down |-> "miner"]

ASSUME SockAssumption == Sock \in Nat \ {0}
ASSUME LineAssumption == MaxLine \in Nat /\ Garbled \in Int /\ Garbled < 0

VARIABLES
  pc,      \* "accepted", "select", "up", "down" (in a write) or "closed"
  line,    \* the line being written
  inq,     \* inq[d]: what the source has sent and the relay has not read
  out,     \* out[d]: chunks in the socket to the sink
  part,    \* part[d]: what the sink holds of an unfinished line: 0 if nothing
  gone,    \* peers that hung up
  sent, got, whole   \* per direction: see LinePipe

vars == <<pc, line, inq, out, part, gone, sent, got, whole>>
peers == <<part, gone, sent, got>>

Up == INSTANCE LinePipe WITH sent <- sent["up"], got <- got["up"], whole <- whole["up"]
Down == INSTANCE LinePipe
          WITH sent <- sent["down"], got <- got["down"], whole <- whole["down"]

\* What a peer sends: a numbered line, an empty line, or bytes that are no UTF-8.
Blank == 0
Binary == -1

Init ==
  /\ pc = "accepted" /\ line = 0
  /\ inq = [d \in Dir |-> <<>>] /\ out = [d \in Dir |-> <<>>]
  /\ part = [d \in Dir |-> 0] /\ gone = {}
  /\ sent = [d \in Dir |-> 0] /\ got = [d \in Dir |-> <<>>]
  /\ whole = [d \in Dir |-> TRUE]

(***************************************************************************)
(* The relay.  Leaving the loop drops all four halves, whatever the cause. *)
(***************************************************************************)
Close ==
  /\ pc' = "closed" /\ line' = 0
  /\ inq' = [d \in Dir |-> <<>>]
  /\ UNCHANGED <<out, whole, peers>>

\* The blocking connect to the server, with its timeout of 5 seconds.
Connected ==
  /\ pc = "accepted"
  /\ pc' = "select"
  /\ UNCHANGED <<line, inq, out, whole, peers>>

ConnectFails == pc = "accepted" /\ Close

\* A branch of the select! gets a line; an empty one is not forwarded.
Read(d) ==
  /\ pc = "select" /\ inq[d] # <<>> /\ Head(inq[d]) # Binary
  /\ IF Head(inq[d]) = Blank
     THEN UNCHANGED <<pc, line>>
     ELSE pc' = d /\ line' = Head(inq[d])
  /\ inq' = [inq EXCEPT ![d] = Tail(@)]
  /\ UNCHANGED <<out, whole, peers>>

\* next_line() refuses bytes of the miner that are no UTF-8; from the pool the
\* unwrap() inside debug!, at level DEBUG, panics.  Both end the task.
ReadBinary(d) == pc = "select" /\ inq[d] # <<>> /\ Head(inq[d]) = Binary /\ Close

\* End of file of either side, once its lines are read.
ReadEofMinerOnly(d) ==
  d = "up" /\ pc = "select" /\ inq[d] = <<>> /\ Source[d] \in gone /\ Close

ReadEof(d) == pc = "select" /\ inq[d] = <<>> /\ Source[d] \in gone /\ Close

\* No line of the miner for 1 second at first, later 60: every turn of the loop
\* starts the wait again, also one that served the pool.
IdleTimeout == pc = "select" /\ inq.up = <<>> /\ Close

\* One write(), not write_all(): what does not fit is forgotten.  Without any
\* room the task waits, and neither direction is served.
Chunks == <<<<line, 1>>, <<line, 2>>>>
Room(d) == Sock - Len(out[d])

WriteAll(d) ==
  /\ pc = d /\ Room(d) > 0
  /\ out' = [out EXCEPT ![d] = @ \o Chunks]
  /\ whole' = whole
  /\ pc' = "select" /\ line' = 0
  /\ UNCHANGED <<inq, peers>>

WriteRetried(d) ==
  /\ pc = d /\ Room(d) > 0
  /\ out' = [out EXCEPT ![d] = @ \o SubSeq(Chunks, 1, IF Room(d) < 2 THEN 1 ELSE 2)]
  /\ IF Room(d) < 2
     THEN UNCHANGED <<pc, line>>
     ELSE pc' = "select" /\ line' = 0
  /\ UNCHANGED <<inq, whole, peers>>

Write(d) ==
  /\ pc = d /\ Room(d) > 0
  /\ out' = [out EXCEPT ![d] = @ \o SubSeq(Chunks, 1, IF Room(d) < 2 THEN 1 ELSE 2)]
  /\ whole' = [whole EXCEPT ![d] = @ /\ Room(d) >= 2]
  /\ pc' = "select" /\ line' = 0
  /\ UNCHANGED <<inq, peers>>

WriteFails(d) == pc = d /\ Sink[d] \in gone /\ Close

(***************************************************************************)
(* The peers.                                                              *)
(***************************************************************************)
Sends(d) ==
  /\ Source[d] \notin gone /\ sent[d] < MaxLine
  /\ \/ /\ sent' = [sent EXCEPT ![d] = @ + 1]
        /\ inq' = [inq EXCEPT ![d] = IF pc = "closed" THEN @ ELSE Append(@, sent[d] + 1)]
     \/ /\ pc # "closed" /\ inq[d] = <<>>
        /\ \E l \in {Blank, Binary} : inq' = [inq EXCEPT ![d] = Append(@, l)]
        /\ UNCHANGED sent
  /\ UNCHANGED <<pc, line, out, part, gone, got, whole>>

\* A peer puts lines together up to each separator.
Receives(d) ==
  /\ Sink[d] \notin gone /\ out[d] # <<>>
  /\ LET n == Head(out[d])[1]
         last == Head(out[d])[2] = 2
     IN  IF last
         THEN /\ got' = [got EXCEPT ![d] = Append(@, IF part[d] = n THEN n ELSE Garbled)]
              /\ part' = [part EXCEPT ![d] = 0]
         ELSE /\ part' = [part EXCEPT ![d] = IF @ = 0 THEN n ELSE Garbled]
              /\ UNCHANGED got
  /\ out' = [out EXCEPT ![d] = Tail(@)]
  /\ UNCHANGED <<pc, line, inq, gone, sent, whole>>

HangsUp(p) ==
  /\ p \notin gone
  /\ gone' = gone \cup {p}
  /\ UNCHANGED <<pc, line, inq, out, part, sent, got, whole>>

Next ==
  \/ Connected \/ ConnectFails \/ IdleTimeout
  \/ \E d \in Dir :
       \/ Read(d) \/ ReadBinary(d) \/ ReadEof(d) \/ Write(d) \/ WriteFails(d)
       \/ Sends(d) \/ Receives(d)
  \/ \E p \in Peer : HangsUp(p)

(***************************************************************************)
(* Fairness.  connect_timeout returns; the runtime polls a task that can   *)
(* go on; select! draws among its ready branches, so each is served in     *)
(* time (strong fairness).  Of the peers: that those still there read.     *)
(***************************************************************************)
Fairness ==
  /\ WF_vars(Connected \/ ConnectFails)
  /\ \A d \in Dir :
       /\ SF_vars(Read(d)) /\ SF_vars(ReadBinary(d)) /\ SF_vars(ReadEof(d))
       /\ WF_vars(Write(d) \/ WriteFails(d))
       /\ WF_vars(Receives(d))

Spec == Init /\ [][Next]_vars /\ Fairness

--------------------------------------------------------------------------------
\* Types; no socket holds more than it can, and the relay holds a line exactly
\* while it is in a write.
TypeOK ==
  /\ pc \in {"accepted", "select", "closed"} \cup Dir
  /\ line \in 0..MaxLine /\ (line # 0 <=> pc \in Dir)
  /\ inq \in [Dir -> Seq(-1..MaxLine)]
  /\ out \in [Dir -> Seq((1..MaxLine) \X {1, 2})] /\ \A d \in Dir : Len(out[d]) <= Sock
  /\ part \in [Dir -> 0..MaxLine \cup {Garbled}]
  /\ gone \subseteq Peer
  /\ sent \in [Dir -> 0..MaxLine]
  /\ got \in [Dir -> Seq(1..MaxLine \cup {Garbled})]
  /\ whole \in [Dir -> BOOLEAN]

\* Either direction is a pipe of lines: in order, none twice, and until a write
\* falls short none missing, across all interleavings of the two directions.
BothWaysArePipes == Up!Spec /\ Down!Spec

\* When one side hangs up the connection to the other ends too.
EndsTogether == \A p \in Peer : p \in gone ~> pc = "closed"
================================================================================
