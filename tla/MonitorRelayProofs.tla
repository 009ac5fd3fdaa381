--------------------------- MODULE MonitorRelayProofs ---------------------------
(* Proofs about MonitorRelay, for sockets and peers of any size: its types,  *)
(* and that each direction implements LinePipe.                              *)
EXTENDS MonitorRelay, SequenceTheorems, TLAPS

Chunk == (1..MaxLine) \X {1, 2}

(***************************************************************************)
(* Type correctness.                                                       *)
(***************************************************************************)
\* One write() puts one or two chunks of the line into the socket.
LEMMA Writing ==
  ASSUME TypeOK, NEW d \in Dir, Write(d)
  PROVE  /\ out'[d] \in Seq(Chunk) /\ out' = [out EXCEPT ![d] = out'[d]]
         /\ line \in 1..MaxLine
         /\ \/ /\ Room(d) = 1 /\ Len(out'[d]) = Len(out[d]) + 1
            \/ /\ Room(d) >= 2 /\ Len(out'[d]) = Len(out[d]) + 2
               /\ out'[d][Len(out[d]) + 2] = <<line, 2>>
         /\ out'[d][Len(out[d]) + 1] = <<line, 1>>
         /\ \A i \in 1..Len(out[d]) : out'[d][i] = out[d][i]
<1> DEFINE n == IF Room(d) < 2 THEN 1 ELSE 2
           new == SubSeq(Chunks, 1, n)
<1>1. line \in 1..MaxLine
  BY LineAssumption DEF TypeOK, Write, Dir
<1>2. out[d] \in Seq(Chunk) /\ Len(out[d]) \in Nat /\ out \in [Dir -> Seq(Chunk)]
  BY DEF TypeOK, Chunk
<1>3. Room(d) \in Int /\ Room(d) > 0 /\ n \in 1..2
  BY <1>2, SockAssumption DEF Write, Room
<1>4. Chunks[1] = <<line, 1>> /\ Chunks[2] = <<line, 2>>
  BY DEF Chunks
<1>5. \A i \in 1..n : Chunks[i] \in Chunk
  BY <1>1, <1>3, <1>4 DEF Chunk
<1>6. /\ new \in Seq(Chunk) /\ Len(new) = n
      /\ \A i \in 1..n : new[i] = Chunks[i]
  <2> HIDE DEF n
  <2> QED BY <1>3, <1>5, SubSeqProperties
<1>7. out' = [out EXCEPT ![d] = out[d] \o new]
  BY DEF Write
<1>8. out'[d] = out[d] \o new /\ out' = [out EXCEPT ![d] = out'[d]]
  BY <1>2, <1>7
<1>9. /\ out'[d] \in Seq(Chunk) /\ Len(out'[d]) = Len(out[d]) + n
      /\ \A i \in 1..Len(out[d]) + n :
           out'[d][i] = IF i <= Len(out[d]) THEN out[d][i] ELSE new[i - Len(out[d])]
  <2>1. new \in Seq(Chunk) /\ Len(new) = n
    BY <1>6
  <2> HIDE DEF n, new
  <2>2. /\ out[d] \o new \in Seq(Chunk) /\ Len(out[d] \o new) = Len(out[d]) + Len(new)
        /\ \A i \in 1..Len(out[d]) + Len(new) :
             (out[d] \o new)[i] = IF i <= Len(out[d]) THEN out[d][i] ELSE new[i - Len(out[d])]
    BY <1>2, <2>1, ConcatProperties
  <2> QED BY <1>8, <2>1, <2>2
<1>10. out'[d][Len(out[d]) + 1] = <<line, 1>>
  BY <1>2, <1>3, <1>4, <1>6, <1>9
<1>11. n = 2 => out'[d][Len(out[d]) + 2] = <<line, 2>>
  BY <1>2, <1>4, <1>6, <1>9
<1> QED BY <1>1, <1>2, <1>3, <1>8, <1>9, <1>10, <1>11

LEMMA TypeInitial == Init => TypeOK
BY SockAssumption, LineAssumption DEF Init, TypeOK, Dir, Peer

LEMMA TypeKept == TypeOK /\ [Next]_vars => TypeOK'
<1> SUFFICES ASSUME TypeOK, [Next]_vars PROVE TypeOK'
  OBVIOUS
<1> USE LineAssumption
<1>1. ASSUME Close, pc # "closed" PROVE TypeOK'
  BY <1>1 DEF TypeOK, Close, peers, Dir
<1>2. CASE Connected
  BY <1>2 DEF TypeOK, Connected, peers, Dir
<1>3. CASE ConnectFails \/ IdleTimeout
  BY <1>1, <1>3 DEF ConnectFails, IdleTimeout
<1>4. ASSUME NEW d \in Dir, Read(d) PROVE TypeOK'
  <2>1. inq[d] \in Seq(-1..MaxLine) /\ inq[d] # <<>>
    BY <1>4 DEF TypeOK, Read
  <2>2. Head(inq[d]) \in -1..MaxLine /\ Tail(inq[d]) \in Seq(-1..MaxLine)
    BY <2>1, HeadTailProperties
  <2>3. inq' \in [Dir -> Seq(-1..MaxLine)]
    BY <1>4, <2>2 DEF TypeOK, Read
  <2>4. /\ line' \in 0..MaxLine /\ (line' # 0 <=> pc' \in Dir)
        /\ pc' \in {"accepted", "select", "closed"} \cup Dir
    <3>1. pc = "select" /\ pc \notin Dir /\ line = 0
      BY <1>4 DEF TypeOK, Read, Dir
    <3>2. CASE Head(inq[d]) = Blank
      BY <1>4, <3>1, <3>2 DEF TypeOK, Read
    <3>3. CASE Head(inq[d]) # Blank
      <4>1. pc' = d /\ line' = Head(inq[d]) /\ Head(inq[d]) # Binary
        BY <1>4, <3>3 DEF Read
      <4>2. line' \in 1..MaxLine
        BY <2>2, <3>3, <4>1 DEF Blank, Binary
      <4> QED BY <4>1, <4>2
    <3> QED BY <3>2, <3>3
  <2> QED BY <1>4, <2>3, <2>4 DEF TypeOK, Read, peers
<1>5. ASSUME NEW d \in Dir, ReadBinary(d) \/ ReadEof(d) \/ WriteFails(d) PROVE TypeOK'
  BY <1>1, <1>5 DEF ReadBinary, ReadEof, WriteFails, Dir
<1>6. ASSUME NEW d \in Dir, Write(d) PROVE TypeOK'
  <2>1. out' \in [Dir -> Seq(Chunk)]
    BY <1>6, Writing DEF TypeOK, Chunk
  <2>2. Len(out[d]) \in Nat /\ Len(out'[d]) <= Sock
    <3>1. out[d] \in Seq(Chunk) /\ Len(out[d]) <= Sock
      BY DEF TypeOK, Chunk
    <3>2. Len(out[d]) \in Nat
      BY <3>1, LenProperties
    <3> QED BY <1>6, <3>1, <3>2, Writing, SockAssumption DEF Room
  <2>3. \A e \in Dir : Len(out'[e]) <= Sock
    BY <1>6, <2>2, Writing DEF TypeOK
  <2>4. whole' \in [Dir -> BOOLEAN]
    BY <1>6 DEF TypeOK, Write
  <2>5. pc' = "select" /\ line' = 0 /\ UNCHANGED <<inq, part, gone, sent, got>>
    BY <1>6 DEF Write, peers
  <2> QED BY <2>1, <2>3, <2>4, <2>5 DEF TypeOK, Chunk, Dir
<1>7. ASSUME NEW d \in Dir, Sends(d) PROVE TypeOK'
  <2>1. /\ inq \in [Dir -> Seq(-1..MaxLine)] /\ sent \in [Dir -> 0..MaxLine]
        /\ sent[d] \in 0..MaxLine /\ inq[d] \in Seq(-1..MaxLine)
    BY DEF TypeOK
  <2>2. \A l \in -1..MaxLine : Append(inq[d], l) \in Seq(-1..MaxLine)
    BY <2>1
  <2>3. inq' \in [Dir -> Seq(-1..MaxLine)] /\ sent' \in [Dir -> 0..MaxLine]
    <3>1. CASE /\ sent' = [sent EXCEPT ![d] = @ + 1]
               /\ inq' = [inq EXCEPT ![d] = IF pc = "closed" THEN @ ELSE Append(@, sent[d] + 1)]
      <4>1. sent[d] + 1 \in 1..MaxLine
        BY <1>7, <2>1 DEF Sends
      <4>2. sent[d] + 1 \in 0..MaxLine /\ sent[d] + 1 \in -1..MaxLine
        BY <2>1, <4>1
      <4>3. Append(inq[d], sent[d] + 1) \in Seq(-1..MaxLine)
        BY <2>2, <4>2
      <4>4. sent' \in [Dir -> 0..MaxLine]
        BY <2>1, <3>1, <4>2
      <4>5. inq' \in [Dir -> Seq(-1..MaxLine)]
        BY <2>1, <3>1, <4>3
      <4> QED BY <4>4, <4>5
    <3>2. CASE /\ \E l \in {Blank, Binary} : inq' = [inq EXCEPT ![d] = Append(@, l)]
               /\ UNCHANGED sent
      <4>1. PICK l \in {Blank, Binary} : inq' = [inq EXCEPT ![d] = Append(@, l)]
        BY <3>2
      <4>2. l \in -1..MaxLine
        BY <4>1 DEF Blank, Binary
      <4> QED BY <2>1, <2>2, <3>2, <4>1, <4>2
    <3> QED BY <1>7, <3>1, <3>2 DEF Sends
  <2>4. UNCHANGED <<pc, line, out, part, gone, got, whole>>
    BY <1>7 DEF Sends
  <2> QED BY <2>3, <2>4 DEF TypeOK
<1>8. ASSUME NEW d \in Dir, Receives(d) PROVE TypeOK'
  <2>1. out[d] \in Seq(Chunk) /\ out[d] # <<>> /\ Len(out[d]) <= Sock /\ out \in [Dir -> Seq(Chunk)]
    BY <1>8 DEF TypeOK, Receives, Chunk
  <2>2. /\ Head(out[d]) \in Chunk /\ Tail(out[d]) \in Seq(Chunk)
        /\ Len(Tail(out[d])) = Len(out[d]) - 1 /\ Len(out[d]) \in Nat
    BY <2>1, HeadTailProperties, LenProperties
  <2>3. out' = [out EXCEPT ![d] = Tail(@)]
    BY <1>8 DEF Receives
  <2>4. out' \in [Dir -> Seq(Chunk)] /\ \A e \in Dir : Len(out'[e]) <= Sock
    <3>1. \A e \in Dir : Len(out[e]) <= Sock
      BY DEF TypeOK
    <3> QED BY <2>1, <2>2, <2>3, <3>1, SockAssumption
  <2>5. Head(out[d])[1] \in 1..MaxLine
    BY <2>2 DEF Chunk
  <2>6. part' \in [Dir -> 0..MaxLine \cup {Garbled}]
    <3>1. part \in [Dir -> 0..MaxLine \cup {Garbled}]
      BY DEF TypeOK
    <3> QED BY <1>8, <2>5, <3>1 DEF Receives
  <2>7. got' \in [Dir -> Seq(1..MaxLine \cup {Garbled})]
    <3>1. /\ got \in [Dir -> Seq(1..MaxLine \cup {Garbled})]
          /\ got[d] \in Seq(1..MaxLine \cup {Garbled})
      BY DEF TypeOK
    <3>2. \A l \in 1..MaxLine \cup {Garbled} : Append(got[d], l) \in Seq(1..MaxLine \cup {Garbled})
      BY <3>1
    <3>3. PICK l \in 1..MaxLine \cup {Garbled} :
             got' = [got EXCEPT ![d] = Append(got[d], l)] \/ got' = got
      BY <1>8, <2>5 DEF Receives
    <3> QED BY <3>1, <3>2, <3>3
  <2>8. UNCHANGED <<pc, line, inq, gone, sent, whole>>
    BY <1>8 DEF Receives
  <2> QED BY <2>4, <2>6, <2>7, <2>8 DEF TypeOK, Chunk
<1>9. ASSUME NEW p \in Peer, HangsUp(p) PROVE TypeOK'
  BY <1>9 DEF TypeOK, HangsUp
<1>10. CASE UNCHANGED vars
  BY <1>10 DEF TypeOK, vars
<1> QED BY <1>2, <1>3, <1>4, <1>5, <1>6, <1>7, <1>8, <1>9, <1>10 DEF Next

(* No socket overflows and the relay holds a line exactly while it writes.  *)
THEOREM TypeCorrect == Spec => []TypeOK
BY TypeInitial, TypeKept, PTL DEF Spec
(***************************************************************************)
(* The invariant of a direction: its lines are spread over got, part, out, *)
(* line and inq in the order they were sent, and as long as no write fell  *)
(* short they lie there without a gap.                                     *)
(***************************************************************************)
Numbers(d) == {got[d][i] : i \in 1..Len(got[d])} \ {Garbled}

\* The number of lines the relay has read, and of those it has written or lost.
Blanks(d) == IF inq[d] # <<>> /\ inq[d][1] \in {Blank, Binary} THEN 1 ELSE 0
Taken(d) == sent[d] - Len(inq[d]) + Blanks(d)
Limit(d) == IF pc = "closed" THEN sent[d] ELSE IF pc = d THEN Taken(d) - 1 ELSE Taken(d)

\* The place of a chunk in the stream.
Place(c) == c[1] + c[1] + c[2]
Begun(d) == IF part[d] = 0 THEN 0 ELSE 1

\* The chunks the sink has taken.
Done(d) == Len(got[d]) + Len(got[d]) + Begun(d)

Input(d) ==
  /\ Limit(d) \in 0..sent[d]
  /\ pc # "closed" =>
       \A i \in 1..Len(inq[d]) :
         \/ inq[d][i] = sent[d] - Len(inq[d]) + i
         \/ i = 1 /\ inq[d][i] \in {Blank, Binary}
  /\ pc = d => line = Taken(d)

Ordered(d) ==
  /\ \A l \in Numbers(d) : l \in 1..Limit(d)
  /\ part[d] # Garbled => part[d] <= Limit(d)
  /\ part[d] \notin {0, Garbled} => \A l \in Numbers(d) : l < part[d]
  /\ \A i \in 1..Len(out[d]) :
       /\ out[d][i][1] <= Limit(d)
       /\ \A l \in Numbers(d) : l < out[d][i][1]
       /\ part[d] \notin {0, Garbled} => part[d] + part[d] + 1 < Place(out[d][i])
       /\ \A j \in 1..Len(out[d]) : j < i => Place(out[d][j]) < Place(out[d][i])

Contiguous(d) ==
  whole[d] =>
    /\ \A i \in 1..Len(got[d]) : got[d][i] = i
    /\ part[d] \in {0, Len(got[d]) + 1}
    /\ \A i \in 1..Len(out[d]) : Place(out[d][i]) = Done(d) + 2 + i
    /\ pc # "closed" => Limit(d) + Limit(d) = Done(d) + Len(out[d])

PipeInv(d) == Input(d) /\ Ordered(d) /\ Contiguous(d)
Inv == TypeOK /\ \A d \in Dir : PipeInv(d)

\* What TypeOK says of one direction.
Typed(d) ==
  /\ inq[d] \in Seq(Int) /\ Len(inq[d]) \in Nat
  /\ out[d] \in Seq(Chunk) /\ Len(out[d]) \in Nat
  /\ \A i \in 1..Len(out[d]) : out[d][i][1] \in Nat \ {0} /\ out[d][i][2] \in {1, 2}
  /\ part[d] \in Nat \cup {Garbled} /\ sent[d] \in Nat
  /\ got[d] \in Seq(Int) /\ Len(got[d]) \in Nat
  /\ \A l \in Numbers(d) : l \in Nat \ {0}
  /\ whole[d] \in BOOLEAN /\ line \in Nat

LEMMA TypedDirection == ASSUME TypeOK, NEW d \in Dir PROVE Typed(d)
<1>1. inq[d] \in Seq(-1..MaxLine) /\ got[d] \in Seq(1..MaxLine \cup {Garbled})
  BY DEF TypeOK
<1>2. inq[d] \in Seq(Int) /\ got[d] \in Seq(Int)
  <2>1. -1..MaxLine \subseteq Int /\ 1..MaxLine \cup {Garbled} \subseteq Int
    BY LineAssumption
  <2> QED BY <1>1, <2>1, SeqMonotonic
<1>3. Len(inq[d]) \in Nat /\ Len(got[d]) \in Nat
  BY <1>1, LenProperties
<1>4. out[d] \in Seq(Chunk)
  BY DEF TypeOK, Chunk
<1>5. Len(out[d]) \in Nat /\ \A i \in 1..Len(out[d]) : out[d][i] \in Chunk
  BY <1>4, LenProperties, ElementOfSeq
<1>6. \A i \in 1..Len(out[d]) : out[d][i][1] \in Nat \ {0} /\ out[d][i][2] \in {1, 2}
  BY <1>5, LineAssumption DEF Chunk
<1>7. \A i \in 1..Len(got[d]) : got[d][i] \in 1..MaxLine \cup {Garbled}
  BY <1>1, ElementOfSeq
<1>8. \A l \in Numbers(d) : l \in Nat \ {0}
  BY <1>7, LineAssumption DEF Numbers
<1>9. part[d] \in Nat \cup {Garbled} /\ sent[d] \in Nat /\ whole[d] \in BOOLEAN /\ line \in Nat
  BY LineAssumption DEF TypeOK
<1> QED BY <1>2, <1>3, <1>4, <1>5, <1>6, <1>8, <1>9 DEF Typed

LEMMA InvInitial == Init => Inv
<1> SUFFICES ASSUME Init, NEW d \in Dir PROVE PipeInv(d)
  BY TypeInitial DEF Inv
<1>1. /\ inq[d] = <<>> /\ out[d] = <<>> /\ got[d] = <<>> /\ part[d] = 0 /\ sent[d] = 0
      /\ pc = "accepted" /\ d # "accepted"
  BY DEF Init, Dir
<1>2. Len(inq[d]) = 0 /\ Len(out[d]) = 0 /\ Len(got[d]) = 0
  BY <1>1
<1>3. Limit(d) = 0 /\ Done(d) = 0
  <2>1. Blanks(d) = 0
    BY <1>1 DEF Blanks
  <2>2. Taken(d) = 0
    <3>1. sent[d] = 0 /\ Len(inq[d]) = 0
      BY <1>1, <1>2
    <3> QED BY <2>1, <3>1 DEF Taken
  <2>3. Len(got[d]) = 0 /\ Begun(d) = 0
    BY <1>1, <1>2 DEF Begun
  <2> QED BY <1>1, <2>2, <2>3 DEF Limit, Done
<1>4. Numbers(d) = {}
  <2>1. 1..Len(got[d]) = {}
    BY <1>2
  <2> QED BY <2>1 DEF Numbers
<1>5. Input(d)
  BY <1>1, <1>2, <1>3 DEF Input
<1>6. Ordered(d)
  BY <1>1, <1>2, <1>3, <1>4 DEF Ordered
<1>7. Contiguous(d)
  BY <1>1, <1>2, <1>3 DEF Contiguous
<1> QED BY <1>5, <1>6, <1>7 DEF PipeInv

(***************************************************************************)
(* Each kind of step keeps the invariant.                                  *)
(***************************************************************************)
\* What the bytes of a direction are, besides those the relay has not read.
Written(d) == <<out[d], part[d], got[d], whole[d]>>

\* A step that writes and receives nothing of d and takes back nothing.
LEMMA AheadKept ==
  ASSUME NEW d \in Dir, Typed(d), Ordered(d), Contiguous(d), UNCHANGED Written(d),
         Limit(d) \in Int, Limit(d)' \in Int, Limit(d) <= Limit(d)',
         pc' # "closed" => pc # "closed" /\ Limit(d)' = Limit(d)
  PROVE  Ordered(d)' /\ Contiguous(d)'
<1>1. out'[d] = out[d] /\ part'[d] = part[d] /\ got'[d] = got[d] /\ whole'[d] = whole[d]
  BY DEF Written
<1>2. Numbers(d)' = Numbers(d) /\ Done(d)' = Done(d)
  BY <1>1 DEF Numbers, Begun, Done
<1>3. Ordered(d)'
  <2>1. \A l \in Numbers(d)' : l \in 1..Limit(d)'
    BY <1>2 DEF Ordered
  <2>2. part'[d] # Garbled => part'[d] <= Limit(d)'
    BY <1>1, LineAssumption DEF Ordered, Typed
  <2>3. part'[d] \notin {0, Garbled} => \A l \in Numbers(d)' : l < part'[d]
    BY <1>1, <1>2 DEF Ordered
  <2>4. ASSUME NEW i \in 1..Len(out'[d])
        PROVE  /\ out'[d][i][1] <= Limit(d)'
               /\ \A l \in Numbers(d)' : l < out'[d][i][1]
               /\ part'[d] \notin {0, Garbled} => part'[d] + part'[d] + 1 < Place(out'[d][i])
               /\ \A j \in 1..Len(out'[d]) : j < i => Place(out'[d][j]) < Place(out'[d][i])
    <3> i \in 1..Len(out[d])
      BY <1>1
    <3>1. out[d][i][1] <= Limit(d) /\ out[d][i][1] \in Int
      BY DEF Ordered, Typed
    <3>2. out'[d][i][1] <= Limit(d)'
      BY <1>1, <3>1
    <3> QED BY <1>1, <1>2, <3>2 DEF Ordered
  <2> QED BY <2>1, <2>2, <2>3, <2>4 DEF Ordered
<1>4. Contiguous(d)'
  BY <1>1, <1>2 DEF Contiguous, Place
<1> QED BY <1>3, <1>4

\* A step that leaves d and what the relay does for it alone.
LEMMA ElsewhereKept ==
  ASSUME NEW d \in Dir, Typed(d), PipeInv(d), UNCHANGED Written(d),
         UNCHANGED <<inq[d], sent[d]>>,
         pc' = "closed" <=> pc = "closed", pc' = d <=> pc = d, pc = d => line' = line
  PROVE  PipeInv(d)'
<1>1. inq'[d] = inq[d] /\ sent'[d] = sent[d]
  OBVIOUS
<1>2. Taken(d)' = Taken(d) /\ Limit(d)' = Limit(d)
  BY <1>1 DEF Taken, Limit, Blanks
<1>3. Input(d)'
  BY <1>1, <1>2 DEF PipeInv, Input
<1>4. Limit(d) \in Int
  BY DEF PipeInv, Input, Typed
<1> QED BY <1>2, <1>3, <1>4, AheadKept DEF PipeInv

LEMMA CloseKept ==
  ASSUME TypeOK, NEW d \in Dir, PipeInv(d), Close, pc # "closed"
  PROVE  PipeInv(d)'
<1>1. Typed(d)
  BY TypedDirection
<1>2. /\ pc' = "closed" /\ inq'[d] = <<>> /\ sent'[d] = sent[d] /\ UNCHANGED Written(d)
  BY DEF Close, peers, Written
<1>3. Limit(d)' = sent[d] /\ Limit(d) \in 0..sent[d] /\ sent[d] \in Nat
  BY <1>1, <1>2 DEF Limit, PipeInv, Input, Typed
<1>4. Input(d)'
  BY <1>2, <1>3 DEF Input, Dir
<1> QED BY <1>1, <1>2, <1>3, <1>4, AheadKept DEF PipeInv

LEMMA ReadKept ==
  ASSUME TypeOK, NEW d \in Dir, PipeInv(d), Read(d)
  PROVE  PipeInv(d)'
<1>1. Typed(d)
  BY TypedDirection
<1>2. /\ pc = "select" /\ inq[d] # <<>> /\ inq'[d] = Tail(inq[d])
      /\ sent'[d] = sent[d] /\ UNCHANGED Written(d) /\ d # "closed" /\ d # "select"
      /\ inq[d][1] # Binary
  BY DEF Read, TypeOK, peers, Written, Dir
<1>3. /\ Len(inq'[d]) = Len(inq[d]) - 1 /\ Len(inq[d]) > 0
      /\ \A i \in 1..Len(inq'[d]) : inq'[d][i] = inq[d][i + 1]
  BY <1>1, <1>2, HeadTailProperties, EmptySeq DEF Typed
<1>4. Limit(d) = Taken(d) /\ Taken(d) \in 0..sent[d]
  BY <1>2 DEF Limit, PipeInv, Input
<1>5. \A i \in 1..Len(inq[d]) : \/ inq[d][i] = sent[d] - Len(inq[d]) + i
                                \/ i = 1 /\ inq[d][i] \in {Blank, Binary}
  BY <1>2 DEF PipeInv, Input
<1>6. \A i \in 1..Len(inq'[d]) : inq'[d][i] = sent[d] - Len(inq'[d]) + i
  <2> TAKE i \in 1..Len(inq'[d])
  <2>1. Len(inq[d]) \in Nat /\ sent[d] \in Nat
    BY <1>1 DEF Typed
  <2>2. i + 1 \in 1..Len(inq[d]) /\ i + 1 # 1
    BY <1>3, <2>1
  <2>3. inq'[d][i] = sent[d] - Len(inq[d]) + (i + 1)
    BY <1>3, <1>5, <2>2
  <2> QED BY <1>3, <2>1, <2>2, <2>3
<1>7. Blanks(d)' = 0
  <2>1. CASE Len(inq'[d]) = 0
    <3>1. inq'[d] \in Seq(Int)
      BY <1>1, <1>2, HeadTailProperties DEF Typed
    <3>2. inq'[d] = <<>>
      BY <2>1, <3>1, EmptySeq
    <3> QED BY <3>2 DEF Blanks
  <2>2. CASE Len(inq'[d]) > 0
    <3>1. inq'[d][1] = sent[d] - Len(inq[d]) + 2
      <4>1. Len(inq[d]) \in Nat /\ sent[d] \in Nat
        BY <1>1 DEF Typed
      <4>2. 1 \in 1..Len(inq'[d])
        BY <1>3, <2>2, <4>1
      <4> QED BY <1>3, <1>6, <4>1, <4>2
    <3>2. sent[d] - Len(inq[d]) + 1 >= 0
      BY <1>1, <1>4 DEF Typed, Taken, Blanks
    <3>3. inq'[d][1] > 0
      BY <1>1, <3>1, <3>2 DEF Typed
    <3> QED BY <3>3 DEF Blanks, Blank, Binary
  <2>3. Len(inq'[d]) \in Nat
    <3>1. Len(inq[d]) \in Nat
      BY <1>1 DEF Typed
    <3> QED BY <1>3, <3>1
  <2> QED BY <2>1, <2>2, <2>3
<1>8. Taken(d)' = sent[d] - Len(inq[d]) + 1
  <2>1. Taken(d)' = sent'[d] - Len(inq'[d]) + Blanks(d)'
    BY DEF Taken
  <2> QED BY <1>1, <1>2, <1>3, <1>7, <2>1 DEF Typed
<1>9. CASE inq[d][1] = Blank
  <2>1. pc' = "select"
    BY <1>2, <1>9 DEF Read
  <2>2. Taken(d)' = Taken(d)
    BY <1>2, <1>8, <1>9 DEF Taken, Blanks, Blank
  <2>3. Limit(d)' = Limit(d)
    BY <1>2, <1>4, <2>1, <2>2 DEF Limit
  <2>4. Input(d)'
    <3>1. sent'[d] = sent[d] /\ pc' # d
      BY <1>2, <2>1
    <3> QED BY <1>4, <1>6, <2>3, <3>1 DEF Input
  <2> QED BY <1>1, <1>2, <1>4, <2>1, <2>3, <2>4, AheadKept DEF PipeInv, Typed
<1>10. CASE inq[d][1] # Blank
  <2>1. pc' = d /\ line' = inq[d][1]
    BY <1>2, <1>10 DEF Read
  <2>2. /\ inq[d][1] = sent[d] - Len(inq[d]) + 1
        /\ Taken(d) = sent[d] - Len(inq[d])
    BY <1>1, <1>2, <1>3, <1>5, <1>10 DEF Taken, Blanks, Typed
  <2>3. line' = Taken(d)' /\ Taken(d)' = Taken(d) + 1
    BY <1>1, <1>8, <2>1, <2>2 DEF Typed
  <2>4. Limit(d)' = Limit(d)
    BY <1>1, <1>2, <1>4, <2>1, <2>3 DEF Limit, Typed
  <2>5. Input(d)'
    BY <1>2, <1>4, <1>6, <2>1, <2>3, <2>4 DEF Input
  <2>6. Limit(d) \in Int /\ Limit(d)' \in Int /\ Limit(d) <= Limit(d)' /\ pc # "closed"
    BY <1>1, <1>2, <1>4, <2>4 DEF Typed
  <2>7. Ordered(d)' /\ Contiguous(d)'
    BY <1>1, <1>2, <2>4, <2>6, AheadKept DEF PipeInv
  <2> QED BY <2>5, <2>7 DEF PipeInv
<1> QED BY <1>9, <1>10

LEMMA WriteKept ==
  ASSUME TypeOK, NEW d \in Dir, PipeInv(d), Write(d)
  PROVE  PipeInv(d)'
<1>1. Typed(d)
  BY TypedDirection
<1>2. /\ pc = d /\ pc' = "select" /\ d # "select" /\ d # "closed"
      /\ UNCHANGED <<inq[d], sent[d], part[d], got[d]>>
      /\ whole'[d] = (whole[d] /\ Room(d) >= 2)
  BY DEF Write, peers, TypeOK, Dir
<1>3. /\ line = Taken(d) /\ Limit(d) = Taken(d) - 1 /\ Taken(d)' = Taken(d)
      /\ Limit(d) \in 0..sent[d]
  BY <1>2 DEF PipeInv, Input, Limit, Taken, Blanks
<1>4. sent[d] \in Nat /\ line \in Nat /\ line <= sent[d]
  <2>1. inq[d] # <<>> => Len(inq[d]) > 0
    BY <1>1, EmptySeq DEF Typed
  <2> QED BY <1>1, <1>3, <2>1 DEF Typed, Taken, Blanks
<1>5. Limit(d)' = line /\ Limit(d) = line - 1 /\ Limit(d) \in Nat
  BY <1>2, <1>3, <1>4 DEF Limit
<1>6. Input(d)'
  <2>1. inq'[d] = inq[d] /\ sent'[d] = sent[d] /\ pc' # d
    BY <1>2
  <2>2. Limit(d)' \in 0..sent'[d]
    BY <1>4, <1>5, <2>1
  <2> QED BY <1>2, <2>1, <2>2 DEF PipeInv, Input
<1>7. /\ Len(out[d]) \in Nat /\ Room(d) \in Int
      /\ \/ Room(d) = 1 /\ Len(out'[d]) = Len(out[d]) + 1
         \/ Room(d) >= 2 /\ Len(out'[d]) = Len(out[d]) + 2 /\ out'[d][Len(out[d]) + 2] = <<line, 2>>
      /\ out'[d][Len(out[d]) + 1] = <<line, 1>>
      /\ \A i \in 1..Len(out[d]) : out'[d][i] = out[d][i]
  BY <1>1, Writing, SockAssumption DEF Typed, Room
<1>8. \A i \in 1..Len(out'[d]) :
        \/ i \in 1..Len(out[d]) /\ out'[d][i] = out[d][i]
        \/ i = Len(out[d]) + 1 /\ out'[d][i] = <<line, 1>>
        \/ i = Len(out[d]) + 2 /\ out'[d][i] = <<line, 2>> /\ Room(d) >= 2
  <2> TAKE i \in 1..Len(out'[d])
  <2>1. \/ i \in 1..Len(out[d])
        \/ i = Len(out[d]) + 1
        \/ i = Len(out[d]) + 2 /\ Room(d) >= 2
    <3>1. /\ Len(out[d]) \in Nat
          /\ \/ Len(out'[d]) = Len(out[d]) + 1
             \/ Room(d) >= 2 /\ Len(out'[d]) = Len(out[d]) + 2
      BY <1>7
    <3> QED BY <3>1
  <2> QED BY <1>7, <2>1
<1>9. Numbers(d)' = Numbers(d) /\ Done(d)' = Done(d) /\ part'[d] = part[d] /\ got'[d] = got[d]
  BY <1>2 DEF Numbers, Begun, Done
<1>10. \A i \in 1..Len(out[d]) : out[d][i][1] \in Nat /\ out[d][i][2] \in {1, 2} /\ out[d][i][1] < line
  <2>1. \A i \in 1..Len(out[d]) : out[d][i][1] \in Nat /\ out[d][i][2] \in {1, 2}
    BY <1>1 DEF Typed
  <2>2. \A i \in 1..Len(out[d]) : out[d][i][1] <= Limit(d)
    BY DEF PipeInv, Ordered
  <2>3. \A a \in Nat : a <= Limit(d) => a < line
    BY <1>4, <1>5
  <2> QED BY <2>1, <2>2, <2>3
<1>11. ASSUME NEW j \in 1..Len(out[d])
       PROVE  Place(out[d][j]) \in Int /\ Place(out[d][j]) < line + line + 1
  <2>1. /\ out[d][j][1] \in Nat /\ out[d][j][2] \in {1, 2} /\ out[d][j][1] < line /\ line \in Nat
    BY <1>4, <1>10
  <2>2. \A a, b \in Nat, k \in {1, 2} : a < b => a + a + k < b + b + 1 /\ a + a + k \in Int
    OBVIOUS
  <2> QED BY <2>1, <2>2 DEF Place
<1>12. Ordered(d)'
  <2>1. \A l \in Numbers(d)' : l \in 1..Limit(d)'
    BY <1>5, <1>4, <1>9 DEF PipeInv, Ordered
  <2>2. part'[d] # Garbled => part'[d] <= Limit(d)' /\ part'[d] < line /\ part'[d] \in Nat
    BY <1>1, <1>4, <1>5, <1>9 DEF PipeInv, Ordered, Typed
  <2>3. part'[d] \notin {0, Garbled} => \A l \in Numbers(d)' : l < part'[d]
    BY <1>9 DEF PipeInv, Ordered
  <2>4. \A l \in Numbers(d)' : l \in Nat /\ l < line
    BY <1>1, <1>4, <1>5, <1>9 DEF PipeInv, Ordered, Typed
  <2>5. ASSUME NEW i \in 1..Len(out'[d])
        PROVE  /\ out'[d][i][1] <= Limit(d)'
               /\ \A l \in Numbers(d)' : l < out'[d][i][1]
               /\ part'[d] \notin {0, Garbled} => part'[d] + part'[d] + 1 < Place(out'[d][i])
               /\ \A j \in 1..Len(out'[d]) : j < i => Place(out'[d][j]) < Place(out'[d][i])
    <3>1. CASE i \in 1..Len(out[d]) /\ out'[d][i] = out[d][i]
      <4>1. out'[d][i][1] <= Limit(d)'
        BY <1>4, <1>5, <1>10, <3>1
      <4>2. \A j \in 1..Len(out'[d]) : j < i => j \in 1..Len(out[d]) /\ out'[d][j] = out[d][j]
        BY <1>7, <3>1
      <4>3. /\ \A l \in Numbers(d) : l < out[d][i][1]
            /\ part[d] \notin {0, Garbled} => part[d] + part[d] + 1 < Place(out[d][i])
            /\ \A j \in 1..Len(out[d]) : j < i => Place(out[d][j]) < Place(out[d][i])
        BY <3>1 DEF PipeInv, Ordered
      <4> QED BY <1>9, <3>1, <4>1, <4>2, <4>3
    <3>2. CASE i # Len(out[d]) + 2 /\ out'[d][i] = <<line, 1>> /\ i = Len(out[d]) + 1
      <4>1. Place(out'[d][i]) = line + line + 1
        BY <3>2 DEF Place
      <4>2. \A j \in 1..Len(out'[d]) : j < i => j \in 1..Len(out[d]) /\ out'[d][j] = out[d][j]
        BY <1>7, <3>2
      <4>3. \A j \in 1..Len(out[d]) : Place(out[d][j]) < line + line + 1
        BY <1>11
      <4>4. out'[d][i][1] <= Limit(d)' /\ \A l \in Numbers(d)' : l < out'[d][i][1]
        BY <1>4, <1>5, <2>4, <3>2
      <4>5. part'[d] \notin {0, Garbled} => part'[d] + part'[d] + 1 < Place(out'[d][i])
        BY <1>4, <2>2, <4>1
      <4>6. \A j \in 1..Len(out'[d]) : j < i => Place(out'[d][j]) < line + line + 1
        BY <4>2, <4>3
      <4> QED BY <4>1, <4>4, <4>5, <4>6
    <3>3. CASE i = Len(out[d]) + 2 /\ out'[d][i] = <<line, 2>>
      <4>1. Place(out'[d][i]) = line + line + 2
        BY <3>3 DEF Place
      <4>2. \A j \in 1..Len(out'[d]) :
              j < i => \/ j \in 1..Len(out[d]) /\ out'[d][j] = out[d][j]
                       \/ out'[d][j] = <<line, 1>>
        BY <1>7, <3>3
      <4>3. /\ \A j \in 1..Len(out[d]) : Place(out[d][j]) < line + line + 1
            /\ Place(<<line, 1>>) = line + line + 1
            /\ \A j \in 1..Len(out[d]) : Place(out[d][j]) \in Int
        <5>1. Place(<<line, 1>>) = line + line + 1
          BY DEF Place
        <5> QED BY <1>11, <5>1
      <4>4. out'[d][i][1] <= Limit(d)' /\ \A l \in Numbers(d)' : l < out'[d][i][1]
        BY <1>4, <1>5, <2>4, <3>3
      <4>5. part'[d] \notin {0, Garbled} => part'[d] + part'[d] + 1 < Place(out'[d][i])
        BY <1>4, <2>2, <4>1
      <4>6. \A j \in 1..Len(out'[d]) : j < i => Place(out'[d][j]) < line + line + 2
        <5>1. line \in Nat
          BY <1>4
        <5> QED BY <4>2, <4>3, <5>1
      <4> QED BY <4>1, <4>4, <4>5, <4>6
    <3> QED BY <1>7, <1>8, <3>1, <3>2, <3>3
  <2> QED BY <2>1, <2>2, <2>3, <2>5 DEF Ordered
<1>13. Contiguous(d)'
  <2> SUFFICES ASSUME whole'[d] PROVE Contiguous(d)'
    BY DEF Contiguous
  <2>1. /\ whole[d] /\ Room(d) >= 2
        /\ \A i \in 1..Len(got[d]) : got[d][i] = i
        /\ part[d] \in {0, Len(got[d]) + 1}
        /\ \A i \in 1..Len(out[d]) : Place(out[d][i]) = Done(d) + 2 + i
        /\ Limit(d) + Limit(d) = Done(d) + Len(out[d])
    BY <1>1, <1>2 DEF PipeInv, Contiguous, Typed
  <2>2. Len(out'[d]) = Len(out[d]) + 2
    BY <1>7, <2>1
  <2>3. Done(d) \in Int
    BY <1>1 DEF Typed, Begun, Done
  <2>4. PICK k \in Int : k = Done(d)
    BY <2>3
  <2>5. PICK o \in Nat : o = Len(out[d])
    BY <1>7
  <2>6. PICK w \in Nat : w = line
    BY <1>4
  <2>7. w + w = k + o + 2
    <3>1. (w - 1) + (w - 1) = k + o
      BY <1>5, <2>1, <2>4, <2>5, <2>6
    <3> QED BY <3>1
  <2>8. Limit(d)' + Limit(d)' = Done(d)' + Len(out'[d])
    <3>1. w + w = k + (o + 2)
      BY <2>7
    <3> QED BY <1>5, <1>9, <2>2, <2>4, <2>5, <2>6, <3>1
  <2>9. ASSUME NEW i \in 1..Len(out'[d])
        PROVE  Place(out'[d][i]) = Done(d)' + 2 + i
    <3>1. CASE i \in 1..Len(out[d]) /\ out'[d][i] = out[d][i]
      BY <1>9, <2>1, <3>1
    <3>2. CASE i = Len(out[d]) + 1 /\ out'[d][i] = <<line, 1>>
      <4>1. w + w + 1 = k + 2 + (o + 1)
        BY <2>7
      <4>2. Place(out'[d][i]) = line + line + 1
        BY <3>2 DEF Place
      <4> QED BY <1>9, <2>4, <2>5, <2>6, <3>2, <4>1, <4>2
    <3>3. CASE i = Len(out[d]) + 2 /\ out'[d][i] = <<line, 2>>
      <4>1. w + w + 2 = k + 2 + (o + 2)
        BY <2>7
      <4>2. Place(out'[d][i]) = line + line + 2
        BY <3>3 DEF Place
      <4> QED BY <1>9, <2>4, <2>5, <2>6, <3>3, <4>1, <4>2
    <3> QED BY <1>8, <3>1, <3>2, <3>3
  <2> QED BY <1>9, <2>1, <2>8, <2>9 DEF Contiguous
<1> QED BY <1>6, <1>12, <1>13 DEF PipeInv

LEMMA SendsKept ==
  ASSUME TypeOK, NEW d \in Dir, PipeInv(d), Sends(d)
  PROVE  PipeInv(d)'
<1>1. Typed(d)
  BY TypedDirection
<1>2. pc' = pc /\ line' = line /\ UNCHANGED Written(d) /\ d # "closed"
  BY DEF Sends, Written, Dir
<1>3. Limit(d) \in 0..sent[d] /\ sent[d] \in Nat /\ Len(inq[d]) \in Nat
  BY <1>1 DEF PipeInv, Input, Typed
<1>4. CASE /\ sent' = [sent EXCEPT ![d] = @ + 1]
           /\ inq' = [inq EXCEPT ![d] = IF pc = "closed" THEN @ ELSE Append(@, sent[d] + 1)]
  <2>1. sent'[d] = sent[d] + 1
    BY <1>4 DEF TypeOK
  <2>2. CASE pc = "closed"
    <3>1. Limit(d)' = sent[d] + 1 /\ Limit(d) = sent[d]
      BY <1>2, <2>1, <2>2 DEF Limit
    <3>2. Input(d)'
      BY <1>2, <1>3, <2>1, <2>2, <3>1 DEF Input
    <3> QED BY <1>1, <1>2, <1>3, <2>2, <3>1, <3>2, AheadKept DEF PipeInv
  <2>3. CASE pc # "closed"
    <3>1. inq'[d] = Append(inq[d], sent[d] + 1)
      BY <1>4, <2>3 DEF TypeOK
    <3>2. /\ Len(inq'[d]) = Len(inq[d]) + 1
          /\ \A i \in 1..Len(inq[d]) : inq'[d][i] = inq[d][i]
          /\ inq'[d][Len(inq[d]) + 1] = sent[d] + 1
          /\ inq'[d] # <<>>
      <4>1. inq[d] \in Seq(Int) /\ sent[d] + 1 \in Int
        BY <1>1 DEF Typed
      <4> HIDE DEF Typed
      <4>2. Len(inq'[d]) = Len(inq[d]) + 1 /\ Len(inq[d]) \in Nat
        BY <3>1, <4>1
      <4>3. inq'[d][Len(inq[d]) + 1] = sent[d] + 1
        BY <3>1, <4>1
      <4>4. \A i \in 1..Len(inq[d]) : inq'[d][i] = inq[d][i]
        BY <3>1, <4>1
      <4> QED BY <4>2, <4>3, <4>4
    <3>3. Blanks(d)' = Blanks(d)
      <4>1. CASE inq[d] = <<>>
        <5>1. Len(inq[d]) = 0
          BY <4>1
        <5> QED BY <1>3, <3>2, <4>1, <5>1 DEF Blanks, Blank, Binary
      <4>2. CASE inq[d] # <<>>
        <5>1. 1 \in 1..Len(inq[d])
          BY <1>1, <4>2, EmptySeq DEF Typed
        <5> QED BY <3>2, <4>2, <5>1 DEF Blanks
      <4> QED BY <4>1, <4>2
    <3>4. Taken(d)' = Taken(d)
      <4>1. Blanks(d) \in Int
        BY DEF Blanks
      <4>2. Len(inq'[d]) = Len(inq[d]) + 1 /\ Len(inq[d]) \in Int /\ sent[d] \in Int
        BY <1>3, <3>2
      <4>3. Taken(d)' = sent'[d] - Len(inq'[d]) + Blanks(d)'
        BY DEF Taken
      <4> HIDE DEF Taken
      <4>4. Taken(d) = sent[d] - Len(inq[d]) + Blanks(d)
        BY DEF Taken
      <4> QED BY <2>1, <3>3, <4>1, <4>2, <4>3, <4>4
    <3>5. Limit(d)' = Limit(d)
      BY <1>2, <2>3, <3>4 DEF Limit
    <3>6. Input(d)'
      <4>1. ASSUME NEW i \in 1..Len(inq'[d])
            PROVE  \/ inq'[d][i] = sent'[d] - Len(inq'[d]) + i
                   \/ i = 1 /\ inq'[d][i] \in {Blank, Binary}
        <5>1. CASE i \in 1..Len(inq[d])
          <6>1. \/ inq[d][i] = sent[d] - Len(inq[d]) + i
                \/ i = 1 /\ inq[d][i] \in {Blank, Binary}
            BY <2>3, <5>1 DEF PipeInv, Input
          <6>2. inq'[d][i] = inq[d][i] /\ sent'[d] - Len(inq'[d]) = sent[d] - Len(inq[d])
            BY <1>3, <2>1, <3>2, <5>1
          <6> QED BY <6>1, <6>2
        <5>2. CASE i = Len(inq[d]) + 1
          BY <1>3, <2>1, <3>2, <5>2
        <5> QED BY <1>3, <3>2, <5>1, <5>2
      <4>2. pc' = d => line' = Taken(d)'
        BY <1>2, <3>4 DEF PipeInv, Input
      <4>3. Limit(d)' \in 0..sent'[d]
        BY <1>3, <2>1, <3>5
      <4> QED BY <4>1, <4>2, <4>3 DEF Input
    <3> QED BY <1>1, <1>2, <1>3, <2>3, <3>5, <3>6, AheadKept DEF PipeInv
  <2> QED BY <2>2, <2>3
<1>5. CASE /\ pc # "closed" /\ inq[d] = <<>>
           /\ \E l \in {Blank, Binary} : inq' = [inq EXCEPT ![d] = Append(@, l)]
           /\ UNCHANGED sent
  <2>1. PICK l \in {Blank, Binary} : inq'[d] = Append(<<>>, l)
    BY <1>5 DEF TypeOK
  <2>2. Len(inq'[d]) = 1 /\ inq'[d][1] = l /\ inq'[d] # <<>> /\ Len(inq[d]) = 0
    BY <1>5, <2>1
  <2>3. Blanks(d)' = 1 /\ Blanks(d) = 0
    BY <1>5, <2>1, <2>2 DEF Blanks
  <2>4. Taken(d)' = Taken(d)
    BY <1>3, <1>5, <2>2, <2>3 DEF Taken
  <2>5. Limit(d)' = Limit(d)
    BY <1>2, <1>5, <2>4 DEF Limit
  <2>6. Input(d)'
    <3>1. \A i \in 1..Len(inq'[d]) : i = 1 /\ inq'[d][i] \in {Blank, Binary}
      BY <2>1, <2>2
    <3>2. sent'[d] = sent[d]
      BY <1>5
    <3> QED BY <1>2, <1>3, <2>4, <2>5, <3>1, <3>2 DEF PipeInv, Input
  <2> QED BY <1>1, <1>2, <1>3, <1>5, <2>5, <2>6, AheadKept DEF PipeInv
<1> QED BY <1>4, <1>5 DEF Sends

(***************************************************************************)
(* The sink takes a chunk: the rest of the line it holds, or something     *)
(* else, which it takes for that rest or begins with.                      *)
(***************************************************************************)
\* What the first chunk n of a socket and the state say of each other.
LEMMA Receiving ==
  ASSUME TypeOK, NEW d \in Dir, PipeInv(d), Receives(d)
  PROVE  /\ Typed(d) /\ Len(out[d]) > 0 /\ Len(out'[d]) = Len(out[d]) - 1
         /\ \A i \in 1..Len(out'[d]) : i + 1 \in 1..Len(out[d]) /\ out'[d][i] = out[d][i + 1]
         /\ Head(out[d]) = out[d][1] /\ Limit(d)' = Limit(d) /\ Input(d)' /\ pc' = pc
         /\ UNCHANGED <<sent[d], whole[d]>>
<1>1. Typed(d)
  BY TypedDirection
<1>2. out[d] # <<>> /\ out'[d] = Tail(out[d]) /\ UNCHANGED <<pc, line, inq, sent, whole>>
  BY DEF Receives, TypeOK
<1>3. out[d] \in Seq(Chunk) /\ Len(out[d]) \in Nat
  BY <1>1 DEF Typed
<1>4. /\ Len(out[d]) > 0 /\ Len(out'[d]) = Len(out[d]) - 1
      /\ \A i \in 1..Len(out'[d]) : out'[d][i] = out[d][i + 1]
  BY <1>2, <1>3, HeadTailProperties, EmptySeq
<1>5. \A i \in 1..Len(out'[d]) : i + 1 \in 1..Len(out[d])
  BY <1>3, <1>4
<1>6. Head(out[d]) = out[d][1]
  BY <1>2, <1>3
<1>7. Limit(d)' = Limit(d) /\ Taken(d)' = Taken(d)
  BY <1>2 DEF Limit, Taken, Blanks
<1>8. Input(d)'
  BY <1>2, <1>7 DEF PipeInv, Input
<1> QED BY <1>1, <1>2, <1>4, <1>5, <1>6, <1>7, <1>8

\* The sink begins a line with the chunk, or garbles the one it holds.
LEMMA BeginKept ==
  ASSUME TypeOK, NEW d \in Dir, PipeInv(d), Receives(d), out[d][1][2] # 2
  PROVE  PipeInv(d)'
<1> DEFINE n == out[d][1][1]
<1>1. /\ Typed(d) /\ Len(out[d]) > 0 /\ Len(out'[d]) = Len(out[d]) - 1
      /\ \A i \in 1..Len(out'[d]) : i + 1 \in 1..Len(out[d]) /\ out'[d][i] = out[d][i + 1]
      /\ Head(out[d]) = out[d][1] /\ Limit(d)' = Limit(d) /\ Input(d)' /\ pc' = pc
      /\ UNCHANGED <<sent[d], whole[d]>>
  BY Receiving
<1>2. 1 \in 1..Len(out[d]) /\ n \in Nat \ {0} /\ out[d][1][2] = 1
  <2>1. 1 \in 1..Len(out[d])
    BY <1>1 DEF Typed
  <2> QED BY <1>1, <2>1 DEF Typed
<1>3. got'[d] = got[d] /\ part'[d] = IF part[d] = 0 THEN n ELSE Garbled
  BY <1>1 DEF Receives, TypeOK
<1>4. Numbers(d)' = Numbers(d)
  BY <1>3 DEF Numbers
<1>5. /\ n <= Limit(d) /\ \A l \in Numbers(d) : l < n
      /\ \A i \in 1..Len(out[d]) : 1 < i => n + n + 1 < Place(out[d][i])
  <2>1. Place(out[d][1]) = n + n + 1
    BY <1>2 DEF Place
  <2>2. n <= Limit(d) /\ \A l \in Numbers(d) : l < n
    BY <1>2 DEF PipeInv, Ordered
  <2>3. \A i \in 1..Len(out[d]) : 1 < i => Place(out[d][1]) < Place(out[d][i])
    BY <1>2 DEF PipeInv, Ordered
  <2> QED BY <2>1, <2>2, <2>3
<1>6. Ordered(d)'
  <2>1. \A l \in Numbers(d)' : l \in 1..Limit(d)'
    BY <1>1, <1>4 DEF PipeInv, Ordered
  <2>2. part'[d] # Garbled => part'[d] <= Limit(d)'
    BY <1>1, <1>3, <1>5
  <2>3. part'[d] \notin {0, Garbled} => \A l \in Numbers(d)' : l < part'[d]
    BY <1>3, <1>4, <1>5
  <2>4. ASSUME NEW i \in 1..Len(out'[d])
        PROVE  /\ out'[d][i][1] <= Limit(d)'
               /\ \A l \in Numbers(d)' : l < out'[d][i][1]
               /\ part'[d] \notin {0, Garbled} => part'[d] + part'[d] + 1 < Place(out'[d][i])
               /\ \A j \in 1..Len(out'[d]) : j < i => Place(out'[d][j]) < Place(out'[d][i])
    <3>1. i + 1 \in 1..Len(out[d]) /\ out'[d][i] = out[d][i + 1] /\ 1 < i + 1
      BY <1>1
    <3>2. /\ out[d][i + 1][1] <= Limit(d) /\ \A l \in Numbers(d) : l < out[d][i + 1][1]
          /\ \A j \in 1..Len(out[d]) : j < i + 1 => Place(out[d][j]) < Place(out[d][i + 1])
      BY <3>1 DEF PipeInv, Ordered
    <3>3. \A j \in 1..Len(out'[d]) : j < i => Place(out'[d][j]) < Place(out'[d][i])
      <4> TAKE j \in 1..Len(out'[d])
      <4> HAVE j < i
      <4>1. j + 1 \in 1..Len(out[d]) /\ out'[d][j] = out[d][j + 1] /\ j + 1 < i + 1
        BY <1>1
      <4> QED BY <3>1, <3>2, <4>1
    <3>4. part'[d] \notin {0, Garbled} => part'[d] + part'[d] + 1 < Place(out'[d][i])
      BY <1>3, <1>5, <3>1
    <3> QED BY <1>1, <1>4, <3>1, <3>2, <3>3, <3>4
  <2> QED BY <2>1, <2>2, <2>3, <2>4 DEF Ordered
<1>7. Contiguous(d)'
  <2> SUFFICES ASSUME whole'[d] PROVE Contiguous(d)'
    BY DEF Contiguous
  <2>1. /\ \A i \in 1..Len(got[d]) : got[d][i] = i
        /\ part[d] \in {0, Len(got[d]) + 1}
        /\ \A i \in 1..Len(out[d]) :
             Place(out[d][i]) = Done(d) + 2 + i
        /\ pc # "closed" =>
             Limit(d) + Limit(d) = Done(d) + Len(out[d])
    BY <1>1 DEF PipeInv, Contiguous
  <2>2. n + n + 1 = Done(d) + 2 + 1
    <3>1. Place(out[d][1]) = n + n + 1
      BY <1>2 DEF Place
    <3> QED BY <1>2, <2>1, <3>1
  <2>3. PICK g \in Nat : g = Len(got[d])
    BY <1>1 DEF Typed
  <2>4. Begun(d) = 0 /\ n = g + 1
    <3>1. Done(d) = g + g + Begun(d) /\ Begun(d) \in 0..1
      BY <2>3 DEF Done, Begun
    <3>2. \A b \in 0..1 : n + n + 1 = g + g + b + 2 + 1 => b = 0 /\ n = g + 1
      BY <1>2
    <3> QED BY <2>2, <3>1, <3>2
  <2>5. part[d] = 0 /\ part'[d] = n /\ Len(got'[d]) = Len(got[d])
    BY <1>2, <1>3, <2>4 DEF Begun
  <2>6. Done(d) = g + g /\ Done(d)' = g + g + 1
    <3>1. Begun(d)' = 1
      BY <1>2, <2>5 DEF Begun
    <3> QED BY <2>3, <2>4, <2>5, <3>1 DEF Done
  <2>7. part'[d] \in {0, Len(got'[d]) + 1}
    BY <2>3, <2>4, <2>5
  <2>8. ASSUME NEW i \in 1..Len(out'[d])
        PROVE  Place(out'[d][i]) = Done(d)' + 2 + i
    <3>1. Place(out'[d][i]) = Done(d) + 2 + (i + 1)
      BY <1>1, <2>1
    <3>2. g + g + 2 + (i + 1) = g + g + 1 + 2 + i
      OBVIOUS
    <3> QED BY <2>6, <3>1, <3>2
  <2>9. pc' # "closed" => Limit(d)' + Limit(d)' = Done(d)' + Len(out'[d])
    <3>1. PICK o \in Nat : o = Len(out[d])
      BY <1>1 DEF Typed
    <3>2. g + g + o = g + g + 1 + (o - 1)
      OBVIOUS
    <3> QED BY <1>1, <2>1, <2>6, <3>1, <3>2
  <2> QED BY <1>3, <2>1, <2>5, <2>7, <2>8, <2>9 DEF Contiguous
<1> QED BY <1>1, <1>6, <1>7 DEF PipeInv

\* What comes out with the end of a line.
Out(d) == IF part[d] = out[d][1][1] THEN out[d][1][1] ELSE Garbled

LEMMA LineOut ==
  ASSUME TypeOK, NEW d \in Dir, PipeInv(d), Receives(d), out[d][1][2] = 2
  PROVE  /\ got'[d] = Append(got[d], Out(d)) /\ part'[d] = 0
         /\ Out(d) \in 1..sent[d] \cup {Garbled}
         /\ Out(d) # Garbled => /\ Out(d) <= Limit(d)
                                /\ Out(d) = out[d][1][1]
                                /\ \A l \in Numbers(d) : l < Out(d)
         /\ whole[d] => Out(d) = Len(got[d]) + 1 /\ part[d] = Out(d)
<1> DEFINE n == out[d][1][1]
<1>1. Typed(d) /\ Len(out[d]) > 0 /\ Head(out[d]) = out[d][1]
  BY Receiving
<1>2. 1 \in 1..Len(out[d])
  BY <1>1 DEF Typed
<1>3. n \in Nat \ {0} /\ sent[d] \in Nat /\ Limit(d) \in 0..sent[d]
  BY <1>1, <1>2 DEF Typed, PipeInv, Input
<1>4. got'[d] = Append(got[d], Out(d)) /\ part'[d] = 0
  BY <1>1 DEF Receives, TypeOK, Out
<1>5. n <= Limit(d) /\ \A l \in Numbers(d) : l < n
  BY <1>2 DEF PipeInv, Ordered
<1>6. n # Garbled
  BY <1>3, LineAssumption
<1>7. ASSUME whole[d] PROVE n = Len(got[d]) + 1 /\ part[d] = n
  <2>1. part[d] \in {0, Len(got[d]) + 1}
    BY <1>7 DEF PipeInv, Contiguous
  <2>2. Place(out[d][1]) = Done(d) + 2 + 1
    BY <1>2, <1>7 DEF PipeInv, Contiguous
  <2>3. Place(out[d][1]) = n + n + 2
    BY <1>3 DEF Place
  <2>4. PICK g \in Nat : g = Len(got[d])
    BY <1>1 DEF Typed
  <2>5. Begun(d) = 1 /\ n = Len(got[d]) + 1
    <3>1. Done(d) = g + g + Begun(d) /\ Begun(d) \in 0..1
      BY <2>4 DEF Done, Begun
    <3>2. \A b \in 0..1 : n + n + 2 = g + g + b + 2 + 1 => b = 1 /\ n = g + 1
      BY <1>3
    <3> QED BY <2>2, <2>3, <2>4, <3>1, <3>2
  <2> QED BY <2>1, <2>5 DEF Begun
<1>8. Out(d) \in 1..sent[d] \cup {Garbled}
  BY <1>3, <1>5 DEF Out
<1>9. Out(d) # Garbled => Out(d) = n
  BY DEF Out
<1>10. whole[d] => Out(d) = Len(got[d]) + 1 /\ part[d] = Out(d)
  BY <1>7 DEF Out
<1> QED BY <1>4, <1>5, <1>8, <1>9, <1>10

\* The sink ends a line with the chunk.
LEMMA EndKept ==
  ASSUME TypeOK, NEW d \in Dir, PipeInv(d), Receives(d), out[d][1][2] = 2
  PROVE  PipeInv(d)'
<1> DEFINE n == out[d][1][1]
<1>1. /\ Typed(d) /\ Len(out[d]) > 0 /\ Len(out'[d]) = Len(out[d]) - 1
      /\ \A i \in 1..Len(out'[d]) : i + 1 \in 1..Len(out[d]) /\ out'[d][i] = out[d][i + 1]
      /\ Limit(d)' = Limit(d) /\ Input(d)' /\ pc' = pc
      /\ UNCHANGED <<sent[d], whole[d]>>
  BY Receiving
<1>2. 1 \in 1..Len(out[d]) /\ n \in Nat \ {0} /\ Limit(d) \in Nat
  <2>1. 1 \in 1..Len(out[d])
    BY <1>1 DEF Typed
  <2> QED BY <1>1, <2>1 DEF Typed, PipeInv, Input
<1>3. /\ got'[d] = Append(got[d], Out(d)) /\ part'[d] = 0
      /\ Out(d) # Garbled => Out(d) <= Limit(d) /\ Out(d) = n
      /\ whole[d] => Out(d) = Len(got[d]) + 1 /\ part[d] = Out(d)
  BY LineOut
<1>4. /\ Out(d) \in Int /\ got[d] \in Seq(Int) /\ Len(got[d]) \in Nat
  BY <1>1, <1>2, LineAssumption DEF Typed, Out
<1>5. /\ Len(got'[d]) = Len(got[d]) + 1 /\ got'[d][Len(got[d]) + 1] = Out(d)
      /\ \A i \in 1..Len(got[d]) : got'[d][i] = got[d][i]
  BY <1>3, <1>4
<1>6. Numbers(d)' \subseteq Numbers(d) \cup ({Out(d)} \ {Garbled})
  <2> SUFFICES ASSUME NEW i \in 1..Len(got'[d]), got'[d][i] # Garbled
               PROVE  got'[d][i] \in Numbers(d) \cup ({Out(d)} \ {Garbled})
    BY DEF Numbers
  <2>1. i \in 1..Len(got[d]) \/ i = Len(got[d]) + 1
    BY <1>4, <1>5
  <2> QED BY <1>5, <2>1 DEF Numbers
<1>7. ASSUME NEW i \in 1..Len(out'[d])
      PROVE  /\ i + 1 \in 1..Len(out[d]) /\ 1 < i + 1 /\ out'[d][i] = out[d][i + 1]
             /\ out[d][i + 1][1] <= Limit(d)
             /\ \A l \in Numbers(d) : l < out[d][i + 1][1]
             /\ \A j \in 1..Len(out[d]) : j < i + 1 => Place(out[d][j]) < Place(out[d][i + 1])
  <2>1. i + 1 \in 1..Len(out[d]) /\ 1 < i + 1 /\ out'[d][i] = out[d][i + 1]
    BY <1>1
  <2> QED BY <2>1 DEF PipeInv, Ordered
<1>8. Ordered(d)'
  <2>1. \A l \in Numbers(d)' : l \in 1..Limit(d)'
    <3>1. \A l \in Numbers(d) : l \in 1..Limit(d)
      BY DEF PipeInv, Ordered
    <3> QED BY <1>1, <1>2, <1>3, <1>6, <3>1
  <2>2. part'[d] # Garbled => part'[d] <= Limit(d)'
    BY <1>1, <1>2, <1>3
  <2>3. ASSUME NEW i \in 1..Len(out'[d])
        PROVE  /\ out'[d][i][1] <= Limit(d)'
               /\ \A l \in Numbers(d)' : l < out'[d][i][1]
               /\ \A j \in 1..Len(out'[d]) : j < i => Place(out'[d][j]) < Place(out'[d][i])
    <3>1. n < out[d][i + 1][1]
      <4>1. Place(out[d][1]) < Place(out[d][i + 1])
        BY <1>2, <1>7
      <4>2. out[d][i + 1][1] \in Nat /\ out[d][i + 1][2] \in {1, 2}
        BY <1>1, <1>7 DEF Typed
      <4>3. n + n + 2 < out[d][i + 1][1] + out[d][i + 1][1] + out[d][i + 1][2]
        BY <4>1 DEF Place
      <4>4. \A a, b \in Nat, k \in {1, 2} : a + a + 2 < b + b + k => a < b
        OBVIOUS
      <4> QED BY <1>2, <4>2, <4>3, <4>4
    <3>2. \A l \in Numbers(d)' : l < out'[d][i][1]
      BY <1>3, <1>6, <1>7, <3>1
    <3>3. \A j \in 1..Len(out'[d]) : j < i => Place(out'[d][j]) < Place(out'[d][i])
      <4> TAKE j \in 1..Len(out'[d])
      <4> HAVE j < i
      <4>1. j + 1 \in 1..Len(out[d]) /\ out'[d][j] = out[d][j + 1] /\ j + 1 < i + 1
        BY <1>1
      <4> QED BY <1>7, <4>1
    <3> QED BY <1>1, <1>7, <3>2, <3>3
  <2> QED BY <1>3, <2>1, <2>2, <2>3 DEF Ordered
<1>9. Contiguous(d)'
  <2> SUFFICES ASSUME whole'[d] PROVE Contiguous(d)'
    BY DEF Contiguous
  <2>1. /\ \A i \in 1..Len(got[d]) : got[d][i] = i
        /\ \A i \in 1..Len(out[d]) :
             Place(out[d][i]) = Done(d) + 2 + i
        /\ pc # "closed" =>
             Limit(d) + Limit(d) = Done(d) + Len(out[d])
    BY <1>1 DEF PipeInv, Contiguous
  <2>2. Out(d) = Len(got[d]) + 1 /\ part[d] = Len(got[d]) + 1
    BY <1>1, <1>3
  <2>3. PICK g \in Nat : g = Len(got[d])
    BY <1>4
  <2>4. Done(d) = g + g + 1 /\ Done(d)' = g + g + 2
    <3>1. Begun(d) = 1 /\ Begun(d)' = 0
      BY <1>3, <1>4, <2>2 DEF Begun
    <3>2. Len(got'[d]) = g + 1
      BY <1>5, <2>3
    <3> QED BY <2>3, <3>1, <3>2 DEF Done
  <2>5. \A i \in 1..Len(got'[d]) : got'[d][i] = i
    <3> TAKE i \in 1..Len(got'[d])
    <3>1. i \in 1..Len(got[d]) \/ i = Len(got[d]) + 1
      BY <1>4, <1>5
    <3> QED BY <1>5, <2>1, <2>2, <3>1
  <2>6. ASSUME NEW i \in 1..Len(out'[d])
        PROVE  Place(out'[d][i]) = Done(d)' + 2 + i
    <3>1. Place(out'[d][i]) = Done(d) + 2 + (i + 1)
      BY <1>1, <2>1
    <3>2. g + g + 1 + 2 + (i + 1) = g + g + 2 + 2 + i
      OBVIOUS
    <3> QED BY <2>4, <3>1, <3>2
  <2>7. pc' # "closed" => Limit(d)' + Limit(d)' = Done(d)' + Len(out'[d])
    <3>1. PICK o \in Nat : o = Len(out[d])
      BY <1>1 DEF Typed
    <3>2. g + g + 1 + o = g + g + 2 + (o - 1)
      OBVIOUS
    <3> QED BY <1>1, <2>1, <2>4, <3>1, <3>2
  <2> QED BY <1>3, <2>5, <2>6, <2>7 DEF Contiguous
<1> QED BY <1>1, <1>8, <1>9 DEF PipeInv

(***************************************************************************)
(* The invariant is inductive.                                             *)
(***************************************************************************)
\* A step of one direction leaves the other's state alone.
LEMMA OtherKept ==
  ASSUME TypeOK, NEW d \in Dir, PipeInv(d), NEW e \in Dir \ {d},
         Read(e) \/ Write(e) \/ Sends(e) \/ Receives(e)
  PROVE  PipeInv(d)' /\ UNCHANGED <<sent[d], got[d], whole[d]>>
<1>1. Typed(d)
  BY TypedDirection
<1>2. UNCHANGED Written(d) /\ UNCHANGED <<inq[d], sent[d]>>
  <2>1. CASE Read(e)
    BY <2>1 DEF Read, peers, TypeOK, Written
  <2>2. CASE Write(e)
    BY <2>2 DEF Write, peers, TypeOK, Written
  <2>3. CASE Sends(e)
    BY <2>3 DEF Sends, TypeOK, Written
  <2>4. CASE Receives(e)
    BY <2>4 DEF Receives, TypeOK, Written
  <2> QED BY <2>1, <2>2, <2>3, <2>4
<1>3. /\ pc' = "closed" <=> pc = "closed"
      /\ pc' = d <=> pc = d
      /\ pc = d => line' = line
  <2>1. CASE Read(e)
    BY <2>1 DEF Read, Dir
  <2>2. CASE Write(e)
    BY <2>2 DEF Write, Dir
  <2>3. CASE Sends(e) \/ Receives(e)
    BY <2>3 DEF Sends, Receives
  <2> QED BY <2>1, <2>2, <2>3
<1> QED BY <1>1, <1>2, <1>3, ElsewhereKept DEF Written

LEMMA InvKept == Inv /\ [Next]_vars => Inv'
<1> SUFFICES ASSUME Inv, [Next]_vars, NEW d \in Dir PROVE PipeInv(d)'
  BY TypeKept DEF Inv
<1>1. TypeOK /\ PipeInv(d) /\ Typed(d)
  BY TypedDirection DEF Inv
<1>2. ASSUME Close, pc # "closed" PROVE PipeInv(d)'
  BY <1>1, <1>2, CloseKept
<1>3. CASE ConnectFails \/ IdleTimeout
  BY <1>2, <1>3 DEF ConnectFails, IdleTimeout
<1>4. CASE Connected
  <2>1. /\ UNCHANGED Written(d) /\ UNCHANGED <<inq[d], sent[d]>> /\ line' = line
        /\ pc = "accepted" /\ pc' = "select" /\ d # "accepted" /\ d # "select"
    BY <1>4 DEF Connected, peers, Written, Dir
  <2> QED BY <1>1, <2>1, ElsewhereKept
<1>5. ASSUME NEW e \in Dir, ReadBinary(e) \/ ReadEof(e) \/ WriteFails(e) PROVE PipeInv(d)'
  BY <1>2, <1>5 DEF ReadBinary, ReadEof, WriteFails, Dir
<1>6. ASSUME NEW e \in Dir, e # d, Read(e) \/ Write(e) \/ Sends(e) \/ Receives(e)
      PROVE  PipeInv(d)'
  BY <1>1, <1>6, OtherKept
<1>7. CASE Read(d)
  BY <1>1, <1>7, ReadKept
<1>8. CASE Write(d)
  BY <1>1, <1>8, WriteKept
<1>9. CASE Sends(d)
  BY <1>1, <1>9, SendsKept
<1>10. CASE Receives(d)
  <2>1. CASE out[d][1][2] = 2
    BY <1>1, <1>10, <2>1, EndKept
  <2>2. CASE out[d][1][2] # 2
    BY <1>1, <1>10, <2>2, BeginKept
  <2> QED BY <2>1, <2>2
<1>11. ASSUME (\E p \in Peer : HangsUp(p)) \/ UNCHANGED vars PROVE PipeInv(d)'
  <2>1. UNCHANGED Written(d) /\ UNCHANGED <<inq[d], sent[d], pc, line>>
    BY <1>11 DEF HangsUp, vars, Written
  <2> QED BY <1>1, <2>1, ElsewhereKept
<1> QED BY <1>3, <1>4, <1>5, <1>6, <1>7, <1>8, <1>9, <1>10, <1>11 DEF Next

(* The parts of a direction lie in the order of sending, without a gap       *)
(* while no write fell short.                                                *)
THEOREM LinesInOrder == Spec => []Inv
BY InvInitial, InvKept, PTL DEF Spec

(***************************************************************************)
(* Refinement: what a step does to sent, got and whole of a direction.     *)
(***************************************************************************)
LEMMA PipeStep ==
  ASSUME Inv, [Next]_vars, NEW d \in Dir
  PROVE  \/ sent'[d] = sent[d] + 1 /\ UNCHANGED <<got[d], whole[d]>>
         \/ \E l \in 1..sent[d] \cup {Garbled} :
              /\ whole[d] => l = Len(got[d]) + 1
              /\ l # Garbled => \A k \in Numbers(d) : k < l
              /\ got'[d] = Append(got[d], l)
              /\ UNCHANGED <<sent[d], whole[d]>>
         \/ whole[d] /\ whole'[d] = FALSE /\ UNCHANGED <<sent[d], got[d]>>
         \/ UNCHANGED <<sent[d], got[d], whole[d]>>
<1>1. TypeOK /\ PipeInv(d)
  BY DEF Inv
<1>2. CASE Connected \/ ConnectFails \/ IdleTimeout
  BY <1>2 DEF Connected, ConnectFails, IdleTimeout, Close, peers
<1>3. ASSUME NEW e \in Dir, ReadBinary(e) \/ ReadEof(e) \/ WriteFails(e) \/ Read(e)
      PROVE  UNCHANGED <<sent[d], got[d], whole[d]>>
  BY <1>3 DEF ReadBinary, ReadEof, WriteFails, Read, Close, peers
<1>4. ASSUME NEW e \in Dir, e # d, Write(e) \/ Sends(e) \/ Receives(e)
      PROVE  UNCHANGED <<sent[d], got[d], whole[d]>>
  BY <1>1, <1>4, OtherKept
<1>5. CASE Write(d)
  <2>1. UNCHANGED <<sent[d], got[d]>> /\ whole'[d] = (whole[d] /\ Room(d) >= 2)
    BY <1>1, <1>5 DEF Write, peers, TypeOK
  <2>2. whole[d] \in BOOLEAN
    BY <1>1 DEF TypeOK
  <2> QED BY <2>1, <2>2
<1>6. CASE Sends(d)
  BY <1>1, <1>6 DEF Sends, TypeOK
<1>7. CASE Receives(d)
  <2>1. Head(out[d]) = out[d][1] /\ UNCHANGED <<sent[d], whole[d]>>
    BY <1>1, <1>7, Receiving
  <2>2. CASE out[d][1][2] = 2
    <3>1. /\ got'[d] = Append(got[d], Out(d)) /\ Out(d) \in 1..sent[d] \cup {Garbled}
          /\ Out(d) # Garbled => \A k \in Numbers(d) : k < Out(d)
          /\ whole[d] => Out(d) = Len(got[d]) + 1
      BY <1>1, <1>7, <2>2, LineOut
    <3> QED BY <2>1, <3>1
  <2>3. CASE out[d][1][2] # 2
    <3>1. got'[d] = got[d]
      BY <1>7, <2>1, <2>3 DEF Receives
    <3> QED BY <2>1, <3>1
  <2> QED BY <2>2, <2>3
<1>8. CASE (\E p \in Peer : HangsUp(p)) \/ UNCHANGED vars
  BY <1>8 DEF HangsUp, vars
<1> QED BY <1>2, <1>3, <1>4, <1>5, <1>6, <1>7, <1>8 DEF Next

(* What the miner sends comes out at the pool as LinePipe says.              *)
LEMMA UpImplementsPipe == Spec => Up!Spec
<1>1. Init => Up!Init
  BY DEF Init, Up!Init, Dir
<1>2. Inv /\ [Next]_vars => [Up!Next]_<<sent["up"], got["up"], whole["up"]>>
  <2> SUFFICES ASSUME Inv, [Next]_vars
               PROVE  [Up!Next]_<<sent["up"], got["up"], whole["up"]>>
    OBVIOUS
  <2>1. "up" \in Dir
    BY DEF Dir
  <2>2. DOMAIN got["up"] = 1..Len(got["up"])
    BY <2>1, LenProperties DEF Inv, TypeOK
  <2>3. Numbers("up") = Up!Received
    BY <2>2 DEF Numbers, Up!Received
  <2> QED BY <2>1, <2>3, PipeStep DEF Up!Next, Up!Put, Up!Deliver, Up!FallShort
<1> QED BY <1>1, <1>2, LinesInOrder, PTL DEF Spec, Up!Spec

(* What the pool sends comes out at the miner as LinePipe says.              *)
LEMMA DownImplementsPipe == Spec => Down!Spec
<1>1. Init => Down!Init
  BY DEF Init, Down!Init, Dir
<1>2. Inv /\ [Next]_vars => [Down!Next]_<<sent["down"], got["down"], whole["down"]>>
  <2> SUFFICES ASSUME Inv, [Next]_vars
               PROVE  [Down!Next]_<<sent["down"], got["down"], whole["down"]>>
    OBVIOUS
  <2>1. "down" \in Dir
    BY DEF Dir
  <2>2. DOMAIN got["down"] = 1..Len(got["down"])
    BY <2>1, LenProperties DEF Inv, TypeOK
  <2>3. Numbers("down") = Down!Received
    BY <2>2 DEF Numbers, Down!Received
  <2> QED BY <2>1, <2>3, PipeStep DEF Down!Next, Down!Put, Down!Deliver, Down!FallShort
<1> QED BY <1>1, <1>2, LinesInOrder, PTL DEF Spec, Down!Spec

(* Each direction of a connection is a pipe of lines, whatever the other one *)
(* does, however small the sockets are, and however the connection ends.     *)
THEOREM ImplementsPipes == Spec => BothWaysArePipes
BY UpImplementsPipe, DownImplementsPipe, PTL DEF BothWaysArePipes
================================================================================
