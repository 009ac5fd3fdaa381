--------------------------- MODULE PoolConnectProofs ---------------------------
(* Proofs about PoolConnect: its safety properties for any number of         *)
(* sessions, fee tasks, worker threads and pools, and any address lists.     *)
EXTENDS PoolConnect, FiniteSetTheorems, WellFoundedInduction, TLAPS

LEMMA MinIsLeast ==
  ASSUME NEW S, S \subseteq Nat, S # {}
  PROVE  Min(S) \in S /\ \A j \in S : Min(S) <= j
<1>1. PICK i \in S : \A j \in S : ~(<<j, i>> \in OpToRel(<, Nat))
  BY NatLessThanWellFounded, WFMin
<1>2. \A j \in S : ~(j < i)
  BY <1>1 DEF OpToRel
<1>3. \A j \in S : i <= j
  BY <1>2
<1> QED BY <1>3 DEF Min

(***************************************************************************)
(* Type correctness.                                                       *)
(***************************************************************************)
Place == {"idle", "knocking", "ready", "dialling", "handshake", "login", "open", "gone"}

TypeInv ==
  /\ addr \in [Task -> Lists \cup FeeLists]
  /\ cond \in [Pool -> {"up", "refusing", "silent"}]
  /\ pc \in [Task -> Place]
  /\ at \in [Task -> Nat]
  /\ tried \in [Task -> SUBSET Pool]
  /\ stream \in [Task -> {"none", "tcp:", "ssl:"}]
  /\ inbox \in [Session -> BOOLEAN]
  /\ doing \in [Session -> Doing]
  /\ alive \in BOOLEAN

\* Where a task is in its list: what it dialled, and what it found there.
Knows(t) ==
  /\ pc[t] \in {"dialling", "handshake", "login", "open"} => Valid(addr[t]) /\ at[t] \in Named(addr[t])
  /\ pc[t] \in {"knocking", "ready"} => at[t] = 0 /\ tried[t] = {}
  /\ pc[t] \in {"dialling", "handshake"} =>
       tried[t] = {addr[t][i].url : i \in {k \in Named(addr[t]) : k < at[t]}}
  /\ pc[t] = "handshake" => TypeOf(addr[t]) = "ssl:"
  /\ pc[t] \in {"login", "open"} => stream[t] = TypeOf(addr[t])
Knowing == \A t \in Task : Knows(t)

LEMMA Entries ==
  ASSUME NEW list \in Lists \cup FeeLists
  PROVE  /\ list \in Seq(Entry) /\ Named(list) \subseteq Nat \ {0}
         /\ \A i \in Named(list) : list[i].url \in Pool
         /\ UrlSet(list) \subseteq Pool
         /\ Valid(list) => TypeOf(list) \in {"tcp:", "ssl:"}
<1>1. list \in Seq(Entry) /\ Len(list) \in Nat /\ DOMAIN list = 1..Len(list)
  BY ListAssumption
<1>2. \A i \in 1..Len(list) : list[i] \in Entry
  BY <1>1
<1>3. Named(list) \subseteq Nat \ {0}
  BY <1>1 DEF Named
<1>4. \A i \in Named(list) : list[i].url \in Pool
  BY <1>1, <1>2 DEF Named, Entry
<1>5. ASSUME Valid(list) PROVE TypeOf(list) \in {"tcp:", "ssl:"}
  <2>1. Len(list) \in 1..Len(list)
    BY <1>1, <1>5 DEF Valid
  <2>2. list[Len(list)].scheme \in Schemes /\ list[Len(list)].scheme # "other"
    BY <1>1, <1>2, <1>5, <2>1 DEF Valid, Entry
  <2> QED BY <2>2 DEF TypeOf, Schemes
<1> QED BY <1>1, <1>3, <1>4, <1>5 DEF UrlSet

\* The next entry of the list, or the end of the pass over it.
LEMMA NextEntry ==
  ASSUME TypeInv, NEW t \in Task, Valid(addr[t]), DialNext(t)
  PROVE  /\ pc' \in [Task -> Place] /\ at' \in [Task -> Nat] /\ alive' \in BOOLEAN
         /\ \A s \in Task : s # t => pc'[s] = pc[s] /\ at'[s] = at[s]
         /\ \/ /\ pc'[t] = "dialling" /\ at'[t] \in Named(addr[t])
               /\ {k \in Named(addr[t]) : k < at'[t]} = {k \in Named(addr[t]) : k <= at[t]}
            \/ /\ pc'[t] = IF t \in Fee THEN "gone" ELSE "idle"
               /\ {k \in Named(addr[t]) : k <= at[t]} = Named(addr[t])
<1>1. addr[t] \in Lists \cup FeeLists /\ at[t] \in Nat
  BY DEF TypeInv
<1>2. Named(addr[t]) \subseteq Nat \ {0}
  BY <1>1, Entries
<1>3. CASE Rest(t) # {}
  <2> DEFINE next == Min(Rest(t))
  <2>1. pc' = [pc EXCEPT ![t] = "dialling"] /\ at' = [at EXCEPT ![t] = next] /\ alive' = alive
    BY <1>3 DEF DialNext
  <2>2. next \in Rest(t) /\ \A j \in Rest(t) : next <= j
    BY <1>2, <1>3, MinIsLeast DEF Rest
  <2> HIDE DEF next
  <2>3. next \in Nat /\ next > at[t] /\ next \in Named(addr[t])
        /\ \A k \in Named(addr[t]) : k > at[t] => next <= k
    BY <1>2, <2>2 DEF Rest
  <2>4. {k \in Named(addr[t]) : k < next} = {k \in Named(addr[t]) : k <= at[t]}
    BY <1>1, <1>2, <2>3
  <2>5. at'[t] = next /\ pc'[t] = "dialling"
    BY <2>1 DEF TypeInv
  <2>6. pc' \in [Task -> Place] /\ at' \in [Task -> Nat] /\ alive' \in BOOLEAN
    BY <2>1, <2>3 DEF TypeInv, Place
  <2>7. \A s \in Task : s # t => pc'[s] = pc[s] /\ at'[s] = at[s]
    BY <2>1 DEF TypeInv
  <2> QED BY <2>3, <2>4, <2>5, <2>6, <2>7
<1>4. CASE Rest(t) = {}
  <2>1. pc' = [pc EXCEPT ![t] = IF t \in Fee THEN "gone" ELSE "idle"] /\ at' = at /\ alive' \in BOOLEAN
    BY <1>4 DEF DialNext, GiveUp
  <2>2. \A k \in Named(addr[t]) : k <= at[t]
    BY <1>1, <1>2, <1>4 DEF Rest
  <2>3. {k \in Named(addr[t]) : k <= at[t]} = Named(addr[t])
    BY <2>2
  <2> QED BY <2>1, <2>3 DEF TypeInv, Place
<1> QED BY <1>3, <1>4

(***************************************************************************)
(* The steps of one task leave what the others know.                       *)
(***************************************************************************)
Only(t) ==
  /\ UNCHANGED addr
  /\ \A s \in Task : s # t => /\ pc'[s] = pc[s] /\ at'[s] = at[s]
                              /\ tried'[s] = tried[s] /\ stream'[s] = stream[s]

LEMMA OthersKnow ==
  ASSUME Knowing, NEW t \in Task, Only(t), Knows(t)'
  PROVE  Knowing'
<1>1. ASSUME NEW s \in Task, s # t PROVE Knows(s)'
  BY <1>1 DEF Only, Knowing, Knows
<1> QED BY <1>1 DEF Knowing

\* An address that could not be used, and the step to the next.
Passes(t) == pc[t] \in {"ready", "dialling", "handshake"} /\ Valid(addr[t]) /\ DialNext(t)

LEMMA PassKnows ==
  ASSUME TypeInv, NEW t \in Task, Passes(t), UNCHANGED <<addr, stream>>,
         tried' \in [Task -> SUBSET Pool], \A s \in Task : s # t => tried'[s] = tried[s],
         tried'[t] = {addr[t][i].url : i \in {k \in Named(addr[t]) : k <= at[t]}}
  PROVE  /\ pc' \in [Task -> Place] /\ at' \in [Task -> Nat] /\ alive' \in BOOLEAN
         /\ Only(t) /\ Knows(t)'
         /\ pc'[t] \in {"idle", "gone"} => tried'[t] = UrlSet(addr[t])
<1>1. /\ pc' \in [Task -> Place] /\ at' \in [Task -> Nat] /\ alive' \in BOOLEAN
      /\ \A s \in Task : s # t => pc'[s] = pc[s] /\ at'[s] = at[s]
      /\ \/ /\ pc'[t] = "dialling" /\ at'[t] \in Named(addr[t])
            /\ {k \in Named(addr[t]) : k < at'[t]} = {k \in Named(addr[t]) : k <= at[t]}
         \/ /\ pc'[t] = IF t \in Fee THEN "gone" ELSE "idle"
            /\ {k \in Named(addr[t]) : k <= at[t]} = Named(addr[t])
  BY NextEntry DEF Passes
<1>2. Only(t)
  BY <1>1 DEF Only
<1>3. CASE /\ pc'[t] = "dialling" /\ at'[t] \in Named(addr[t])
           /\ {k \in Named(addr[t]) : k < at'[t]} = {k \in Named(addr[t]) : k <= at[t]}
  <2>1. tried'[t] = {addr[t][i].url : i \in {k \in Named(addr[t]) : k < at'[t]}}
    BY <1>3
  <2>2. Knows(t)'
    BY <1>3, <2>1 DEF Knows, Passes
  <2> QED BY <1>1, <1>2, <1>3, <2>2
<1>4. CASE /\ pc'[t] = IF t \in Fee THEN "gone" ELSE "idle"
           /\ {k \in Named(addr[t]) : k <= at[t]} = Named(addr[t])
  <2>1. tried'[t] = UrlSet(addr[t])
    BY <1>4 DEF UrlSet
  <2>2. Knows(t)'
    BY <1>4 DEF Knows
  <2> QED BY <1>1, <1>2, <1>4, <2>1, <2>2
<1> QED BY <1>1, <1>3, <1>4

\* The three steps that move on in the list.
LEMMA UntriedYet ==
  ASSUME TypeInv, Knowing, NEW t \in Task, pc[t] = "ready"
  PROVE  tried[t] = {addr[t][i].url : i \in {k \in Named(addr[t]) : k <= at[t]}}
<1>1. at[t] = 0 /\ tried[t] = {} /\ Named(addr[t]) \subseteq Nat \ {0}
  BY Entries DEF Knowing, Knows, TypeInv
<1>2. {k \in Named(addr[t]) : k <= at[t]} = {}
  BY <1>1
<1> QED BY <1>1, <1>2

LEMMA TriedNow ==
  ASSUME TypeInv, Knowing, NEW t \in Task, pc[t] \in {"dialling", "handshake"}
  PROVE  /\ Url(t) \in Pool
         /\ tried[t] \cup {Url(t)} = {addr[t][i].url : i \in {k \in Named(addr[t]) : k <= at[t]}}
<1>1. /\ at[t] \in Named(addr[t]) /\ addr[t] \in Lists \cup FeeLists
      /\ tried[t] = {addr[t][i].url : i \in {k \in Named(addr[t]) : k < at[t]}}
  BY DEF Knowing, Knows, TypeInv
<1>2. Named(addr[t]) \subseteq Nat \ {0} /\ Url(t) \in Pool
  BY <1>1, Entries DEF Url
<1>3. {k \in Named(addr[t]) : k <= at[t]} = {k \in Named(addr[t]) : k < at[t]} \cup {at[t]}
  BY <1>1, <1>2
<1> QED BY <1>1, <1>2, <1>3 DEF Url

Moves(t) == Dial(t) \/ Unreached(t) \/ HandshakeFails(t)

LEMMA MoveKept ==
  ASSUME TypeInv, Knowing, NEW t \in Task, Moves(t)
  PROVE  /\ TypeInv' /\ Knowing' /\ Only(t)
         /\ pc'[t] \in {"idle", "gone"} => ~Valid(addr[t]) \/ tried'[t] = UrlSet(addr[t])
<1>1. CASE ~Valid(addr[t])
  <2>1. Dial(t)
    BY <1>1 DEF Moves, Unreached, HandshakeFails, Knowing, Knows
  <2>2. /\ pc' = [pc EXCEPT ![t] = IF t \in Fee THEN "gone" ELSE "idle"] /\ at' = at /\ alive' \in BOOLEAN
        /\ UNCHANGED <<addr, cond, tried, stream, inbox, doing>>
    BY <1>1, <2>1 DEF Dial, GiveUp
  <2>3. TypeInv' /\ Only(t) /\ pc'[t] \in {"gone", "idle"}
    BY <2>2 DEF TypeInv, Only, Place
  <2>4. Knows(t)'
    BY <2>3 DEF Knows
  <2> QED BY <1>1, <2>3, <2>4, OthersKnow
<1>2. CASE Valid(addr[t])
  <2>1. /\ Passes(t) /\ UNCHANGED <<addr, cond, stream, inbox, doing>>
        /\ tried' \in [Task -> SUBSET Pool] /\ \A s \in Task : s # t => tried'[s] = tried[s]
        /\ tried'[t] = {addr[t][i].url : i \in {k \in Named(addr[t]) : k <= at[t]}}
    <3>1. CASE Dial(t)
      <4>1. pc[t] = "ready" /\ Passes(t) /\ UNCHANGED <<addr, cond, tried, stream, inbox, doing>>
        BY <1>2, <3>1 DEF Dial, Passes
      <4> QED BY <4>1, UntriedYet DEF TypeInv
    <3>2. CASE Unreached(t) \/ HandshakeFails(t)
      <4>1. /\ pc[t] \in {"dialling", "handshake"} /\ Passes(t) /\ UNCHANGED <<addr, cond, stream, inbox, doing>>
            /\ tried' = [tried EXCEPT ![t] = @ \cup {Url(t)}]
        BY <1>2, <3>2 DEF Unreached, HandshakeFails, Passes
      <4>2. /\ tried' \in [Task -> SUBSET Pool] /\ tried'[t] = tried[t] \cup {Url(t)}
            /\ \A s \in Task : s # t => tried'[s] = tried[s]
        BY <4>1, TriedNow DEF TypeInv
      <4> QED BY <4>1, <4>2, TriedNow
    <3> QED BY <3>1, <3>2 DEF Moves
  <2>2. /\ pc' \in [Task -> Place] /\ at' \in [Task -> Nat] /\ alive' \in BOOLEAN
        /\ Only(t) /\ Knows(t)' /\ (pc'[t] \in {"idle", "gone"} => tried'[t] = UrlSet(addr[t]))
    BY <2>1, PassKnows
  <2>3. TypeInv'
    BY <2>1, <2>2 DEF TypeInv
  <2> QED BY <2>2, <2>3, OthersKnow
<1> QED BY <1>1, <1>2

(***************************************************************************)
(* The other steps.                                                        *)
(***************************************************************************)
LEMMA OpenedKept ==
  ASSUME TypeInv, Knowing, NEW t \in Task, Connected(t) \/ Handshaken(t)
  PROVE  TypeInv' /\ Knowing' /\ Only(t) /\ pc'[t] \in {"handshake", "login", "open"}
<1>1. /\ Valid(addr[t]) /\ at[t] \in Named(addr[t]) /\ addr[t] \in Lists \cup FeeLists
      /\ pc[t] = "dialling" => tried[t] = {addr[t][i].url : i \in {k \in Named(addr[t]) : k < at[t]}}
  BY DEF Connected, Handshaken, Knowing, Knows, TypeInv
<1>2. CASE Opened(t)
  <2>1. /\ pc' = [pc EXCEPT ![t] = IF t \in Fee THEN "login" ELSE "open"]
        /\ stream' = [stream EXCEPT ![t] = TypeOf(addr[t])]
        /\ UNCHANGED <<addr, cond, at, tried, inbox, doing, alive>>
    BY <1>2 DEF Opened, Connected, Handshaken
  <2>2. TypeOf(addr[t]) \in {"tcp:", "ssl:"}
    BY <1>1, Entries
  <2>3. TypeInv' /\ Only(t) /\ pc'[t] \in {"login", "open"} /\ stream'[t] = TypeOf(addr[t])
    BY <2>1, <2>2 DEF TypeInv, Only, Place
  <2>4. Knows(t)'
    BY <1>1, <2>1, <2>3 DEF Knows
  <2> QED BY <2>3, <2>4, OthersKnow
<1>3. CASE ~Opened(t)
  <2>1. /\ pc' = [pc EXCEPT ![t] = "handshake"] /\ TypeOf(addr[t]) = "ssl:" /\ pc[t] = "dialling"
        /\ UNCHANGED <<addr, cond, at, tried, stream, inbox, doing, alive>>
    BY <1>3 DEF Connected, Handshaken
  <2>2. TypeInv' /\ Only(t) /\ pc'[t] = "handshake"
    BY <2>1 DEF TypeInv, Only, Place
  <2>3. Knows(t)'
    BY <1>1, <2>1, <2>2 DEF Knows
  <2> QED BY <2>2, <2>3, OthersKnow
<1> QED BY <1>2, <1>3


Serves(s) == MinerSends(s) \/ Take(s) \/ TakePoolLine(s) \/ PeersGoOn(s) \/ Finish(s)
SessionStep(s) == Knock(s) \/ Accept(s) \/ Serves(s) \/ HangUp(s)
FeeStep(f) == LoginWritten(f) \/ LoginFails(f) \/ FeePoolCloses(f)
Quiet == \/ \E s \in Session : SessionStep(s)
         \/ \E f \in Fee : FeeStep(f)
         \/ \E p \in Pool : PoolChanges(p)
         \/ UNCHANGED vars

LEMMA QuietTyped == ASSUME TypeInv, Quiet PROVE TypeInv'
<1>1. Session \subseteq Task /\ Fee \subseteq Task
  BY DEF Task
<1>2. ASSUME NEW s \in Session, SessionStep(s) PROVE TypeInv'
  <2>1. CASE Knock(s)
    BY <1>1, <2>1 DEF Knock, TypeInv, Place
  <2>2. CASE Accept(s)
    BY <1>1, <2>2 DEF Accept, TypeInv, Place
  <2>3. CASE Serves(s)
    <3>1. UNCHANGED <<addr, cond, pc, at, tried, stream, alive>>
      BY <2>3 DEF Serves, MinerSends, Take, TakePoolLine, PeersGoOn, Finish
    <3>2. inbox' \in [Session -> BOOLEAN]
      BY <2>3 DEF Serves, MinerSends, Take, TakePoolLine, PeersGoOn, Finish, TypeInv
    <3>3. doing' \in [Session -> Doing]
      <4>1. CASE MinerSends(s)
        BY <4>1 DEF MinerSends, TypeInv
      <4>2. CASE Take(s) \/ TakePoolLine(s)
        BY <4>2 DEF Take, TakePoolLine, TypeInv, Doing
      <4>3. CASE PeersGoOn(s)
        BY <4>3 DEF PeersGoOn, TypeInv, Doing
      <4>4. CASE Finish(s)
        BY <4>4 DEF Finish, TypeInv, Doing
      <4> QED BY <2>3, <4>1, <4>2, <4>3, <4>4 DEF Serves
    <3> QED BY <3>1, <3>2, <3>3 DEF TypeInv
  <2>4. CASE HangUp(s)
    <3>1. doing' \in [Session -> Doing]
      BY <2>4 DEF HangUp, TypeInv, Doing
    <3> QED BY <1>1, <2>4, <3>1 DEF HangUp, TypeInv, Place
  <2> QED BY <1>2, <2>1, <2>2, <2>3, <2>4 DEF SessionStep
<1>3. ASSUME NEW f \in Fee, FeeStep(f) PROVE TypeInv'
  <2>1. CASE LoginWritten(f)
    BY <1>1, <2>1 DEF LoginWritten, TypeInv, Place
  <2>2. CASE LoginFails(f)
    BY <1>1, <2>2 DEF LoginFails, GiveUp, TypeInv, Place
  <2>3. CASE FeePoolCloses(f)
    BY <1>1, <2>3 DEF FeePoolCloses, TypeInv, Place
  <2> QED BY <1>3, <2>1, <2>2, <2>3 DEF FeeStep
<1>4. ASSUME NEW p \in Pool, PoolChanges(p) PROVE TypeInv'
  BY <1>4 DEF PoolChanges, TypeInv
<1>5. CASE UNCHANGED vars
  BY <1>5 DEF vars, TypeInv
<1> QED BY <1>2, <1>3, <1>4, <1>5 DEF Quiet

LEMMA QuietKnows == ASSUME TypeInv, Knowing, Quiet PROVE Knowing'
<1>1. Session \subseteq Task /\ Fee \subseteq Task
  BY DEF Task
<1>2. CASE UNCHANGED <<addr, pc, at, tried, stream>>
  BY <1>2 DEF Knowing, Knows
<1>3. ASSUME NEW s \in Session, SessionStep(s) PROVE Knowing'
  <2>1. CASE Knock(s)
    <3>1. Only(s) /\ pc'[s] = "knocking" /\ at'[s] = 0 /\ tried'[s] = {}
      BY <1>1, <2>1 DEF Knock, TypeInv, Only
    <3>2. Knows(s)'
      BY <3>1 DEF Knows
    <3> QED BY <1>1, <3>1, <3>2, OthersKnow
  <2>2. CASE Accept(s)
    <3>1. Only(s) /\ pc'[s] = "ready" /\ UNCHANGED <<at, tried>> /\ pc[s] = "knocking"
      BY <1>1, <2>2 DEF Accept, TypeInv, Only
    <3>2. at[s] = 0 /\ tried[s] = {}
      BY <1>1, <3>1 DEF Knowing, Knows
    <3>3. Knows(s)'
      BY <3>1, <3>2 DEF Knows
    <3> QED BY <1>1, <3>1, <3>3, OthersKnow
  <2>3. CASE Serves(s)
    BY <1>2, <2>3 DEF Serves, MinerSends, Take, TakePoolLine, PeersGoOn, Finish
  <2>4. CASE HangUp(s)
    <3>1. Only(s) /\ pc'[s] = "idle"
      BY <1>1, <2>4 DEF HangUp, TypeInv, Only
    <3>2. Knows(s)'
      BY <3>1 DEF Knows
    <3> QED BY <1>1, <3>1, <3>2, OthersKnow
  <2> QED BY <1>3, <2>1, <2>2, <2>3, <2>4 DEF SessionStep
<1>4. ASSUME NEW f \in Fee, FeeStep(f) PROVE Knowing'
  <2>1. CASE LoginWritten(f)
    <3>1. Only(f) /\ pc'[f] = "open" /\ UNCHANGED <<addr, at, stream>> /\ pc[f] = "login"
      BY <1>1, <2>1 DEF LoginWritten, TypeInv, Only
    <3>2. Valid(addr[f]) /\ at[f] \in Named(addr[f]) /\ stream[f] = TypeOf(addr[f])
      BY <1>1, <3>1 DEF Knowing, Knows
    <3>3. Knows(f)'
      BY <3>1, <3>2 DEF Knows
    <3> QED BY <1>1, <3>1, <3>3, OthersKnow
  <2>2. CASE LoginFails(f)
    <3>1. Only(f) /\ pc'[f] = "gone"
      BY <1>1, <2>2 DEF LoginFails, GiveUp, TypeInv, Only
    <3>2. Knows(f)'
      BY <3>1 DEF Knows
    <3> QED BY <1>1, <3>1, <3>2, OthersKnow
  <2>3. CASE FeePoolCloses(f)
    <3>1. Only(f) /\ pc'[f] = "ready" /\ at'[f] = 0 /\ tried'[f] = {}
      BY <1>1, <2>3 DEF FeePoolCloses, TypeInv, Only
    <3>2. Knows(f)'
      BY <3>1 DEF Knows
    <3> QED BY <1>1, <3>1, <3>2, OthersKnow
  <2> QED BY <1>4, <2>1, <2>2, <2>3 DEF FeeStep
<1>5. ASSUME NEW p \in Pool, PoolChanges(p) PROVE Knowing'
  BY <1>2, <1>5 DEF PoolChanges
<1>6. CASE UNCHANGED vars
  BY <1>2, <1>6 DEF vars
<1> QED BY <1>3, <1>4, <1>5, <1>6 DEF Quiet

LEMMA Steps ==
  ASSUME [Next]_vars
  PROVE  Quiet \/ \E t \in Task : Moves(t) \/ Connected(t) \/ Handshaken(t)
BY DEF Next, Quiet, SessionStep, Serves, FeeStep, Moves

LEMMA KnowingKept == TypeInv /\ Knowing /\ [Next]_vars => TypeInv' /\ Knowing'
BY Steps, QuietTyped, QuietKnows, MoveKept, OpenedKept

LEMMA KnowingInitial == Init => TypeInv /\ Knowing
<1> SUFFICES ASSUME Init PROVE TypeInv /\ Knowing
  OBVIOUS
<1>1. Fee \subseteq Task /\ \A t \in Task : t \in Fee \/ t \in Session
  BY DEF Task
<1>2. PICK list \in Lists, share \in [Fee -> FeeLists] :
        /\ addr = [t \in Task |-> IF t \in Fee THEN share[t] ELSE list]
        /\ \E used \in [Fee -> UNION {Named(share[f]) : f \in Fee}] :
             /\ \A f \in Fee : used[f] \in Named(share[f])
             /\ at = [t \in Task |-> IF t \in Fee THEN used[t] ELSE 0]
  BY DEF Init
<1>3. PICK used \in [Fee -> UNION {Named(share[f]) : f \in Fee}] :
        /\ \A f \in Fee : used[f] \in Named(share[f])
        /\ at = [t \in Task |-> IF t \in Fee THEN used[t] ELSE 0]
  BY <1>2
<1>4. addr \in [Task -> Lists \cup FeeLists]
  BY <1>2
<1>5. \A f \in Fee : at[f] \in Named(addr[f]) /\ at[f] \in Nat /\ Valid(addr[f])
                     /\ TypeOf(addr[f]) \in {"tcp:", "ssl:"}
  <2>1. SUFFICES ASSUME NEW f \in Fee
                 PROVE  at[f] \in Named(addr[f]) /\ at[f] \in Nat /\ Valid(addr[f])
                        /\ TypeOf(addr[f]) \in {"tcp:", "ssl:"}
    OBVIOUS
  <2>2. at[f] \in Named(addr[f]) /\ addr[f] \in FeeLists
    BY <1>1, <1>2, <1>3, <2>1
  <2> QED BY <2>2, Entries, FeeListAssumption
<1>6. at \in [Task -> Nat]
  BY <1>1, <1>3, <1>5
<1>7. /\ pc = [t \in Task |-> IF t \in Fee THEN "open" ELSE "idle"]
      /\ stream = [t \in Task |-> IF t \in Fee THEN TypeOf(addr[t]) ELSE "none"]
      /\ tried = [t \in Task |-> {}]
  BY DEF Init
<1>8. TypeInv
  <2>1. pc \in [Task -> Place]
    BY <1>7 DEF Place
  <2>2. stream \in [Task -> {"none", "tcp:", "ssl:"}]
    BY <1>5, <1>7
  <2>3. tried \in [Task -> SUBSET Pool]
    BY <1>7
  <2>4. doing \in [Session -> Doing]
    BY DEF Init, Doing
  <2> QED BY <1>4, <1>6, <2>1, <2>2, <2>3, <2>4 DEF Init, TypeInv
<1>9. ASSUME NEW t \in Task PROVE Knows(t)
  <2>1. CASE t \in Fee
    <3>1. pc[t] = "open" /\ stream[t] = TypeOf(addr[t])
      BY <1>7, <2>1
    <3> QED BY <1>5, <2>1, <3>1 DEF Knows
  <2>2. CASE t \notin Fee
    <3>1. pc[t] = "idle"
      BY <1>7, <2>2
    <3> QED BY <3>1 DEF Knows
  <2> QED BY <2>1, <2>2
<1> QED BY <1>8, <1>9 DEF Knowing

LEMMA KnowingHolds == Spec => [](TypeInv /\ Knowing)
BY KnowingInitial, KnowingKept, PTL DEF Spec

(***************************************************************************)
(* Threads: a task enters a blocking connect only on a thread of its own.  *)
(***************************************************************************)
AtMost(S, k) == IsFiniteSet(S) /\ Cardinality(S) <= k
Threads == AtMost(Dialling \cap Session, Workers) /\ AtMost(Dialling \cap Fee, 1)

LEMMA Fewer ==
  ASSUME NEW S, NEW k \in Nat, AtMost(S, k), NEW T, T \subseteq S
  PROVE  AtMost(T, k)
<1>1. IsFiniteSet(T) /\ Cardinality(T) <= Cardinality(S)
  BY FS_Subset DEF AtMost
<1>2. Cardinality(S) \in Nat /\ Cardinality(T) \in Nat /\ Cardinality(S) <= k
  BY <1>1, FS_CardinalityType DEF AtMost
<1> QED BY <1>1, <1>2 DEF AtMost

LEMMA ThreadsKept ==
  ASSUME TypeInv, Knowing, Threads, [Next]_vars PROVE Threads'
<1> DEFINE S == Dialling \cap Session
           F == Dialling \cap Fee
<1>1. Workers \in Nat /\ 1 \in Nat /\ AtMost(S, Workers) /\ AtMost(F, 1)
  BY ThreadAssumption DEF Threads
<1>2. CASE Dialling' \subseteq Dialling
  <2>1. AtMost(Dialling' \cap Session, Workers) /\ AtMost(Dialling' \cap Fee, 1)
    BY <1>1, <1>2, Fewer
  <2> QED BY <2>1 DEF Threads, AtMost
<1>3. ASSUME NEW t \in Task, Moves(t) PROVE Threads'
  <2>1. Dialling' \subseteq Dialling \cup {t}
    BY <1>3, MoveKept DEF Only, Dialling
  <2>2. CASE Unreached(t)
    BY <1>2, <2>1, <2>2 DEF Unreached, Dialling
  <2>3. CASE HasThread(t)
    <3>1. CASE t \in Fee
      <4>1. Dialling' \cap Session \subseteq S /\ Dialling' \cap Fee \subseteq {t}
        BY <2>1, <2>3, <3>1, TaskAssumption DEF HasThread, MainFree
      <4>0. IsFiniteSet({t}) /\ Cardinality({t}) = 1
        BY FS_Singleton, Zenon
      <4>2. AtMost({t}, 1)
        BY <4>0 DEF AtMost
      <4>3. AtMost(Dialling' \cap Session, Workers) /\ AtMost(Dialling' \cap Fee, 1)
        BY <1>1, <4>1, <4>2, Fewer
      <4> QED BY <4>3 DEF Threads, AtMost
    <3>2. CASE t \notin Fee
      <4>1. Dialling' \cap Session \subseteq S \cup {t} /\ Dialling' \cap Fee \subseteq F
        BY <2>1, <3>2
      <4>2. IsFiniteSet(S) /\ Cardinality(S) \in Nat /\ Cardinality(S) < Workers
        BY <1>1, <2>3, <3>2, FS_CardinalityType DEF HasThread, AtMost
      <4>3. IsFiniteSet(S \cup {t}) /\ Cardinality(S \cup {t}) \in {Cardinality(S), Cardinality(S) + 1}
        BY <4>2, FS_AddElement
      <4>4. AtMost(S \cup {t}, Workers)
        BY <1>1, <4>2, <4>3 DEF AtMost
      <4>5. AtMost(Dialling' \cap Session, Workers) /\ AtMost(Dialling' \cap Fee, 1)
        BY <1>1, <4>1, <4>4, Fewer
      <4> QED BY <4>5 DEF Threads, AtMost
    <3> QED BY <3>1, <3>2
  <2> QED BY <1>3, <2>2, <2>3 DEF Moves, Dial, HandshakeFails
<1>4. ASSUME NEW t \in Task, Connected(t) \/ Handshaken(t) PROVE Dialling' \subseteq Dialling
  BY <1>4, OpenedKept DEF Only, Dialling
<1>5. CASE Quiet
  <2>1. Session \subseteq Task /\ Fee \subseteq Task
    BY DEF Task
  <2>2. CASE UNCHANGED pc
    BY <1>2, <2>2 DEF Dialling
  <2>3. ASSUME NEW s \in Session, SessionStep(s) PROVE Dialling' \subseteq Dialling
    BY <2>1, <2>3 DEF SessionStep, Knock, Accept, Serves, MinerSends, Take, TakePoolLine,
         PeersGoOn, Finish, HangUp, Dialling, TypeInv
  <2>4. ASSUME NEW f \in Fee, FeeStep(f) PROVE Dialling' \subseteq Dialling
    BY <2>1, <2>4 DEF FeeStep, LoginWritten, LoginFails, GiveUp, FeePoolCloses, Dialling, TypeInv
  <2> QED BY <1>2, <1>5, <2>2, <2>3, <2>4 DEF Quiet, PoolChanges, vars
<1> QED BY <1>2, <1>3, <1>4, <1>5, Steps

\* TypeOK: whatever pools do, no more sessions are inside a blocking connect than
\* there are worker threads, and one fee task at most.
THEOREM TypeCorrect == Spec => []TypeOK
<1>1. Init => Threads
  <2>1. SUFFICES ASSUME Init PROVE Threads
    OBVIOUS
  <2>2. \A t \in Task : pc[t] # "dialling"
    BY <2>1 DEF Init
  <2>3. Dialling \cap Session = {} /\ Dialling \cap Fee = {}
    BY <2>2 DEF Dialling
  <2> QED BY <2>3, FS_EmptySet, ThreadAssumption DEF Threads, AtMost
<1>2. TypeInv /\ Knowing /\ Threads /\ [Next]_vars => Threads'
  BY ThreadsKept
<1>3. TypeInv /\ Threads => TypeOK
  BY DEF TypeInv, Threads, AtMost, TypeOK, Place
<1> QED BY <1>1, <1>2, <1>3, KnowingHolds, PTL DEF Spec

\* StreamIsUnderstood: with a list of one scheme that is honest, no number of
\* failed addresses leaves a task with a stream its pool does not understand.
THEOREM StreamsMatch == Spec => []StreamIsUnderstood
<1>1. ASSUME NEW list \in Lists \cup FeeLists, NEW i \in Named(list), Valid(list), Honest(list), Uniform(list)
      PROVE  TypeOf(list) = "ssl:" <=> list[i].url \in TlsPool
  <2>1. list \in Seq(Entry) /\ list # <<>>
    BY <1>1, Entries DEF Valid
  <2>2. Len(list) \in DOMAIN list /\ i \in DOMAIN list /\ list[i].url # NoUrl
    BY <1>1, <2>1 DEF Named
  <2>3. list[Len(list)].scheme = list[i].scheme
    BY <1>1, <2>2 DEF Uniform
  <2> QED BY <1>1, <2>2, <2>3 DEF Honest, TypeOf
<1>2. ASSUME TypeInv, Knowing PROVE StreamIsUnderstood
  <2>1. ASSUME NEW t \in Task, pc[t] \in {"login", "open"}, Valid(addr[t]), Honest(addr[t]), Uniform(addr[t])
        PROVE  stream[t] = "ssl:" <=> Url(t) \in TlsPool
    <3>1. /\ addr[t] \in Lists \cup FeeLists /\ at[t] \in Named(addr[t])
          /\ stream[t] = TypeOf(addr[t])
      BY <1>2, <2>1 DEF Knowing, Knows, TypeInv
    <3> QED BY <1>1, <2>1, <3>1 DEF Url
  <2> QED BY <2>1 DEF StreamIsUnderstood
<1> QED BY <1>2, KnowingHolds, PTL

\* GivesUpOnlyAfterAll: neither a session nor a fee task ends its search while an
\* address of a valid list has not been tried in this pass over it.
THEOREM SearchIsExhaustive == Spec => GivesUpOnlyAfterAll
<1> DEFINE GaveUp(t) == pc[t] \in {"ready", "dialling", "handshake"} /\ pc'[t] \in {"idle", "gone"}
           Tried(t) == ~Valid(addr[t]) \/ tried'[t] = UrlSet(addr[t])
<1>1. ASSUME TypeInv, Knowing, [Next]_vars, NEW t \in Task, GaveUp(t) PROVE Tried(t)
  <2>1. CASE Quiet
    <3>1. Session \subseteq Task /\ Fee \subseteq Task
      BY DEF Task
    <3>2. ASSUME NEW s \in Session, SessionStep(s) PROVE FALSE
      BY <1>1, <3>1, <3>2 DEF SessionStep, Knock, Accept, Serves, MinerSends, Take, TakePoolLine,
         PeersGoOn, Finish, HangUp, TypeInv
    <3>3. ASSUME NEW f \in Fee, FeeStep(f) PROVE FALSE
      BY <1>1, <3>1, <3>3 DEF FeeStep, LoginWritten, LoginFails, GiveUp, FeePoolCloses, TypeInv
    <3>4. ASSUME UNCHANGED pc PROVE FALSE
      BY <1>1, <3>4
    <3> QED BY <2>1, <3>2, <3>3, <3>4 DEF Quiet, PoolChanges, vars
  <2>2. ASSUME NEW s \in Task, Moves(s) PROVE Tried(t)
    BY <1>1, <2>2, MoveKept DEF Only
  <2>3. ASSUME NEW s \in Task, Connected(s) \/ Handshaken(s) PROVE FALSE
    BY <1>1, <2>3, OpenedKept DEF Only
  <2> QED BY <1>1, <2>1, <2>2, <2>3, Steps
<1>2. TypeInv /\ Knowing /\ [Next]_vars => [\A t \in Task : GaveUp(t) => Tried(t)]_vars
  BY <1>1
<1> QED BY <1>2, KnowingHolds, PTL DEF Spec, GivesUpOnlyAfterAll

===============================================================================
