------------------------------ MODULE JobBoard ------------------------------
(***************************************************************************)
(* What the shared job queue of a fee pool promises: jobs are published    *)
(* one after the other, and a miner that is handed a fee job is handed,    *)
(* in one step, the newest one.  FeeExchange relies on it; JobLock shows   *)
(* that the queue under its RwLock, with the guard held across the write   *)
(* to the miner, keeps it.                                                 *)
(***************************************************************************)
EXTENDS Naturals

CONSTANTS Miner

VARIABLES
  published,  \* how many jobs the fee pool's task has pushed
  last        \* the last fee job each miner was handed, 0 for none

Init == published = 0 /\ last = [m \in Miner |-> 0]

Publish    == published' = published + 1 /\ UNCHANGED last
HandOut(m) == /\ published > 0
              /\ last' = [last EXCEPT ![m] = published]
              /\ UNCHANGED published

Next == Publish \/ \E m \in Miner : HandOut(m)

Spec == Init /\ [][Next]_<<published, last>>
=============================================================================
