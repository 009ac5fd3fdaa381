-------------------------------- MODULE LinePipe --------------------------------
(***************************************************************************)
(* What one direction of a relay promises: lines come out in the order     *)
(* they were put in and none twice; as long as no write fell short, none   *)
(* is missing before one that came out, and each is what was put in.       *)
(***************************************************************************)
EXTENDS Integers, Sequences

CONSTANT Garbled   \* a line that was received but never sent

VARIABLES
  sent,    \* number of lines put in, which are numbered 1, 2, ...
  got,     \* the lines that came out
  whole    \* no write has been short

Received == {got[i] : i \in DOMAIN got} \ {Garbled}

Init == sent = 0 /\ got = <<>> /\ whole = TRUE

Put == sent' = sent + 1 /\ UNCHANGED <<got, whole>>

Deliver ==
  \E line \in 1..sent \cup {Garbled} :
    /\ whole => line = Len(got) + 1
    /\ line # Garbled => \A l \in Received : l < line
    /\ got' = Append(got, line)
    /\ UNCHANGED <<sent, whole>>

FallShort == whole /\ whole' = FALSE /\ UNCHANGED <<sent, got>>

Next == Put \/ Deliver \/ FallShort

Spec == Init /\ [][Next]_<<sent, got, whole>>
================================================================================
