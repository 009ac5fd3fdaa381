----------------------------- MODULE MCSupervision -----------------------------
(* Two stored proxies: sharing a port, or with ports of their own.         *)
EXTENDS Supervision, TLC
CONSTANTS p1, p2, x, y, z   \* proxies and ports
MCStored == <<p1, p2>>
Sharing == p1 :> <<x, y>> @@ p2 :> <<y>>
Disjoint == p1 :> <<x, y>> @@ p2 :> <<z>>
================================================================================
