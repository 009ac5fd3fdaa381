---------------------------- MODULE MCStatusFeed ----------------------------
(* Instances of StatusFeed for TLC.                                        *)
EXTENDS StatusFeed

CONSTANTS s1, s2, n1, n2

(* Every session has a name of its own, or any session may log in under    *)
(* any name, and change it.                                                *)
OwnOrAny == {[s \in Session |-> IF s = s1 THEN {n1} ELSE {n2}], [s \in Session |-> Name]}
=============================================================================
