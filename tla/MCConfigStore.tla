--------------------------- MODULE MCConfigStore ---------------------------
(* Instances of ConfigStore for TLC.                                       *)
EXTENDS ConfigStore, TLC

(* Any list of distinct names may be found.                                *)
AnyList == SetToAllKPermutations(Name)

(* Requests are interchangeable, and so are names.                         *)
StoreSymmetry == Permutations(Request) \cup Permutations(Name)
=============================================================================
