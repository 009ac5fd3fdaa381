----------------------------- MODULE MCJobLock -----------------------------
(* An instance of JobLock for TLC.                                         *)
EXTENDS JobLock
=============================================================================
