----------------------------- MODULE MCAsyncWait -----------------------------
(* Instances of AsyncWait for TLC. *)
EXTENDS AsyncWait
CONSTANTS d1, d2, m1, m2
==============================================================================
