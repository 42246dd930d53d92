----------------------------- MODULE MCWaitSet -----------------------------
(* An instance of WaitSet for TLC. *)
EXTENDS WaitSet

\* What follows after a call was outrun is not explored: no property is about it.
NotOutrun == ~outrun
=============================================================================
