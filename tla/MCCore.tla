------------------------------- MODULE MCCore -------------------------------
(***************************************************************************)
(* Instances of the handle table for TLC.                                  *)
(***************************************************************************)
EXTENDS Core, TLC

\* The handles are those of two pipes, 1 to 4, and what comes after.
SomeBundles == {<<>>, <<1>>, <<3, 5>>}
SomeWaits == {<<3, "readable">>, <<3, "peerClosed">>}

Symmetric == Permutations(Thread)
=============================================================================
