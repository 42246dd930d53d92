----------------------------- MODULE MCDataPipe -----------------------------
(***************************************************************************)
(* Instances of the data pipe for TLC.                                     *)
(***************************************************************************)
EXTENDS DataPipe

\* The consumer waits for data, or for the producer to close; the producer
\* waits for room.
WaitsBoth ==
  [e \in Ends |-> IF e = "consumer" THEN {"data", "peerClosed"} ELSE {"data"}]
=============================================================================
