----------------------------- MODULE ByteStream -----------------------------
(***************************************************************************)
(* What a data pipe promises to the holders of its two ends, wherever the  *)
(* ends are: the consumer gets the bytes that were written, once and in    *)
(* their order, no more than Capacity of them are under way, and an end is *)
(* told that its peer is closed only when it is.                           *)
(*                                                                         *)
(* A byte is its number in the order of writing.                           *)
(***************************************************************************)
EXTENDS Naturals, Sequences

CONSTANT Capacity

VARIABLES
  written,    \* how many bytes were written
  delivered,  \* the bytes the consumer took
  closed,     \* ends that are closed
  told        \* ends that were told that their peer is closed

vars == <<written, delivered, closed, told>>

Ends == {"producer", "consumer"}
Other(e) == IF e = "producer" THEN "consumer" ELSE "producer"

Init ==
  /\ written = 0
  /\ delivered = <<>>
  /\ closed = {}
  /\ told = {}

Write ==
  /\ "producer" \notin closed
  /\ written' \in (written + 1)..(Len(delivered) + Capacity)
  /\ UNCHANGED <<delivered, closed, told>>

Read ==
  /\ "consumer" \notin closed
  /\ \E n \in 1..(written - Len(delivered)) :
       delivered' = delivered \o [i \in 1..n |-> Len(delivered) + i]
  /\ UNCHANGED <<written, closed, told>>

Close(e) ==
  /\ e \notin closed
  /\ closed' = closed \cup {e}
  /\ UNCHANGED <<written, delivered, told>>

Tell(e) ==
  /\ Other(e) \in closed
  /\ told' = told \cup {e}
  /\ UNCHANGED <<written, delivered, closed>>

Next == Write \/ Read \/ \E e \in Ends : Close(e) \/ Tell(e)

Spec == Init /\ [][Next]_vars
=============================================================================
