-------------------------- MODULE MCNodeController --------------------------
(* Instances of NodeController for TLC: a parent p and its children a and b. *)
EXTENDS NodeController

CONSTANTS p, a, b, t1, t2

\* a wants the port that is reserved under t1, and so may the parent.
WantsOne == [c \in {a, b} |-> IF c = a THEN t1 ELSE NoToken]

\* a and b send to each other before they are introduced.
SendsCross ==
  [n \in {p, a, b} |-> [m \in {p, a, b} |->
     CASE <<n, m>> = <<a, b>> -> 2
       [] <<n, m>> = <<b, a>> -> 1
       [] OTHER -> 0]]

=============================================================================
