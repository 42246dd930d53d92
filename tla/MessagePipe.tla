---------------------------- MODULE MessagePipe -----------------------------
(***************************************************************************)
(* What a pair of ports promises to the two embedders that hold its ends   *)
(* (README.md, ports/node.h), wherever the ends are and however often they *)
(* move: messages arrive once and in the order they were sent, and an end  *)
(* is told that its peer closed only when it did and nothing it sent is    *)
(* left to read.                                                           *)
(***************************************************************************)
EXTENDS Naturals

CONSTANT Pipes

VARIABLES
  life,   \* [End -> {"unmade", "open", "closed"}]
  sent,   \* [End -> Nat]: how many messages an end has sent
  got,    \* [End -> Nat]: how many of its peer's messages an end has read
  eof     \* ends that were told that their peer is closed

vars == <<life, sent, got, eof>>

End == Pipes \X {0, 1}
Other(e) == <<e[1], 1 - e[2]>>

Init ==
  /\ life \in [End -> {"unmade", "open"}]
  /\ sent = [e \in End |-> 0]
  /\ got = [e \in End |-> 0]
  /\ eof = {}

Create ==
  /\ life' \in [End -> {"unmade", "open", "closed"}]
  /\ \A e \in End : life'[e] # life[e] =>
       life[e] = "unmade" /\ life'[e] = "open"
  /\ UNCHANGED <<sent, got, eof>>

\* Ends are closed: one, with those in the messages that it had not read.
Closing ==
  /\ life' \in [End -> {"unmade", "open", "closed"}]
  /\ \A e \in End : life'[e] # life[e] =>
       life[e] = "open" /\ life'[e] = "closed"

Close == Closing /\ UNCHANGED <<sent, got, eof>>

\* Ends that are in the message are closed if the peer cannot take it.
Send(e) ==
  /\ life[e] = "open"
  /\ e \notin eof
  /\ sent' = [sent EXCEPT ![e] = @ + 1]
  /\ Closing
  /\ UNCHANGED <<got, eof>>

Receive(e) ==
  /\ life[e] = "open"
  /\ e \notin eof
  /\ got[e] < sent[Other(e)]
  /\ got' = [got EXCEPT ![e] = @ + 1]
  /\ UNCHANGED <<life, sent, eof>>

ReportPeerClosed(e) ==
  /\ life[e] = "open"
  /\ life[Other(e)] = "closed"
  /\ got[e] = sent[Other(e)]
  /\ eof' = eof \cup {e}
  /\ UNCHANGED <<life, sent, got>>

Next ==
  \/ Create
  \/ Close
  \/ \E e \in End : Send(e) \/ Receive(e) \/ ReportPeerClosed(e)

Spec == Init /\ [][Next]_vars
=============================================================================
