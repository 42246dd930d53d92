---------------------------- MODULE MessageQueue ----------------------------
(***************************************************************************)
(* The incoming message queue of a port (ports/message_queue.{h,cc}): a    *)
(* heap ordered by sequence number, the sequence number it is blocked on   *)
(* and the signalable flag.  The heap is the set of the messages it holds; *)
(* its top is a message with the least sequence number, which is all that  *)
(* operator<, push_heap and pop_heap let the code observe.                 *)
(*                                                                         *)
(* A message is any record with the fields sequence_num and ports.  An     *)
(* operator X_y is X with a fault y, for mutation testing only.            *)
(***************************************************************************)
EXTENDS Integers

kInitialSequenceNum == 1

\* MessageQueue::MessageQueue(next_sequence_num)
NewMessageQueue(next_sequence_num) ==
  [heap |-> {}, next_sequence_num |-> next_sequence_num, signalable |-> TRUE]

\* m may be heap_[0]: nothing in the heap has a smaller sequence number.
IsTop(q, m) ==
  /\ m \in q.heap
  /\ \A other \in q.heap : m.sequence_num <= other.sequence_num

HasNextMessage(q) ==
  \E m \in q.heap : IsTop(q, m) /\ m.sequence_num = q.next_sequence_num

\* The messages GetNextMessageIf may return: the top, if it is the next one.
NextMessages(q) ==
  {m \in q.heap : IsTop(q, m) /\ m.sequence_num = q.next_sequence_num}

\* GetNextMessageIf, when it returns m: pop_heap and next_sequence_num_++.
AfterGetNextMessage(q, m) ==
  [q EXCEPT !.heap = @ \ {m}, !.next_sequence_num = @ + 1]

\* AcceptMessage: the queue once m is pushed ...
AfterAcceptMessage_inOrder(q, m) ==
  IF m.sequence_num = q.next_sequence_num THEN [q EXCEPT !.heap = @ \cup {m}]
                                          ELSE q

AfterAcceptMessage(q, m) == [q EXCEPT !.heap = @ \cup {m}]

\* ... and the value it stores in *has_next_message.
AcceptSignals_before(q, m) == q.signalable /\ HasNextMessage(q)

AcceptSignals_whenEmpty(q, m) ==
  /\ q.signalable
  /\ q.heap = {}
  /\ HasNextMessage(AfterAcceptMessage(q, m))

AcceptSignals(q, m) ==
  /\ q.signalable
  /\ HasNextMessage(AfterAcceptMessage(q, m))

SetSignalable(q, value) == [q EXCEPT !.signalable = value]

GetReferencedPorts(q) == UNION {m.ports : m \in q.heap}

\* What calling GetNextMessageIf(nullptr) until it returns null pops, when the
\* sequence numbers in the heap are distinct: the run of consecutive numbers
\* that starts at next_sequence_num.
Drained(q) ==
  IF HasNextMessage(q)
  THEN {m \in q.heap : \A k \in q.next_sequence_num .. m.sequence_num :
                          \E other \in q.heap : other.sequence_num = k}
  ELSE {}
=============================================================================
