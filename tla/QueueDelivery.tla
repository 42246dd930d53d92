--------------------------- MODULE QueueDelivery ----------------------------
(***************************************************************************)
(* One direction of a port pair: a sender that numbers its messages        *)
(* (Node::WillSendMessage_Locked), a transport that delivers them in any   *)
(* order, the receiving port's MessageQueue, and an embedder that reads    *)
(* when it is told to.  The queue's promise is that it "enforces message   *)
(* ordering for the consumer without enforcing it for the producer".       *)
(*                                                                         *)
(* The receiving port may have arrived in a message that nobody has read   *)
(* yet (Signalable = FALSE): Node::AcceptPort turns its notifications off  *)
(* and Node::GetMessageIf turns them on when the carrier is read.          *)
(***************************************************************************)
EXTENDS MessageQueue

CONSTANTS
  NumMessages,   \* bound: how many messages the sender sends
  Signalable     \* whether the queue starts out signalable

ASSUME NumMessagesAssumption == NumMessages \in Nat
ASSUME SignalableAssumption == Signalable \in BOOLEAN

VARIABLES
  next_sequence_num_to_send,  \* the sending port's counter
  transport,                  \* messages sent and not yet accepted
  queue,                      \* the receiving port's message_queue
  delivered,                  \* sequence numbers the embedder has read
  last,                       \* the one it read last (0: none yet)
  idle                        \* the embedder was told there is nothing to read

vars == <<next_sequence_num_to_send, transport, queue, delivered, last, idle>>

Message == [sequence_num : Nat, ports : {{}}]

Init ==
  /\ next_sequence_num_to_send = kInitialSequenceNum
  /\ transport = {}
  /\ queue = SetSignalable(NewMessageQueue(kInitialSequenceNum), Signalable)
  /\ delivered = {}
  /\ last = 0
  /\ idle = FALSE

\* SendMessage: *sequence_num = port->next_sequence_num_to_send++
Send ==
  /\ next_sequence_num_to_send <= NumMessages
  /\ transport' = transport \cup
       {[sequence_num |-> next_sequence_num_to_send, ports |-> {}]}
  /\ next_sequence_num_to_send' = next_sequence_num_to_send + 1
  /\ UNCHANGED <<queue, delivered, last, idle>>

\* OnUserMessage at a receiving port: accept, and PortStatusChanged if told to.
Accept(m) ==
  /\ m \in transport
  /\ transport' = transport \ {m}
  /\ queue' = AfterAcceptMessage(queue, m)
  /\ IF AcceptSignals(queue, m)
     THEN idle' = FALSE
     ELSE UNCHANGED idle
  /\ UNCHANGED <<next_sequence_num_to_send, delivered, last>>

\* The message that carries this port is read: set_signalable(true).
CarrierRead ==
  /\ ~queue.signalable
  /\ queue' = SetSignalable(queue, TRUE)
  /\ UNCHANGED <<next_sequence_num_to_send, transport, delivered, last, idle>>

\* GetNextMessageIf returns m: it is next and the selector, if any, takes it.
GetMessage(m) ==
  /\ queue.signalable
  /\ m \in NextMessages(queue)
  /\ queue' = AfterGetNextMessage(queue, m)
  /\ delivered' = delivered \cup {m.sequence_num}
  /\ last' = m.sequence_num
  /\ idle' = FALSE
  /\ UNCHANGED <<next_sequence_num_to_send, transport>>

\* GetNextMessageIf(nullptr) returns null: the embedder waits to be notified.
GetNull ==
  /\ queue.signalable
  /\ ~HasNextMessage(queue)
  /\ idle' = TRUE
  /\ UNCHANGED <<next_sequence_num_to_send, transport, queue, delivered, last>>

Next ==
  \/ Send
  \/ \E m \in transport : Accept(m)
  \/ CarrierRead
  \/ \E m \in queue.heap : GetMessage(m)
  \/ GetNull

Spec == Init /\ [][Next]_vars

(***************************************************************************)
(* The transport delivers what it was given, and an embedder that was not  *)
(* told to wait calls GetMessage.                                          *)
(***************************************************************************)
FairSpec ==
  /\ Spec
  /\ WF_vars(\E m \in transport : Accept(m))
  /\ WF_vars(CarrierRead)
  /\ WF_vars(~idle /\ \E m \in queue.heap : GetMessage(m))
-----------------------------------------------------------------------------
\* The variables have their types.
TypeOK ==
  /\ next_sequence_num_to_send \in Nat \ {0}
  /\ transport \in SUBSET Message
  /\ queue \in [heap : SUBSET Message, next_sequence_num : Nat \ {0},
                signalable : BOOLEAN]
  /\ delivered \in SUBSET Nat
  /\ last \in Nat
  /\ idle \in BOOLEAN

\* The sequence numbers of a set of messages.
Numbers(messages) == {m.sequence_num : m \in messages}

(***************************************************************************)
(* Exactly once, in order: whatever the order of arrival, what has been    *)
(* read is the prefix 1 .. last, and every other message that was sent is  *)
(* still in the transport or in the heap, in one of them only.             *)
(***************************************************************************)
Conservation ==
  /\ delivered = 1 .. last
  /\ last = queue.next_sequence_num - 1
  /\ Numbers(transport) \cap Numbers(queue.heap) = {}
  /\ Numbers(transport) \cup Numbers(queue.heap) =
       queue.next_sequence_num .. next_sequence_num_to_send - 1

\* Each read returns the successor of the previous one (GetNextMessageIf).
InOrder == [][last' # last => last' = last + 1]_vars

(***************************************************************************)
(* No wakeup is lost: an embedder told that there is nothing to read has   *)
(* nothing to read, since AcceptMessage reports has_next_message whenever  *)
(* the head becomes available (message_queue.cc:71-75).                    *)
(***************************************************************************)
NoLostWakeup == idle => ~HasNextMessage(queue)

\* Everything sent is read in the end (Accept, GetNextMessageIf).
EventuallyRead ==
  \A k \in 1 .. NumMessages :
    (next_sequence_num_to_send > k) ~> (last >= k)
=============================================================================
