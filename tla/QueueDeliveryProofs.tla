------------------------ MODULE QueueDeliveryProofs -------------------------
(***************************************************************************)
(* What MessageQueue promises for every number of messages and every order *)
(* of arrival: each is read once, in order, and no wakeup is lost.         *)
(***************************************************************************)
EXTENDS QueueDelivery, TLAPS

\* A message of this module is known by its sequence number.
LEMMA MessageByNumber ==
  ASSUME NEW m \in Message, NEW other \in Message,
         m.sequence_num = other.sequence_num
  PROVE  m = other
BY DEF Message

\* AcceptMessage and GetNextMessageIf keep the type of a queue.
Queue == [heap : SUBSET Message, next_sequence_num : Nat \ {0},
          signalable : BOOLEAN]

LEMMA AcceptType ==
  ASSUME NEW q \in Queue, NEW m \in Message
  PROVE  /\ AfterAcceptMessage(q, m) \in Queue
         /\ AfterAcceptMessage(q, m).heap = q.heap \cup {m}
         /\ AfterAcceptMessage(q, m).next_sequence_num = q.next_sequence_num
         /\ AfterAcceptMessage(q, m).signalable = q.signalable
BY DEF AfterAcceptMessage, Queue

LEMMA GetType ==
  ASSUME NEW q \in Queue, NEW m \in Message
  PROVE  /\ AfterGetNextMessage(q, m) \in Queue
         /\ AfterGetNextMessage(q, m).heap = q.heap \ {m}
         /\ AfterGetNextMessage(q, m).next_sequence_num =
              q.next_sequence_num + 1
         /\ AfterGetNextMessage(q, m).signalable = q.signalable
<1>1. q.next_sequence_num + 1 \in Nat \ {0} /\ q.heap \ {m} \in SUBSET Message
  BY DEF Queue
<1> QED
  BY <1>1 DEF AfterGetNextMessage, Queue

LEMMA SignalableType ==
  ASSUME NEW q \in Queue, NEW value \in BOOLEAN
  PROVE  /\ SetSignalable(q, value) \in Queue
         /\ SetSignalable(q, value).heap = q.heap
         /\ SetSignalable(q, value).next_sequence_num = q.next_sequence_num
         /\ SetSignalable(q, value).signalable = value
BY DEF SetSignalable, Queue
-----------------------------------------------------------------------------
LEMMA InitTypeOK == Init => TypeOK
<1> SUFFICES ASSUME Init PROVE TypeOK
  OBVIOUS
<1>1. NewMessageQueue(kInitialSequenceNum) \in Queue
  BY DEF NewMessageQueue, kInitialSequenceNum, Queue
<1>2. queue \in Queue
  BY <1>1, SignalableType, SignalableAssumption DEF Init
<1>3. next_sequence_num_to_send \in Nat \ {0}
  BY DEF Init, kInitialSequenceNum
<1>4. /\ transport \in SUBSET Message /\ delivered \in SUBSET Nat
      /\ last \in Nat
  BY DEF Init
<1>5. idle \in BOOLEAN
  BY DEF Init
<1> QED
  BY <1>2, <1>3, <1>4, <1>5 DEF TypeOK, Queue

LEMMA NextTypeOK == TypeOK /\ [Next]_vars => TypeOK'
<1> SUFFICES ASSUME TypeOK, [Next]_vars PROVE TypeOK'
  OBVIOUS
<1>q. queue \in Queue
  BY DEF TypeOK, Queue
<1>1. CASE Send
  <2>1. [sequence_num |-> next_sequence_num_to_send, ports |-> {}] \in Message
    BY DEF TypeOK, Message
  <2> QED
    BY <1>1, <2>1 DEF Send, TypeOK
<1>2. ASSUME NEW m \in transport, Accept(m) PROVE TypeOK'
  <2>1. m \in Message
    BY DEF TypeOK
  <2>2. queue' \in Queue
    BY <1>2, <1>q, <2>1, AcceptType DEF Accept
  <2>3. idle' \in BOOLEAN
    <3>1. CASE AcceptSignals(queue, m)
      <4>1. idle' = FALSE
        BY <1>2, <3>1 DEF Accept
      <4> QED
        BY <4>1
    <3>2. CASE ~AcceptSignals(queue, m)
      <4>1. idle' = idle
        BY <1>2, <3>2 DEF Accept
      <4> QED
        BY <4>1 DEF TypeOK
    <3> QED
      BY <3>1, <3>2
  <2> QED
    BY <1>2, <2>2, <2>3 DEF Accept, TypeOK, Queue
<1>3. CASE CarrierRead
  <2>1. queue' \in Queue
    BY <1>3, <1>q, SignalableType DEF CarrierRead
  <2> QED
    BY <1>3, <2>1 DEF CarrierRead, TypeOK, Queue
<1>4. ASSUME NEW m \in queue.heap, GetMessage(m) PROVE TypeOK'
  <2>1. m \in Message
    BY <1>q DEF Queue
  <2>2. queue' \in Queue
    BY <1>4, <1>q, <2>1, GetType DEF GetMessage
  <2>3. m.sequence_num \in Nat
    BY <2>1 DEF Message
  <2> QED
    BY <1>4, <2>2, <2>3 DEF GetMessage, TypeOK, Queue
<1>5. CASE GetNull
  BY <1>5 DEF GetNull, TypeOK
<1>6. CASE UNCHANGED vars
  BY <1>6 DEF vars, TypeOK
<1> QED
  BY <1>1, <1>2, <1>3, <1>4, <1>5, <1>6 DEF Next

\* The variables of the queue and its users keep their types.
THEOREM TypeCorrect == Spec => []TypeOK
BY InitTypeOK, NextTypeOK, PTL DEF Spec
-----------------------------------------------------------------------------
(***************************************************************************)
(* Conservation is inductive once the two counters are known to be in      *)
(* order: the numbers in the transport and the heap are the interval       *)
(* between them, so a message that is read has the least of these numbers, *)
(* and one that is sent the next one up.  Without CountersMeet the         *)
(* interval may be empty because the reader is ahead of the sender.        *)
(***************************************************************************)
CountersMeet == queue.next_sequence_num <= next_sequence_num_to_send

IInv == TypeOK /\ Conservation /\ CountersMeet

LEMMA InitIInv == Init => IInv
<1> SUFFICES ASSUME Init PROVE IInv
  OBVIOUS
<1>1. NewMessageQueue(kInitialSequenceNum) \in Queue
  BY DEF NewMessageQueue, kInitialSequenceNum, Queue
<1>2. queue.heap = {} /\ queue.next_sequence_num = 1
  <2>1. /\ NewMessageQueue(kInitialSequenceNum).heap = {}
        /\ NewMessageQueue(kInitialSequenceNum).next_sequence_num = 1
    BY DEF NewMessageQueue, kInitialSequenceNum
  <2> QED
    BY <1>1, <2>1, SignalableType, SignalableAssumption DEF Init
<1>3. Conservation
  <2>1. Numbers(transport) = {} /\ Numbers(queue.heap) = {}
    BY <1>2 DEF Init, Numbers
  <2> QED
    BY <1>2, <2>1 DEF Init, Conservation, kInitialSequenceNum
<1>4. CountersMeet
  BY <1>2 DEF Init, CountersMeet, kInitialSequenceNum
<1> QED
  BY <1>3, <1>4, InitTypeOK DEF IInv

LEMMA NextIInv == IInv /\ [Next]_vars => IInv'
<1> SUFFICES ASSUME IInv, [Next]_vars PROVE Conservation' /\ CountersMeet'
  BY NextTypeOK DEF IInv
<1> DEFINE next == queue.next_sequence_num
           limit == next_sequence_num_to_send
<1>q. /\ queue \in Queue
      /\ next \in Nat /\ limit \in Nat /\ last \in Nat /\ next <= limit
      /\ transport \subseteq Message /\ queue.heap \subseteq Message
  BY DEF IInv, TypeOK, Queue, CountersMeet
<1>c. /\ delivered = 1 .. last
      /\ last = next - 1
      /\ Numbers(transport) \cap Numbers(queue.heap) = {}
      /\ Numbers(transport) \cup Numbers(queue.heap) = next .. limit - 1
  BY DEF IInv, Conservation
<1>1. CASE Send
  <2>1. /\ Numbers(transport') = Numbers(transport) \cup {limit}
        /\ Numbers(queue'.heap) = Numbers(queue.heap)
    <3> DEFINE new == [sequence_num |-> limit, ports |-> {}]
    <3>1. transport' = transport \cup {new} /\ queue' = queue
      BY <1>1 DEF Send
    <3>2. new.sequence_num = limit
      OBVIOUS
    <3> HIDE DEF new
    <3> QED
      BY <3>1, <3>2 DEF Numbers
  <2>2. next .. (limit + 1) - 1 = (next .. limit - 1) \cup {limit}
    BY <1>q
  <2>3. limit \notin Numbers(queue.heap)
    BY <1>q, <1>c
  <2>4. Numbers(transport') \cup Numbers(queue'.heap) = next .. (limit + 1) - 1
    BY <1>c, <2>1, <2>2
  <2>5. Numbers(transport') \cap Numbers(queue'.heap) = {}
    BY <1>c, <2>1, <2>3
  <2>6. /\ limit' = limit + 1
        /\ queue' = queue /\ delivered' = delivered /\ last' = last
    BY <1>1 DEF Send
  <2>7. Conservation'
    BY <1>c, <2>4, <2>5, <2>6 DEF Conservation
  <2>8. CountersMeet'
    BY <1>q, <2>6 DEF CountersMeet
  <2> QED
    BY <2>7, <2>8
<1>2. ASSUME NEW m \in transport, Accept(m)
      PROVE  Conservation' /\ CountersMeet'
  <2>1. m \in Message
    BY <1>q
  <2>2. queue'.heap = queue.heap \cup {m} /\ queue'.next_sequence_num = next
    BY <1>2, <1>q, <2>1, AcceptType DEF Accept
  <2>3. Numbers(queue'.heap) = Numbers(queue.heap) \cup {m.sequence_num}
    BY <2>2 DEF Numbers
  <2>4. Numbers(transport') = Numbers(transport) \ {m.sequence_num}
    <3>1. transport' = transport \ {m}
      BY <1>2 DEF Accept
    <3>2. \A other \in transport :
            other.sequence_num = m.sequence_num => other = m
      BY <1>q, <2>1, MessageByNumber
    <3> QED
      BY <3>1, <3>2 DEF Numbers
  <2>5. m.sequence_num \in Numbers(transport)
    BY DEF Numbers
  <2>6. Numbers(transport') \cup Numbers(queue'.heap) = next .. limit - 1
    BY <1>c, <2>3, <2>4, <2>5
  <2>7. Numbers(transport') \cap Numbers(queue'.heap) = {}
    BY <1>c, <2>3, <2>4
  <2> QED
    BY <1>2, <1>q, <1>c, <2>2, <2>6, <2>7
    DEF Accept, Conservation, CountersMeet
<1>3. CASE CarrierRead
  <2>1. queue'.heap = queue.heap /\ queue'.next_sequence_num = next
    BY <1>3, <1>q, SignalableType DEF CarrierRead
  <2> QED
    BY <1>3, <1>q, <1>c, <2>1 DEF CarrierRead, Conservation, CountersMeet
<1>4. ASSUME NEW m \in queue.heap, GetMessage(m)
      PROVE  Conservation' /\ CountersMeet'
  <2>1. m \in Message /\ m.sequence_num = next
    BY <1>4, <1>q DEF GetMessage, NextMessages
  <2>2. queue'.heap = queue.heap \ {m} /\ queue'.next_sequence_num = next + 1
    BY <1>4, <1>q, <2>1, GetType DEF GetMessage
  <2>3. Numbers(queue'.heap) = Numbers(queue.heap) \ {next}
    <3>1. \A other \in queue.heap : other.sequence_num = next => other = m
      BY <1>q, <2>1, MessageByNumber
    <3> QED
      BY <2>1, <2>2, <3>1 DEF Numbers
  <2>4. next \in Numbers(queue.heap)
    BY <2>1 DEF Numbers
  <2>5. Numbers(transport') = Numbers(transport)
    BY <1>4 DEF GetMessage
  <2>6. Numbers(transport') \cup Numbers(queue'.heap) =
          (next .. limit - 1) \ {next}
    BY <1>c, <2>3, <2>4, <2>5
  <2>7. (next .. limit - 1) \ {next} = (next + 1) .. limit - 1
    BY <1>q
  <2>8. Numbers(transport') \cap Numbers(queue'.heap) = {}
    BY <1>c, <2>3, <2>5
  <2>9. next + 1 <= limit
    BY <1>q, <1>c, <2>4
  <2>10. delivered' = 1 .. last'
    <3>1. delivered' = (1 .. next - 1) \cup {next} /\ last' = next
      BY <1>4, <1>c, <2>1 DEF GetMessage
    <3>2. (1 .. next - 1) \cup {next} = 1 .. next
      <4>1. next >= 1
        BY <1>q DEF Queue
      <4> QED
        BY <1>q, <4>1
    <3> QED
      BY <3>1, <3>2
  <2>11. last' = (next + 1) - 1 /\ limit' = limit
    BY <1>4, <1>q, <2>1 DEF GetMessage
  <2> QED
    BY <2>2, <2>6, <2>7, <2>8, <2>9, <2>10, <2>11
    DEF Conservation, CountersMeet
<1>5. CASE GetNull
  BY <1>5, <1>q, <1>c DEF GetNull, Conservation, CountersMeet
<1>6. CASE UNCHANGED vars
  BY <1>6, <1>q, <1>c DEF vars, Conservation, CountersMeet
<1> QED
  BY <1>1, <1>2, <1>3, <1>4, <1>5, <1>6 DEF Next

(***************************************************************************)
(* Exactly once and in order, for every number of messages and every order *)
(* of arrival: what was read is the prefix 1 .. last, and the rest is in   *)
(* the transport or in the heap (AcceptMessage, GetNextMessageIf).         *)
(***************************************************************************)
THEOREM Conserved == Spec => []Conservation
<1>1. IInv => Conservation
  BY DEF IInv
<1> QED
  BY <1>1, InitIInv, NextIInv, PTL DEF Spec

\* Each read returns the successor of the previous one (GetNextMessageIf).
THEOREM ReadsInOrder == Spec => InOrder
<1>1. IInv /\ [Next]_vars => [last' # last => last' = last + 1]_vars
  <2> SUFFICES ASSUME IInv, Next, last' # last PROVE last' = last + 1
    BY DEF vars
  <2>1. PICK m \in queue.heap : GetMessage(m)
    BY DEF Next, Send, Accept, CarrierRead, GetNull
  <2>2. last' = queue.next_sequence_num
    BY <2>1 DEF GetMessage, NextMessages
  <2>3. last = queue.next_sequence_num - 1 /\ queue.next_sequence_num \in Nat
    BY DEF IInv, Conservation, TypeOK
  <2> QED
    BY <2>2, <2>3
<1> QED
  BY <1>1, InitIInv, NextIInv, PTL DEF Spec, InOrder
-----------------------------------------------------------------------------
(***************************************************************************)
(* Only a signalable queue lets its reader wait, and no step makes it      *)
(* unsignalable: what the reader waits for will be reported.               *)
(***************************************************************************)
WaitsSignalable == idle => queue.signalable

\* An embedder told to wait has nothing to read: AcceptMessage reports it when
\* the head becomes available (message_queue.cc:71-75).
THEOREM WakeupNotLost == Spec => []NoLostWakeup
<1> DEFINE WInv == NoLostWakeup /\ WaitsSignalable
<1>1. Init => WInv
  BY DEF Init, NoLostWakeup, WaitsSignalable
<1>2. TypeOK /\ WInv /\ [Next]_vars => WInv'
  <2> SUFFICES ASSUME TypeOK, WInv, [Next]_vars, idle'
               PROVE  ~HasNextMessage(queue') /\ queue'.signalable
    BY DEF NoLostWakeup, WaitsSignalable
  <2>q. queue \in Queue /\ transport \subseteq Message
    BY DEF TypeOK, Queue
  <2>1. CASE Send
    BY <2>1 DEF Send, NoLostWakeup, WaitsSignalable
  <2>2. ASSUME NEW m \in transport, Accept(m)
        PROVE  ~HasNextMessage(queue') /\ queue'.signalable
    <3>1. idle /\ ~AcceptSignals(queue, m)
      BY <2>2 DEF Accept
    <3>2. queue.signalable
      BY <3>1 DEF WaitsSignalable
    <3>3. queue' = AfterAcceptMessage(queue, m)
      BY <2>2 DEF Accept
    <3>4. ~HasNextMessage(queue')
      BY <3>1, <3>2, <3>3 DEF AcceptSignals
    <3>5. queue'.signalable
      BY <2>q, <3>2, <3>3, AcceptType
    <3> QED
      BY <3>4, <3>5
  <2>3. CASE CarrierRead
    BY <2>3 DEF CarrierRead, WaitsSignalable
  <2>4. ASSUME NEW m \in queue.heap, GetMessage(m)
        PROVE  ~HasNextMessage(queue') /\ queue'.signalable
    BY <2>4 DEF GetMessage
  <2>5. CASE GetNull
    BY <2>5 DEF GetNull
  <2>6. CASE UNCHANGED vars
    BY <2>6 DEF vars, NoLostWakeup, WaitsSignalable
  <2> QED
    BY <2>1, <2>2, <2>3, <2>4, <2>5, <2>6 DEF Next
<1>3. WInv => NoLostWakeup
  OBVIOUS
<1> QED
  BY <1>1, <1>2, <1>3, TypeCorrect, PTL DEF Spec
=============================================================================
