---------------------------- MODULE PortsProofs -----------------------------
(***************************************************************************)
(* The ports protocol, for all nodes, pipes, moves, embedders and losses   *)
(* of nodes: type correctness, then the invariant of claims, which says    *)
(* who may act on a port name, and from it that no CHECK fails, that a     *)
(* proxy is removed once and that no wake-up is lost.                      *)
(*                                                                         *)
(* The proofs follow the code: IsWorld is the type of a world and Good the *)
(* invariant of claims, and every handler has a lemma that it maps a world *)
(* of that kind to another.  Calm says that a handler notifies.            *)
(***************************************************************************)
EXTENDS PortsProperties, FiniteSetTheorems, TLAPS

\* The messages in flight, and the type of a world.
IsNet(bag) == IsABag(bag) /\ \A m \in DOMAIN bag : IsEnvelope(m)

IsWorld(w) ==
  /\ w = [ports |-> w.ports, net |-> w.net, oops |-> w.oops,
          notified |-> w.notified, shut |-> w.shut]
  /\ w.ports \in [PortName -> Port]
  /\ \A p \in PortName : IsPort(w.ports[p])
  /\ IsNet(w.net)
  /\ w.oops \in BOOLEAN

-----------------------------------------------------------------------------
(* Names, bags and ports.                                                  *)

\* A port name is a triple within the bounds.
LEMMA NameParts ==
  ASSUME NEW p \in PortName
  PROVE  /\ p = <<p[1], p[2], p[3]>>
         /\ p[1] \in Pipes
         /\ p[2] \in {0, 1}
         /\ p[3] \in 0 .. MaxGen[p[1]]
  BY DEF PortName

\* GenerateRandomPortName gives a port name while the bound on moves allows
\* one, and Predecessor takes it back.
LEMMA NextName ==
  ASSUME NEW p \in PortName, p[3] < MaxGen[p[1]]
  PROVE  /\ GenerateRandomPortName(p) \in PortName
         /\ Predecessor(GenerateRandomPortName(p)) = p
<1>1. MaxGen[p[1]] \in Nat
  BY NameParts, MaxGenAssumption
<1>2. p[3] + 1 \in 0 .. MaxGen[p[1]] /\ (p[3] + 1) - 1 = p[3]
  BY <1>1, NameParts
<1>3. <<p[1], p[2], p[3] + 1>> \in PortName
  BY <1>2, NameParts DEF PortName
<1> QED
  BY <1>2, <1>3, NameParts DEF GenerateRandomPortName, Predecessor

\* More in flight.
LEMMA NetPlus ==
  ASSUME NEW bag, IsNet(bag), NEW S, \A m \in S : IsEnvelope(m)
  PROVE  IsNet(bag (+) SetToBag(S))
  BY DEF IsNet, IsABag, SetToBag, (+)

\* Less in flight: an event is delivered ...
LEMMA NetMinus ==
  ASSUME NEW bag, IsNet(bag), NEW S
  PROVE  IsNet(bag (-) SetToBag(S))
  BY DEF IsNet, IsABag, SetToBag, (-)

\* ... or messages are lost.
LEMMA NetPart ==
  ASSUME NEW bag, IsNet(bag), NEW S \in SUBSET DOMAIN bag
  PROVE  IsNet([m \in S |-> bag[m]])
  BY DEF IsNet, IsABag

\* The ports that nodes create, and no port.
LEMMA NewPortType ==
  ASSUME NEW n \in Nodes, NEW a \in Int, NEW b \in Int
  PROVE  IsPort(NewPort(n, a, b))
<1>1. NewPort(n, a, b) \in Port
  BY DEF NewPort, Port, NewMessageQueue, States
<1>2. IsFiniteSet(NewPort(n, a, b).message_queue.heap)
  BY FS_EmptySet DEF NewPort, NewMessageQueue
<1>3. HasPeerName(NewPort(n, a, b))
  BY NodesAssumption DEF NewPort, HasPeerName
<1>4. NewPort(n, a, b).node \in Nodes
  BY DEF NewPort
<1> QED
  BY <1>1, <1>2, <1>3, <1>4 DEF IsPort

\* A name that is in no ports_ map.
LEMMA AbsentPortType == IsPort(AbsentPort)
<1> DEFINE new == NewPort(NoNode, kInitialSequenceNum, kInitialSequenceNum)
<1>0. new \in Port
  BY DEF NewPort, Port, NewMessageQueue, States, kInitialSequenceNum
<1>1. AbsentPort \in Port
  <2>1. AbsentPort = [new EXCEPT !.state = "Absent"]
    BY DEF AbsentPort
  <2> HIDE DEF new
  <2> QED BY <1>0, <2>1 DEF Port, States
<1>2. IsFiniteSet(AbsentPort.message_queue.heap)
  BY FS_EmptySet DEF AbsentPort, NewPort, NewMessageQueue
<1>3. HasPeerName(AbsentPort)
  BY NodesAssumption DEF AbsentPort, NewPort, HasPeerName
<1>4. AbsentPort.state = "Absent"
  BY DEF AbsentPort, NewPort
<1> QED
  BY <1>1, <1>2, <1>3, <1>4 DEF IsPort

\* InitializePort's change of a port.
LEMMA InitializedType ==
  ASSUME NEW port, IsPort(port), port.node \in Nodes,
         NEW n \in Nodes \cup {NoNode}, NEW p \in PortName \cup {NoPort},
         n \in Nodes => p \in PortName
  PROVE  /\ IsPort(Initialized(port, n, p))
         /\ Initialized(port, n, p).state = "Receiving"
         /\ Initialized(port, n, p).node = port.node
  BY DEF IsPort, Initialized, Port, States, HasPeerName

-----------------------------------------------------------------------------
(* Worlds: what a handler changes.                                         *)

\* Other ports.
LEMMA WithPorts ==
  ASSUME NEW w, IsWorld(w), NEW f \in [PortName -> Port],
         \A p \in PortName : IsPort(f[p])
  PROVE  /\ IsWorld([w EXCEPT !.ports = f])
         /\ [w EXCEPT !.ports = f].ports = f
  BY DEF IsWorld

\* One other port.
LEMMA WithPort ==
  ASSUME NEW w, IsWorld(w), NEW p \in PortName, NEW port, IsPort(port)
  PROVE  /\ IsWorld([w EXCEPT !.ports[p] = port])
         /\ [w EXCEPT !.ports[p] = port].ports = [w.ports EXCEPT ![p] = port]
<1>1. [w.ports EXCEPT ![p] = port] \in [PortName -> Port]
  BY DEF IsWorld, IsPort
<1>2. \A q \in PortName : IsPort([w.ports EXCEPT ![p] = port][q])
  BY DEF IsWorld
<1>3. [w EXCEPT !.ports[p] = port] =
        [w EXCEPT !.ports = [w.ports EXCEPT ![p] = port]]
  OBVIOUS
<1> QED
  BY <1>1, <1>2, <1>3, WithPorts

\* Other messages in flight.
LEMMA WithNet ==
  ASSUME NEW w, IsWorld(w), NEW bag, IsNet(bag)
  PROVE  /\ IsWorld([w EXCEPT !.net = bag])
         /\ [w EXCEPT !.net = bag].ports = w.ports
  BY DEF IsWorld

\* ForwardMessage: the events are for ports of an existing node.
LEMMA ForwardAllType ==
  ASSUME NEW w, IsWorld(w), NEW n \in Nodes, NEW to, NEW events,
         to \in Nodes => \A e \in events : IsUserEvent(e) \/ e \in InternalEvent
  PROVE  /\ IsWorld(ForwardAll(w, n, to, events))
         /\ ForwardAll(w, n, to, events).ports = w.ports
<1>1. CASE to \in Nodes \ crashed
  <2> DEFINE S == {Envelope(n, to, e) : e \in events}
  <2>1. \A m \in S : IsEnvelope(m)
    BY <1>1 DEF Envelope, IsEnvelope
  <2>2. IsNet(w.net (+) SetToBag(S))
    <3> HIDE DEF S
    <3> QED BY <2>1, NetPlus DEF IsWorld
  <2>3. ForwardAll(w, n, to, events) = [w EXCEPT !.net = w.net (+) SetToBag(S)]
    BY <1>1 DEF ForwardAll
  <2> HIDE DEF S
  <2> QED BY <2>2, <2>3, WithNet
<1>2. CASE to \notin Nodes \ crashed
  BY <1>2 DEF ForwardAll
<1> QED BY <1>1, <1>2

\* ForwardMessage with one event.
LEMMA ForwardMessageType ==
  ASSUME NEW w, IsWorld(w), NEW n \in Nodes, NEW to, NEW event,
         to \in Nodes => IsUserEvent(event) \/ event \in InternalEvent
  PROVE  /\ IsWorld(ForwardMessage(w, n, to, event))
         /\ ForwardMessage(w, n, to, event).ports = w.ports
  BY ForwardAllType DEF ForwardMessage

\* PortStatusChanged changes no port.
LEMMA PortStatusChangedType ==
  ASSUME NEW w, IsWorld(w), NEW p
  PROVE  IsWorld(PortStatusChanged(w, p))
  BY DEF IsWorld, PortStatusChanged

\* ErasePort.
LEMMA ErasePortType ==
  ASSUME NEW w, IsWorld(w), NEW p \in PortName
  PROVE  IsWorld(ErasePort(w, p))
  BY WithPort, AbsentPortType DEF ErasePort

\* A CHECK fails, or not.
LEMMA OopsType ==
  ASSUME NEW w, IsWorld(w), NEW v \in BOOLEAN
  PROVE  /\ IsWorld([w EXCEPT !.oops = v])
         /\ [w EXCEPT !.oops = v].ports = w.ports
  BY DEF IsWorld
-----------------------------------------------------------------------------
(* Sending messages and the ports in them.                                 *)

\* WillSendPort_Locked: a port that buffers knows its successor.
LEMMA WillSendPortType ==
  ASSUME NEW port, IsPort(port), NEW p \in PortName, p[3] < MaxGen[p[1]],
         NEW to \in Nodes \cup {NoNode}, port.state = "Receiving"
  PROVE  IsPort(WillSendPort(port, p, to))
  BY NextName DEF IsPort, WillSendPort, Port, States, HasPeerName

\* What WillSendPort_Locked writes into the message.
LEMMA PortDescriptorType ==
  ASSUME NEW port, IsPort(port), NEW p \in PortName
  PROVE  /\ PortDescriptor(port, p) \in Descriptor
         /\ HasPeerName(PortDescriptor(port, p))
  BY DEF IsPort, PortDescriptor, Port, Descriptor, HasPeerName

\* WillSendMessage_Locked makes a user event out of a message.
LEMMA UserEventType ==
  ASSUME NEW w, IsWorld(w), NEW port, IsPort(port),
         port.peer_node_name \in Nodes,
         NEW m \in QueuedMessage, NamesLeft({m})
  PROVE  /\ IsUserEvent(UserEvent(w, port, m))
         /\ Queued(UserEvent(w, port, m)).ports \subseteq PortName
<1> DEFINE event == UserEvent(w, port, m)
           new == {GenerateRandomPortName(q) : q \in m.ports}
<1>1. /\ event.type = "User"
      /\ event.port_name \in PortName
      /\ event.sequence_num \in Int
      /\ event.body \in Nat
  BY DEF UserEvent, IsPort, HasPeerName, QueuedMessage
<1>2. DOMAIN event.descriptors = new
  BY DEF UserEvent
<1>3. \A r \in new : /\ r \in PortName
                     /\ event.descriptors[r] =
                          PortDescriptor(w.ports[Predecessor(r)], Predecessor(r))
                     /\ Predecessor(r) \in PortName
  <2> SUFFICES ASSUME NEW q \in m.ports
               PROVE  LET r == GenerateRandomPortName(q)
                      IN /\ r \in PortName
                         /\ event.descriptors[r] =
                              PortDescriptor(w.ports[Predecessor(r)],
                                             Predecessor(r))
                         /\ Predecessor(r) \in PortName
    OBVIOUS
  <2>1. q \in PortName /\ q[3] < MaxGen[q[1]]
    BY DEF NamesLeft, QueuedMessage
  <2> QED BY <2>1, NextName DEF UserEvent
<1>4. \A r \in new : /\ event.descriptors[r] \in Descriptor
                     /\ HasPeerName(event.descriptors[r])
  BY <1>3, PortDescriptorType DEF IsWorld
<1> HIDE DEF event, new
<1>5. IsUserEvent(event)
  BY <1>1, <1>2, <1>3, <1>4 DEF IsUserEvent
<1>6. Queued(event).ports \subseteq PortName
  BY <1>2, <1>3 DEF Queued
<1> QED BY <1>5, <1>6 DEF event

\* The ports of the messages buffer; queues and numbers stay.
LEMMA WillSendMessagesType ==
  ASSUME NEW w, IsWorld(w), NEW port, IsPort(port),
         NEW messages \in SUBSET QueuedMessage, NamesLeft(messages),
         \A m \in messages : Sendable(w, port, m)
  PROVE  LET after == WillSendMessages(w, port, messages)
         IN /\ IsWorld(after)
            /\ \A q \in PortName :
                 /\ after.ports[q].message_queue = w.ports[q].message_queue
                 /\ after.ports[q].state \in {w.ports[q].state, "Buffering"}
<1> DEFINE carried == UNION {m.ports : m \in messages}
           f == [q \in PortName |->
                   IF q \in carried
                   THEN WillSendPort(w.ports[q], q, port.peer_node_name)
                   ELSE w.ports[q]]
<1>1. \A q \in PortName : IsPort(f[q])
  <2> SUFFICES ASSUME NEW q \in PortName PROVE IsPort(f[q])
    OBVIOUS
  <2>1. CASE q \in carried
    <3>1. q[3] < MaxGen[q[1]] /\ w.ports[q].state = "Receiving"
      BY <2>1 DEF NamesLeft, Sendable
    <3>2. port.peer_node_name \in Nodes \cup {NoNode} /\ IsPort(w.ports[q])
      BY DEF IsPort, Port, IsWorld
    <3> QED BY <2>1, <3>1, <3>2, WillSendPortType
  <2>2. CASE q \notin carried
    BY <2>2 DEF IsWorld
  <2> QED BY <2>1, <2>2
<1>2. f \in [PortName -> Port]
  BY <1>1 DEF IsPort
<1>3. WillSendMessages(w, port, messages) = [w EXCEPT !.ports = f]
  BY DEF WillSendMessages
<1>4. \A q \in PortName :
        /\ f[q].message_queue = w.ports[q].message_queue
        /\ f[q].state \in {w.ports[q].state, "Buffering"}
  BY DEF WillSendPort, IsWorld, Port
<1> HIDE DEF f, carried
<1> QED BY <1>1, <1>2, <1>3, <1>4, WithPorts

\* What ForwardMessages_Locked takes off a queue was in it.
LEMMA PoppedType ==
  ASSUME NEW w, IsWorld(w), NEW p \in PortName
  PROVE  /\ Popped(w, p) \subseteq w.ports[p].message_queue.heap
         /\ Cardinality(Popped(w, p)) \in Nat
<1>1. Popped(w, p) \subseteq w.ports[p].message_queue.heap
  BY DEF Popped, Drained
<1>2. IsFiniteSet(w.ports[p].message_queue.heap)
  BY DEF IsWorld, IsPort
<1> QED BY <1>1, <1>2, FS_Subset, FS_CardinalityType

\* A queue stays finite when messages are taken off.
LEMMA WithoutPoppedType ==
  ASSUME NEW port, IsPort(port), NEW S, Cardinality(S) \in Nat
  PROVE  LET q == WithoutPopped(port.message_queue, S)
         IN /\ q \in [heap : SUBSET QueuedMessage, next_sequence_num : Int,
                      signalable : BOOLEAN]
            /\ IsFiniteSet(q.heap)
<1> DEFINE old == port.message_queue
           q == WithoutPopped(old, S)
<1>1. /\ old \in [heap : SUBSET QueuedMessage, next_sequence_num : Int,
                  signalable : BOOLEAN]
      /\ IsFiniteSet(old.heap)
  BY DEF IsPort, Port
<1> HIDE DEF old
<1>2. q.heap = old.heap \ S
  BY <1>1 DEF WithoutPopped
<1>3. q.heap \subseteq old.heap
  BY <1>2
<1>4. IsFiniteSet(q.heap)
  BY <1>1, <1>3, FS_Subset
<1>5. old.heap \ S \in SUBSET QueuedMessage
  BY <1>1
<1>6. old.next_sequence_num + Cardinality(S) \in Int
  BY <1>1
<1>7. q \in [heap : SUBSET QueuedMessage, next_sequence_num : Int,
             signalable : BOOLEAN]
  BY <1>1, <1>5, <1>6 DEF WithoutPopped
<1> QED BY <1>4, <1>7 DEF old

\* A port after it forwarded.
LEMMA AfterForwardingType ==
  ASSUME NEW port, IsPort(port), NEW S, Cardinality(S) \in Nat, NEW fails
  PROVE  IsPort(AfterForwarding(port, S, fails))
<1> DEFINE queue == WithoutPopped(port.message_queue, S)
           number == IF fails THEN port.next_sequence_num_to_send - 1
                              ELSE port.next_sequence_num_to_send
           new == AfterForwarding(port, S, fails)
<1>1. number \in Int
  BY DEF IsPort, Port
<1>2. /\ queue \in [heap : SUBSET QueuedMessage, next_sequence_num : Int,
                    signalable : BOOLEAN]
      /\ IsFiniteSet(queue.heap)
  BY WithoutPoppedType
<1>3. new = [port EXCEPT !.message_queue = queue,
                         !.next_sequence_num_to_send = number]
  BY DEF AfterForwarding, IsPort, Port
<1> HIDE DEF queue, number, new
<1>4. new \in Port /\ new.message_queue = queue
  BY <1>1, <1>2, <1>3 DEF IsPort, Port
<1>5. /\ new.state = port.state /\ new.node = port.node
      /\ new.peer_node_name = port.peer_node_name
      /\ new.peer_port_name = port.peer_port_name
  BY <1>3 DEF IsPort, Port
<1> QED BY <1>2, <1>4, <1>5 DEF IsPort, HasPeerName, new

\* ForwardMessages_Locked, if the carried ports have successors.
LEMMA ForwardMessagesType ==
  ASSUME NEW w, IsWorld(w), NEW n \in Nodes, NEW p \in PortName,
         NamesLeft(w.ports[p].message_queue.heap)
  PROVE  IsWorld(ForwardMessages(w, n, p))
<1> DEFINE port == w.ports[p]
           popped == Popped(w, p)
           good == {m \in popped : Sendable(w, port, m)}
           sent1 == WillSendMessages(w, port, good)
           gone == \E m \in popped : \E q \in m.ports :
                     w.ports[q].state = "Absent"
           old == sent1.ports[p]
           new == AfterForwarding(old, popped, ForwardFails(w, p))
           moved == [sent1 EXCEPT !.ports[p] = new]
           after == [moved EXCEPT !.oops = @ \/ gone]
           events == {UserEvent(w, port, m) : m \in good}
<1>1. /\ IsPort(port)
      /\ popped \subseteq port.message_queue.heap
      /\ Cardinality(popped) \in Nat
  BY PoppedType DEF IsWorld
<1>2. /\ good \in SUBSET QueuedMessage
      /\ NamesLeft(good)
      /\ \A m \in good : Sendable(w, port, m)
  BY <1>1 DEF NamesLeft, IsPort, Port
<1>3. IsWorld(sent1)
  BY <1>1, <1>2, WillSendMessagesType
<1>4. IsPort(old)
  BY <1>3 DEF IsWorld
<1>5. IsPort(new)
  BY <1>1, <1>4, AfterForwardingType
<1>6. IsWorld(moved)
  <2> HIDE DEF sent1, new
  <2> QED BY <1>3, <1>5, WithPort
<1>7. IsWorld(after)
  <2>1. moved.oops \in BOOLEAN
    BY <1>6 DEF IsWorld
  <2> HIDE DEF moved, gone
  <2>2. (moved.oops \/ gone) \in BOOLEAN
    BY <2>1
  <2> QED BY <1>6, <2>2, OopsType
<1>8. ForwardMessages(w, n, p) = ForwardAll(after, n, port.peer_node_name, events)
  <2>1. after = [sent1 EXCEPT
                   !.ports[p] =
                      AfterForwarding(@, popped, ForwardFails(w, p)),
                   !.oops = @ \/ gone]
    <3> HIDE DEF sent1, popped, gone
    <3>1. moved.oops = sent1.oops
      BY <1>3 DEF IsWorld
    <3> QED BY <3>1, Zenon
  <2> HIDE DEF after
  <2> QED BY <2>1 DEF ForwardMessages
<1>9. port.peer_node_name \in Nodes => \A e \in events : IsUserEvent(e)
  <2> SUFFICES ASSUME port.peer_node_name \in Nodes, NEW m \in good
               PROVE  IsUserEvent(UserEvent(w, port, m))
    OBVIOUS
  <2>1. m \in QueuedMessage /\ NamesLeft({m})
    BY <1>2 DEF NamesLeft
  <2> QED BY <1>1, <2>1, UserEventType
<1> HIDE DEF after, events, port
<1> QED BY <1>7, <1>8, <1>9, ForwardAllType
-----------------------------------------------------------------------------
(* Removing proxies, and closing ports.                                    *)

\* InitiateProxyRemoval_Locked announces to a named port.
LEMMA InitiateProxyRemovalType ==
  ASSUME NEW w, IsWorld(w), NEW n \in Nodes, NEW p \in PortName
  PROVE  IsWorld(InitiateProxyRemoval(w, n, p))
<1> DEFINE port == w.ports[p]
           event == ObserveProxyEvent(port.peer_port_name, n, p,
                                      port.peer_node_name, port.peer_port_name)
<1>1. port.peer_node_name \in Nodes => event \in InternalEvent
  <2>1. port.peer_node_name \in Nodes => port.peer_port_name \in PortName
    BY DEF IsWorld, IsPort, HasPeerName
  <2> HIDE DEF port
  <2> QED BY <2>1 DEF InternalEvent, ObserveProxyEvent
<1>2. InitiateProxyRemoval(w, n, p) =
        ForwardMessage(w, n, port.peer_node_name, event)
  BY DEF InitiateProxyRemoval
<1> HIDE DEF event, port
<1> QED BY <1>1, <1>2, ForwardMessageType

\* MaybeRemoveProxy_Locked erases and acknowledges.
LEMMA MaybeRemoveProxyType ==
  ASSUME NEW w, IsWorld(w), NEW n \in Nodes, NEW p \in PortName
  PROVE  IsWorld(MaybeRemoveProxy(w, n, p))
<1> DEFINE port == w.ports[p]
           event == ObserveProxyAckEvent(port.send_on_proxy_removal,
                                         kInvalidSequenceNum)
<1>1. IsWorld(ErasePort(w, p))
  BY ErasePortType
<1>2. ASSUME port.send_on_proxy_removal # NoPort
      PROVE  IsWorld(ForwardMessage(ErasePort(w, p), n, port.ack_node, event))
  <2>1. port.send_on_proxy_removal \in PortName
    BY <1>2 DEF IsWorld, Port
  <2>2. event \in InternalEvent
    BY <2>1, SeqAssumption DEF InternalEvent, ObserveProxyAckEvent
  <2> HIDE DEF event, port
  <2> QED BY <1>1, <2>2, ForwardMessageType
<1> QED BY <1>1, <1>2 DEF MaybeRemoveProxy

\* Closing ports sends closures to their peers.
LEMMA CloseAllType ==
  ASSUME NEW w, IsWorld(w), NEW n \in Nodes, NEW closing \in SUBSET PortName
  PROVE  IsWorld(CloseAll(w, n, closing))
<1> DEFINE told == {q \in closing :
                      w.ports[q].peer_node_name \in Nodes \ crashed}
           f == [q \in PortName |-> IF q \in closing THEN AbsentPort
                                                     ELSE w.ports[q]]
           closures == {ClosureOf(w, n, q) : q \in told}
           bag == w.net (+) SetToBag(closures)
           s == w.shut \cup {EndOf(q) : q \in closing}
<1>1. CloseAll(w, n, closing) =
        [w EXCEPT !.ports = f, !.net = bag, !.shut = s]
  BY DEF CloseAll, IsWorld
<1>2. \A q \in PortName : IsPort(f[q])
  BY AbsentPortType DEF IsWorld
<1>3. f \in [PortName -> Port]
  BY <1>2 DEF IsPort
<1>4. \A m \in closures : IsEnvelope(m)
  <2> SUFFICES ASSUME NEW q \in told PROVE IsEnvelope(ClosureOf(w, n, q))
    OBVIOUS
  <2>1. q \in PortName /\ w.ports[q].peer_node_name \in Nodes
    OBVIOUS
  <2>2. /\ w.ports[q].peer_port_name \in PortName
        /\ w.ports[q].next_sequence_num_to_send - 1 \in Int
    BY <2>1 DEF IsWorld, IsPort, HasPeerName, Port
  <2>3. ObserveClosureEvent(w.ports[q].peer_port_name,
                            w.ports[q].next_sequence_num_to_send - 1)
          \in InternalEvent
    BY <2>2 DEF ObserveClosureEvent, InternalEvent
  <2> QED BY <2>1, <2>3 DEF ClosureOf, Envelope, IsEnvelope
<1> HIDE DEF closures, f, s
<1>5. IsNet(bag)
  BY <1>4, NetPlus DEF IsWorld
<1> HIDE DEF bag
<1> QED BY <1>1, <1>2, <1>3, <1>5 DEF IsWorld

\* Node::ClosePort.
LEMMA DoClosePortType ==
  ASSUME NEW w, IsWorld(w), NEW n \in Nodes, NEW p \in PortName
  PROVE  IsWorld(DoClosePort(w, n, p))
<1>1. IsWorld(ErasePort(w, p))
  BY ErasePortType
<1>2. \A s : IsWorld([ErasePort(w, p) EXCEPT !.shut = s])
  BY <1>1 DEF IsWorld
<1>3. ClosedWith(w, p) \in SUBSET PortName
  BY DEF ClosedWith
<1>4. IsWorld(CloseAll(w, n, ClosedWith(w, p)))
  BY <1>3, CloseAllType
<1> QED BY <1>2, <1>4 DEF DoClosePort

-----------------------------------------------------------------------------
(* The handlers of events.                                                 *)

\* AcceptPort, one port.
LEMMA AcceptedPortType ==
  ASSUME NEW n \in Nodes, NEW d \in Descriptor, HasPeerName(d)
  PROVE  IsPort(AcceptedPort(n, d))
<1> DEFINE port == NewPort(n, d.next_sequence_num_to_send,
                           d.next_sequence_num_to_receive)
           init == Initialized(port, d.peer_node_name, d.peer_port_name)
           new == AcceptedPort(n, d)
<1>1. IsPort(port) /\ port.node = n
  <2>1. IsPort(port)
    BY NewPortType DEF Descriptor
  <2>2. port.node = n
    BY DEF NewPort
  <2> QED BY <2>1, <2>2
<1>2. IsPort(init) /\ init.node = n
  <2> HIDE DEF port
  <2> QED BY <1>1, InitializedType DEF Descriptor, HasPeerName
<1>3. new = [init EXCEPT
               !.last_sequence_num_to_receive = d.last_sequence_num_to_receive,
               !.peer_closed = d.peer_closed,
               !.message_queue = [init.message_queue EXCEPT !.signalable = FALSE]]
  BY DEF AcceptedPort, SetSignalable, Initialized, NewPort
<1> HIDE DEF init, new
<1>4. /\ new \in Port
      /\ new.message_queue.heap = init.message_queue.heap
      /\ new.node = init.node
      /\ new.peer_node_name = init.peer_node_name
      /\ new.peer_port_name = init.peer_port_name
  BY <1>2, <1>3 DEF IsPort, Port, Descriptor
<1> QED BY <1>2, <1>4 DEF IsPort, HasPeerName, new

\* AcceptPort for the ports of a message: they are new and empty.
LEMMA AcceptPortsType ==
  ASSUME NEW w, IsWorld(w), NEW n \in Nodes, NEW event, IsUserEvent(event)
  PROVE  LET bound == AcceptPorts(w, n, event.descriptors)
         IN /\ IsWorld(bound)
            /\ \A q \in PortName :
                 \/ bound.ports[q] = w.ports[q]
                 \/ bound.ports[q].message_queue.heap = {}
<1> DEFINE d == event.descriptors
           new == DOMAIN d
           f == [q \in PortName |-> IF q \in new THEN AcceptedPort(n, d[q])
                                                 ELSE w.ports[q]]
           told == {r \in new : d[r].referring_node_name \in Nodes \ crashed}
           accepted(r) == Envelope(n, d[r].referring_node_name,
                            PortAcceptedEvent(d[r].referring_port_name))
           bag == w.net (+) SetToBag({accepted(r) : r \in told})
           twice == \E q \in new : w.ports[q].state # "Absent"
           bound == AcceptPorts(w, n, d)
<1>1. \A r \in new : r \in PortName /\ d[r] \in Descriptor /\ HasPeerName(d[r])
  BY DEF IsUserEvent
<1>2. \A q \in PortName : IsPort(f[q])
  BY <1>1, AcceptedPortType DEF IsWorld
<1>3. f \in [PortName -> Port]
  BY <1>2 DEF IsPort
<1>4. \A r \in told : IsEnvelope(accepted(r))
  <2> SUFFICES ASSUME NEW r \in told PROVE IsEnvelope(accepted(r))
    OBVIOUS
  <2>1. d[r].referring_port_name \in PortName
    BY <1>1 DEF Descriptor
  <2>2. PortAcceptedEvent(d[r].referring_port_name) \in InternalEvent
    BY <2>1 DEF PortAcceptedEvent, InternalEvent
  <2> QED BY <2>2 DEF Envelope, IsEnvelope
<1>5. IsNet(bag)
  <2>1. \A m \in {accepted(r) : r \in told} : IsEnvelope(m)
    BY <1>4
  <2> QED BY <2>1, NetPlus DEF IsWorld
<1>6. \A q \in new : AcceptedPort(n, d[q]).message_queue.heap = {}
  BY DEF AcceptedPort, SetSignalable, Initialized, NewPort, NewMessageQueue
<1>7. \A q \in PortName : \/ f[q] = w.ports[q]
                          \/ f[q].message_queue.heap = {}
  BY <1>6
<1> DEFINE u == [w EXCEPT !.ports = f]
           v == [u EXCEPT !.net = bag]
<1>8. bound = [v EXCEPT !.oops = @ \/ twice]
  BY DEF AcceptPorts, IsWorld
<1> HIDE DEF f, bag
<1>9. IsWorld(v) /\ v.ports = f
  <2>1. IsWorld(u) /\ u.ports = f
    BY <1>2, <1>3, WithPorts
  <2> HIDE DEF u
  <2> QED BY <2>1, <1>5, WithNet
<1>10. IsWorld(bound) /\ bound.ports = f
  <2> HIDE DEF twice, bound
  <2>1. v.oops \in BOOLEAN
    BY <1>9 DEF IsWorld
  <2>2. bound = [v EXCEPT !.oops = v.oops \/ twice]
    BY <1>8
  <2> HIDE DEF v
  <2>3. (v.oops \/ twice) \in BOOLEAN
    BY <2>1
  <2> QED BY <1>9, <2>2, <2>3, OopsType
<1> QED BY <1>7, <1>10

\* The ports in the messages that event may make p forward have successors.
MaySendOn(w, event) ==
  LET p == event.port_name
      heap == w.ports[p].message_queue.heap
  IN /\ event.type = "User" /\ w.ports[p].state = "Proxying" =>
          NamesLeft(heap \cup {Queued(event)})
     /\ event.type = "PortAccepted" => NamesLeft(heap)

\* A proxy forwards, and may go.
LEMMA ForwardAsProxyType ==
  ASSUME NEW w, IsWorld(w), NEW n \in Nodes, NEW p \in PortName,
         NamesLeft(w.ports[p].message_queue.heap)
  PROVE  IsWorld(ForwardAsProxy(w, n, p))
<1>1. IsWorld(ForwardMessages(w, n, p))
  BY ForwardMessagesType
<1>2. IsWorld(MaybeRemoveProxy(ForwardMessages(w, n, p), n, p))
  BY <1>1, MaybeRemoveProxyType
<1> QED BY <1>1, <1>2 DEF ForwardAsProxy

\* A message is added to a queue.
LEMMA QueuedPortType ==
  ASSUME NEW port, IsPort(port), NEW event, IsUserEvent(event)
  PROVE  LET m == Queued(event)
             new == [port EXCEPT !.message_queue = AfterAcceptMessage(@, m)]
         IN /\ IsPort(new)
            /\ new.message_queue.heap = port.message_queue.heap \cup {m}
<1> DEFINE m == Queued(event)
           old == port.message_queue
           queue == [old EXCEPT !.heap = old.heap \cup {m}]
           new == [port EXCEPT !.message_queue = queue]
<1>1. m \in QueuedMessage
  BY DEF Queued, QueuedMessage, IsUserEvent
<1>2. /\ old \in [heap : SUBSET QueuedMessage, next_sequence_num : Int,
                  signalable : BOOLEAN]
      /\ IsFiniteSet(old.heap)
  BY DEF IsPort, Port
<1>3. IsFiniteSet(old.heap \cup {m})
  BY <1>2, FS_AddElement
<1>4. [port EXCEPT !.message_queue = AfterAcceptMessage(@, m)] = new
  BY DEF AfterAcceptMessage
<1> HIDE DEF m, old
<1>5. old.heap \cup {m} \in SUBSET QueuedMessage
  BY <1>1, <1>2
<1>6. /\ queue \in [heap : SUBSET QueuedMessage, next_sequence_num : Int,
                    signalable : BOOLEAN]
      /\ queue.heap = old.heap \cup {m}
  BY <1>2, <1>5
<1> HIDE DEF queue
<1>7. /\ new \in Port
      /\ new.message_queue = queue
      /\ new.state = port.state /\ new.node = port.node
      /\ new.peer_node_name = port.peer_node_name
      /\ new.peer_port_name = port.peer_port_name
  BY <1>6 DEF IsPort, Port
<1> HIDE DEF new
<1>8. IsPort(new)
  BY <1>3, <1>6, <1>7 DEF IsPort, HasPeerName
<1> QED BY <1>4, <1>6, <1>7, <1>8 DEF old, m

\* OnUserMessage.
LEMMA OnUserMessageType ==
  ASSUME NEW w, IsWorld(w), NEW n \in Nodes, NEW event, IsUserEvent(event),
         event.type = "User", MaySendOn(w, event)
  PROVE  IsWorld(OnUserMessage(w, n, event))
<1> DEFINE p == event.port_name
           m == Queued(event)
           bound == AcceptPorts(w, n, event.descriptors)
           new == [bound.ports[p] EXCEPT !.message_queue =
                     AfterAcceptMessage(@, m)]
           queued == [bound EXCEPT !.ports[p] = new]
<1>1. /\ IsWorld(bound)
      /\ \A q \in PortName : \/ bound.ports[q] = w.ports[q]
                             \/ bound.ports[q].message_queue.heap = {}
  BY AcceptPortsType
<1>2. p \in PortName /\ m.ports \in SUBSET PortName
  BY DEF IsUserEvent, Queued
<1>3. /\ IsPort(new)
      /\ new.message_queue.heap = bound.ports[p].message_queue.heap \cup {m}
  <2>1. IsPort(bound.ports[p])
    BY <1>1, <1>2 DEF IsWorld
  <2> HIDE DEF bound
  <2> QED BY <2>1, QueuedPortType
<1> HIDE DEF bound
<1>4. IsWorld(queued) /\ queued.ports[p] = new
  <2> HIDE DEF new
  <2>1. queued.ports = [bound.ports EXCEPT ![p] = new] /\ IsWorld(queued)
    BY <1>1, <1>2, <1>3, WithPort
  <2> HIDE DEF queued
  <2> QED BY <2>1, <1>1, <1>2 DEF IsWorld
<1>5. IsWorld(Refuse(bound, n, m))
  BY <1>1, <1>2, CloseAllType DEF Refuse
<1>6. ASSUME w.ports[p].state = "Proxying"
      PROVE  IsWorld(ForwardAsProxy(queued, n, p))
  <2>1. NamesLeft(w.ports[p].message_queue.heap \cup {m})
    BY <1>6 DEF MaySendOn
  <2>2. queued.ports[p].message_queue.heap \subseteq
          w.ports[p].message_queue.heap \cup {m}
    BY <1>1, <1>2, <1>3, <1>4
  <2>3. NamesLeft(queued.ports[p].message_queue.heap)
    BY <2>1, <2>2 DEF NamesLeft
  <2> HIDE DEF queued
  <2> QED BY <1>2, <1>4, <2>3, ForwardAsProxyType
<1>7. IsWorld(PortStatusChanged(queued, p))
  <2> HIDE DEF queued
  <2> QED BY <1>4, PortStatusChangedType
<1>8. queued = [bound EXCEPT !.ports[p].message_queue =
                                AfterAcceptMessage(@, m)]
  OBVIOUS
<1> HIDE DEF queued
<1> QED BY <1>4, <1>5, <1>6, <1>7, <1>8 DEF OnUserMessage, bound

\* A closure goes to the peer, if there is one.
LEMMA ForwardClosureType ==
  ASSUME NEW w, IsWorld(w), NEW n \in Nodes, NEW port, IsPort(port),
         NEW last \in Int
  PROVE  IsWorld(ForwardClosure(w, n, port, last))
<1> DEFINE event == ObserveClosureEvent(port.peer_port_name, last)
<1>1. port.peer_node_name \in Nodes => event \in InternalEvent
  BY DEF IsPort, HasPeerName, ObserveClosureEvent, InternalEvent
<1> HIDE DEF event
<1> QED BY <1>1, ForwardMessageType DEF ForwardClosure, event

\* OnPortAccepted.
LEMMA OnPortAcceptedType ==
  ASSUME NEW w, IsWorld(w), NEW n \in Nodes, NEW p \in PortName,
         NamesLeft(w.ports[p].message_queue.heap)
  PROVE  IsWorld(OnPortAccepted(w, n, p))
<1> DEFINE proxying == StartProxying(w, p)
           forwarded == ForwardMessages(proxying, n, p)
<1>1. IsWorld([w EXCEPT !.oops = TRUE])
  BY OopsType
<1>2. ASSUME Exists(w, n, p)
      PROVE  /\ IsWorld(proxying)
             /\ NamesLeft(proxying.ports[p].message_queue.heap)
  <2> DEFINE new == [w.ports[p] EXCEPT !.state = "Proxying"]
  <2>1. /\ IsPort(new)
        /\ new.message_queue = w.ports[p].message_queue
    BY <1>2 DEF Exists, IsWorld, IsPort, Port, States, HasPeerName
  <2>2. proxying = [w EXCEPT !.ports[p] = new]
    BY DEF StartProxying
  <2> HIDE DEF new, proxying
  <2>3. IsWorld(proxying) /\ proxying.ports = [w.ports EXCEPT ![p] = new]
    BY <2>1, <2>2, WithPort
  <2>4. proxying.ports[p] = new
    BY <2>3 DEF IsWorld
  <2> QED BY <2>1, <2>3, <2>4
<1> HIDE DEF proxying
<1>3. ASSUME Exists(w, n, p) PROVE IsWorld(forwarded)
  BY <1>2, <1>3, ForwardMessagesType
<1> HIDE DEF forwarded
<1>4. ASSUME Exists(w, n, p) PROVE IsWorld(RemoveAtOnce(forwarded, n, p))
  <2>1. IsWorld(forwarded)
    BY <1>3, <1>4
  <2>2. IsWorld(MaybeRemoveProxy(forwarded, n, p))
    BY <2>1, MaybeRemoveProxyType
  <2>3. /\ IsPort(forwarded.ports[p])
        /\ forwarded.ports[p].last_sequence_num_to_receive \in Int
    BY <2>1 DEF IsWorld, IsPort, Port
  <2> QED BY <2>2, <2>3, ForwardClosureType DEF RemoveAtOnce
<1>5. ASSUME Exists(w, n, p)
      PROVE  IsWorld(InitiateProxyRemoval(forwarded, n, p))
  BY <1>3, <1>5, InitiateProxyRemovalType
<1> QED BY <1>1, <1>3, <1>4, <1>5 DEF OnPortAccepted, proxying, forwarded

\* The fields of an ObserveProxy event.
LEMMA ObserveProxyFields ==
  ASSUME NEW event \in InternalEvent, event.type = "ObserveProxy"
  PROVE  /\ event \in [type : {"ObserveProxy"}, port_name : PortName,
                       proxy_node_name : Nodes, proxy_port_name : PortName,
                       proxy_to_node_name : Nodes,
                       proxy_to_port_name : PortName]
         /\ \A p \in PortName : [event EXCEPT !.port_name = p] \in InternalEvent
  BY DEF InternalEvent

\* OnObserveProxy at the end of a pipe.
LEMMA SkipProxyType ==
  ASSUME NEW w, IsWorld(w), NEW n \in Nodes, NEW event \in InternalEvent,
         event.type = "ObserveProxy"
  PROVE  IsWorld(SkipProxy(w, n, event))
<1> DEFINE p == event.port_name
           old == w.ports[p]
           new == [old EXCEPT !.peer_node_name = event.proxy_to_node_name,
                              !.peer_port_name = event.proxy_to_port_name]
           skipped == [w EXCEPT
                         !.ports[p].peer_node_name = event.proxy_to_node_name,
                         !.ports[p].peer_port_name = event.proxy_to_port_name]
           ack == ObserveProxyAckEvent(event.proxy_port_name,
                                       old.next_sequence_num_to_send - 1)
<1>1. /\ p \in PortName
      /\ event.proxy_node_name \in Nodes
      /\ event.proxy_port_name \in PortName
      /\ event.proxy_to_node_name \in Nodes
      /\ event.proxy_to_port_name \in PortName
  BY ObserveProxyFields
<1>2. IsPort(old)
  BY <1>1 DEF IsWorld
<1>3. IsPort(new)
  <2> HIDE DEF old
  <2> QED BY <1>1, <1>2 DEF IsPort, Port, HasPeerName
<1>4. ack \in InternalEvent
  <2>1. old.next_sequence_num_to_send - 1 \in Int
    BY <1>2 DEF IsPort, Port
  <2> QED BY <1>1, <2>1 DEF ObserveProxyAckEvent, InternalEvent
<1>5. skipped = [w EXCEPT !.ports[p] = new]
  BY <1>1, <1>2 DEF IsWorld, IsPort, Port
<1> HIDE DEF new, skipped, ack
<1>6. IsWorld(skipped)
  BY <1>1, <1>3, <1>5, WithPort
<1>7. IsWorld(ForwardMessage(skipped, n, event.proxy_node_name, ack))
  BY <1>4, <1>6, ForwardMessageType
<1> QED BY <1>7 DEF SkipProxy, skipped, ack

\* OnObserveProxy at a port that is on its way out.
LEMMA DelayAckType ==
  ASSUME NEW w, IsWorld(w), NEW n \in Nodes, NEW event \in InternalEvent,
         event.type = "ObserveProxy"
  PROVE  IsWorld(DelayAck(w, n, event))
<1> DEFINE p == event.port_name
           old == w.ports[p]
           new == [old EXCEPT !.send_on_proxy_removal = event.proxy_port_name,
                              !.ack_node = event.proxy_node_name]
<1>1. /\ p \in PortName
      /\ event.proxy_node_name \in Nodes
      /\ event.proxy_port_name \in PortName
  BY ObserveProxyFields
<1>2. IsPort(old)
  BY <1>1 DEF IsWorld
<1>3. IsPort(new)
  <2> HIDE DEF old
  <2> QED BY <1>1, <1>2 DEF IsPort, Port, HasPeerName
<1>4. DelayAck(w, n, event) = [w EXCEPT !.ports[p] = new]
  BY <1>1, <1>2 DEF DelayAck, IsWorld, IsPort, Port
<1> HIDE DEF new
<1> QED BY <1>1, <1>3, <1>4, WithPort

\* OnObserveProxy.
LEMMA OnObserveProxyType ==
  ASSUME NEW w, IsWorld(w), NEW n \in Nodes, NEW event \in InternalEvent,
         event.type = "ObserveProxy"
  PROVE  IsWorld(OnObserveProxy(w, n, event))
<1> DEFINE port == w.ports[event.port_name]
           again == [event EXCEPT !.port_name = port.peer_port_name]
<1>1. IsPort(port)
  BY ObserveProxyFields DEF IsWorld
<1>2. port.peer_node_name \in Nodes => again \in InternalEvent
  BY <1>1, ObserveProxyFields DEF IsPort, HasPeerName
<1> HIDE DEF again
<1>3. IsWorld(ForwardMessage(w, n, port.peer_node_name, again))
  BY <1>2, ForwardMessageType
<1> QED
  BY <1>3, SkipProxyType, DelayAckType DEF OnObserveProxy, again

\* The fields of an ObserveProxyAck and of an ObserveClosure event.
LEMMA LastFields ==
  ASSUME NEW event \in InternalEvent,
         event.type \in {"ObserveProxyAck", "ObserveClosure"}
  PROVE  event.port_name \in PortName /\ event.last_sequence_num \in Int
  BY DEF InternalEvent

\* OnObserveProxyAck.
LEMMA OnObserveProxyAckType ==
  ASSUME NEW w, IsWorld(w), NEW n \in Nodes, NEW event \in InternalEvent,
         event.type = "ObserveProxyAck"
  PROVE  IsWorld(OnObserveProxyAck(w, n, event))
<1> DEFINE p == event.port_name
           last == event.last_sequence_num
           old == w.ports[p]
           new == [old EXCEPT !.remove_proxy_on_last_message = TRUE,
                              !.last_sequence_num_to_receive = last]
           expects == [w EXCEPT !.ports[p].remove_proxy_on_last_message = TRUE,
                                !.ports[p].last_sequence_num_to_receive = last]
<1>1. p \in PortName /\ last \in Int
  BY LastFields
<1>2. IsPort(old)
  BY <1>1 DEF IsWorld
<1>3. IsPort(new)
  <2> HIDE DEF old, last
  <2> QED BY <1>1, <1>2 DEF IsPort, Port, HasPeerName
<1>4. expects = [w EXCEPT !.ports[p] = new]
  BY <1>1, <1>2 DEF IsWorld, IsPort, Port
<1> HIDE DEF new, expects
<1>5. IsWorld(expects)
  BY <1>1, <1>3, <1>4, WithPort
<1>6. IsWorld(ExpectLast(w, n, p, last))
  BY <1>1, <1>5, MaybeRemoveProxyType DEF ExpectLast, expects
<1>7. IsWorld(InitiateProxyRemoval(w, n, p))
  BY <1>1, InitiateProxyRemovalType
<1>8. IsWorld([w EXCEPT !.oops = TRUE])
  BY OopsType
<1> QED BY <1>6, <1>7, <1>8 DEF OnObserveProxyAck

\* OnObserveClosure.
LEMMA OnObserveClosureType ==
  ASSUME NEW w, IsWorld(w), NEW n \in Nodes, NEW event \in InternalEvent,
         event.type = "ObserveClosure"
  PROVE  IsWorld(OnObserveClosure(w, n, event))
<1> DEFINE p == event.port_name
           last == event.last_sequence_num
           port == w.ports[p]
           flag == port.remove_proxy_on_last_message \/ port.state # "Receiving"
           new == [port EXCEPT !.peer_closed = TRUE,
                               !.last_sequence_num_to_receive = last,
                               !.remove_proxy_on_last_message = flag]
           closed == PeerClosed(w, p, last)
<1>1. p \in PortName /\ last \in Int
  BY LastFields
<1>2. IsPort(port) /\ port.next_sequence_num_to_send - 1 \in Int
  BY <1>1 DEF IsWorld, IsPort, Port
<1>3. flag \in BOOLEAN
  OBVIOUS
<1>4. closed = [w EXCEPT !.ports[p] = new]
  BY <1>1, <1>2 DEF PeerClosed, IsWorld, IsPort, Port
<1> HIDE DEF flag
<1>5. IsPort(new)
  <2> HIDE DEF port, last
  <2> QED BY <1>1, <1>2, <1>3 DEF IsPort, Port, HasPeerName
<1> HIDE DEF new, closed
<1>6. IsWorld(closed)
  BY <1>1, <1>4, <1>5, WithPort
<1>7. IsWorld(MaybeRemoveProxy(closed, n, p))
  BY <1>1, <1>6, MaybeRemoveProxyType
<1>8. \A k \in Int : /\ IsWorld(ForwardClosure(closed, n, port, k))
                     /\ IsWorld(ForwardClosure(MaybeRemoveProxy(closed, n, p),
                                               n, port, k))
  BY <1>2, <1>6, <1>7, ForwardClosureType
<1>9. IsWorld(PortStatusChanged(
                ForwardClosure(closed, n, port,
                               port.next_sequence_num_to_send - 1), p))
  BY <1>2, <1>8, PortStatusChangedType
<1> QED BY <1>1, <1>8, <1>9 DEF OnObserveClosure, closed

\* Every event that is in flight is handled within the types.
LEMMA AcceptMessageType ==
  ASSUME NEW w, IsWorld(w), NEW n \in Nodes, NEW event,
         IsUserEvent(event) \/ event \in InternalEvent, MaySendOn(w, event)
  PROVE  IsWorld(AcceptMessage(w, n, event))
<1>1. CASE IsUserEvent(event)
  <2>1. event.type = "User"
    BY <1>1 DEF IsUserEvent
  <2>2. IsWorld(OnUserMessage(w, n, event))
    BY <1>1, <2>1, OnUserMessageType
  <2> QED BY <2>1, <2>2 DEF AcceptMessage
<1>2. CASE event \in InternalEvent
  <2>1. /\ event.type \in {"PortAccepted", "ObserveProxy", "ObserveProxyAck",
                           "ObserveClosure"}
        /\ event.port_name \in PortName
    BY <1>2 DEF InternalEvent
  <2>2. CASE event.type = "PortAccepted"
    <3>1. NamesLeft(w.ports[event.port_name].message_queue.heap)
      BY <2>2 DEF MaySendOn
    <3>2. IsWorld(OnPortAccepted(w, n, event.port_name))
      BY <2>1, <3>1, OnPortAcceptedType
    <3> QED BY <2>2, <3>2 DEF AcceptMessage
  <2>3. CASE event.type = "ObserveProxy"
    BY <1>2, <2>3, OnObserveProxyType DEF AcceptMessage
  <2>4. CASE event.type = "ObserveProxyAck"
    BY <1>2, <2>4, OnObserveProxyAckType DEF AcceptMessage
  <2>5. CASE event.type = "ObserveClosure"
    BY <1>2, <2>5, OnObserveClosureType DEF AcceptMessage
  <2> QED BY <2>1, <2>2, <2>3, <2>4, <2>5
<1> QED BY <1>1, <1>2
-----------------------------------------------------------------------------
(* The actions.                                                            *)

\* A state of the right types is a world of the right type.
LEMMA WorldType == TypeOK => IsWorld(World)
  BY DEF TypeOK, IsWorld, World, IsNet

\* A port name belongs to an end of a pipe.
LEMMA EndOfType ==
  ASSUME NEW p \in PortName
  PROVE  EndOf(p) \in End
  BY NameParts DEF EndOf, End

\* The first port of an end, and the other end.
LEMMA EndParts ==
  ASSUME NEW e \in End
  PROVE  /\ FirstPort(e) \in PortName
         /\ Other(e) \in End
         /\ e[1] \in Pipes
<1>1. e = <<e[1], e[2]>> /\ e[1] \in Pipes /\ e[2] \in {0, 1}
  BY DEF End
<1>2. MaxGen[e[1]] \in Nat
  BY <1>1, MaxGenAssumption
<1>3. 0 \in 0 .. MaxGen[e[1]]
  BY <1>2
<1>4. 1 - e[2] \in {0, 1}
  BY <1>1
<1> QED BY <1>1, <1>3, <1>4 DEF FirstPort, Other, End, PortName

\* What is left of the state when a handler is done.
LEMMA BecomeType ==
  ASSUME TypeOK, NEW w, IsWorld(w), Become(w), crashed' = crashed, eof' = eof,
         sent' \in [End -> Nat], got' = got
  PROVE  TypeOK'
<1>1. /\ ports' = w.ports
      /\ net' = w.net
      /\ oops' = w.oops
      /\ life' = [e \in End |-> IF e \in w.shut THEN "closed" ELSE life[e]]
      /\ idle' = {p \in idle \ w.notified : w.ports[p].state = "Receiving"}
  BY DEF Become
<1>2. /\ ports' \in [PortName -> Port]
      /\ \A p \in PortName : IsPort(ports'[p])
      /\ IsABag(net')
      /\ \A m \in DOMAIN net' : IsEnvelope(m)
  BY <1>1 DEF IsWorld, IsNet
<1>3. oops' \in BOOLEAN
  BY <1>1 DEF IsWorld
<1>4. life' \in [End -> {"unmade", "open", "closed"}]
  BY <1>1 DEF TypeOK
<1>5. idle' \in SUBSET PortName
  BY <1>1 DEF TypeOK
<1>6. crashed' \in SUBSET Nodes /\ eof' \in SUBSET End /\ got' \in [End -> Nat]
  BY DEF TypeOK
<1> QED BY <1>2, <1>3, <1>4, <1>5, <1>6 DEF TypeOK

\* AcceptMessage of an event from the transport.
LEMMA DeliverType ==
  ASSUME TypeOK, NEW envelope \in DOMAIN net, Deliver(envelope)
  PROVE  TypeOK'
<1> DEFINE event == envelope.event
           w == [World EXCEPT !.net = net (-) SetToBag({envelope})]
<1>1. /\ envelope.to \in Nodes
      /\ IsUserEvent(event) \/ event \in InternalEvent
  BY DEF TypeOK, IsEnvelope
<1>2. IsWorld(w) /\ w.ports = ports
  <2>1. IsNet(net (-) SetToBag({envelope}))
    BY NetMinus DEF TypeOK, IsNet
  <2>2. World.ports = ports
    BY DEF World
  <2> QED BY <2>1, <2>2, WorldType, WithNet
<1>3. MaySendOn(w, event)
  <2>1. NamesLeft(MayForward(event))
    BY DEF Deliver
  <2> HIDE DEF w
  <2> QED BY <1>2, <2>1 DEF MaySendOn, MayForward
<1>4. Become(AcceptMessage(w, envelope.to, event))
  BY DEF Deliver, World
<1> HIDE DEF w, event
<1>5. IsWorld(AcceptMessage(w, envelope.to, event))
  BY <1>1, <1>2, <1>3, AcceptMessageType
<1>6. crashed' = crashed /\ eof' = eof /\ sent' \in [End -> Nat] /\ got' = got
  BY DEF Deliver, TypeOK
<1> QED BY <1>4, <1>5, <1>6, BecomeType

\* ClosePort by the embedder.
LEMMA ClosePortType ==
  ASSUME TypeOK, NEW p \in PortName, ClosePort(p)
  PROVE  TypeOK'
<1>1. ports[p].node \in Nodes
  BY DEF ClosePort, Held, TypeOK, IsPort
<1>2. IsWorld(DoClosePort(World, ports[p].node, p))
  BY <1>1, WorldType, DoClosePortType
<1>3. Become(DoClosePort(World, ports[p].node, p))
  BY DEF ClosePort
<1>4. crashed' = crashed /\ eof' = eof /\ sent' \in [End -> Nat] /\ got' = got
  BY DEF ClosePort, TypeOK
<1> QED BY <1>2, <1>3, <1>4, BecomeType

\* The message of a SendMessage, and the world when it has its number.
Outgoing(p, cargo) ==
  [sequence_num |-> ports[p].next_sequence_num_to_send,
   body |-> sent[EndOf(p)] + 1, ports |-> cargo]

Numbered(p, cargo) ==
  [WillSendMessages(World, ports[p], {Outgoing(p, cargo)}) EXCEPT
     !.ports[p].next_sequence_num_to_send = @ + 1]

\* SendMessage makes the ports it sends buffer, and counts.
LEMMA NumberedType ==
  ASSUME TypeOK, NEW p \in PortName, NEW cargo \in SUBSET PortName,
         SendMessage(p, cargo)
  PROVE  LET w == Numbered(p, cargo)
         IN /\ IsWorld(w)
            /\ \A q \in PortName :
                 /\ w.ports[q].message_queue = ports[q].message_queue
                 /\ w.ports[q].state \in {ports[q].state, "Buffering"}
            /\ Outgoing(p, cargo) \in QueuedMessage
<1> DEFINE port == ports[p]
           e == EndOf(p)
           m == [sequence_num |-> port.next_sequence_num_to_send,
                 body |-> sent[e] + 1, ports |-> cargo]
           sent1 == WillSendMessages(World, port, {m})
           numbered == [sent1 EXCEPT
                          !.ports[p].next_sequence_num_to_send = @ + 1]
           old == sent1.ports[p]
           new == [old EXCEPT !.next_sequence_num_to_send = @ + 1]
<1>1. IsPort(port) /\ port.node \in Nodes
  BY DEF SendMessage, Held, TypeOK, IsPort
<1>2. m \in QueuedMessage
  <2>1. sent[e] \in Nat
    BY EndOfType DEF TypeOK
  <2>2. port.next_sequence_num_to_send \in Int
    BY DEF TypeOK, Port
  <2> HIDE DEF e, port
  <2> QED BY <2>1, <2>2 DEF QueuedMessage
<1>3. NamesLeft({m}) /\ Sendable(World, port, m)
  BY DEF SendMessage
<1>4. /\ IsWorld(sent1)
      /\ \A q \in PortName :
           /\ sent1.ports[q].message_queue = ports[q].message_queue
           /\ sent1.ports[q].state \in {ports[q].state, "Buffering"}
  <2>1. {m} \in SUBSET QueuedMessage
    BY <1>2
  <2>2. World.ports = ports
    BY DEF World
  <2>3. \A x \in {m} : Sendable(World, port, x)
    BY <1>3
  <2> HIDE DEF m, port
  <2>4. /\ IsWorld(sent1)
        /\ \A q \in PortName :
             /\ sent1.ports[q].message_queue = World.ports[q].message_queue
             /\ sent1.ports[q].state \in {World.ports[q].state, "Buffering"}
    <3> DEFINE msgs == {m}
    <3>1. msgs \in SUBSET QueuedMessage /\ NamesLeft(msgs)
          /\ \A x \in msgs : Sendable(World, port, x)
      BY <1>3, <2>1, <2>3
    <3> HIDE DEF msgs
    <3>2. /\ IsWorld(WillSendMessages(World, port, msgs))
          /\ \A q \in PortName :
               LET a == WillSendMessages(World, port, msgs).ports[q]
               IN /\ a.message_queue = World.ports[q].message_queue
                  /\ a.state \in {World.ports[q].state, "Buffering"}
      BY <1>1, <3>1, WorldType, WillSendMessagesType
    <3> QED BY <3>2 DEF msgs
  <2> HIDE DEF sent1
  <2> QED BY <2>2, <2>4
<1>5. IsPort(old)
  BY <1>4 DEF IsWorld
<1>6. /\ IsPort(new)
      /\ new.message_queue = old.message_queue
      /\ new.state = old.state
  <2> HIDE DEF old
  <2>1. old.next_sequence_num_to_send + 1 \in Int
    BY <1>5 DEF IsPort, Port
  <2> QED BY <1>5, <2>1 DEF IsPort, Port, HasPeerName
<1>7. /\ IsWorld(numbered)
      /\ \A q \in PortName :
           /\ numbered.ports[q].message_queue = ports[q].message_queue
           /\ numbered.ports[q].state \in {ports[q].state, "Buffering"}
  <2>1. numbered = [sent1 EXCEPT !.ports[p] = new]
    BY <1>4, <1>5 DEF IsWorld
  <2> HIDE DEF numbered, new, sent1
  <2>2. IsWorld(numbered) /\ numbered.ports = [sent1.ports EXCEPT ![p] = new]
    BY <1>4, <1>6, <2>1, WithPort
  <2>3. \A q \in PortName :
          numbered.ports[q] = IF q = p THEN new ELSE sent1.ports[q]
    BY <1>4, <2>2 DEF IsWorld
  <2> QED BY <1>4, <1>6, <2>2, <2>3
<1> QED BY <1>2, <1>7 DEF Numbered, Outgoing

\* SendMessage, to a local or a remote peer.
LEMMA SendMessageType ==
  ASSUME TypeOK, NEW p \in PortName, NEW cargo \in SUBSET PortName,
         SendMessage(p, cargo)
  PROVE  TypeOK'
<1> DEFINE port == ports[p]
           e == EndOf(p)
           m == Outgoing(p, cargo)
           event == UserEvent(World, port, m)
           numbered == Numbered(p, cargo)
           accepted == AcceptMessage(numbered, port.node, event)
           forwarded == ForwardMessage(numbered, port.node,
                                       port.peer_node_name, event)
<1>1. IsPort(port) /\ port.node \in Nodes
  BY DEF SendMessage, Held, TypeOK, IsPort
<1>2. /\ m \in QueuedMessage
      /\ IsWorld(numbered)
      /\ \A q \in PortName :
           /\ numbered.ports[q].message_queue = ports[q].message_queue
           /\ numbered.ports[q].state \in {ports[q].state, "Buffering"}
  BY NumberedType
<1>3. NamesLeft({m})
  BY DEF SendMessage, Outgoing
<1>8. port.peer_node_name \in Nodes => IsUserEvent(event)
  <2> HIDE DEF m, port
  <2> QED BY <1>1, <1>2, <1>3, WorldType, UserEventType
<1>9. event.type = "User"
  BY DEF UserEvent
<1>10. ASSUME port.peer_node_name = port.node PROVE IsWorld(accepted)
  <2>1. IsUserEvent(event)
    BY <1>1, <1>8, <1>10
  <2>2. NamesLeft(MayForward(event))
    BY <1>10 DEF SendMessage, Outgoing
  <2> HIDE DEF event, numbered, port
  <2>3. event.port_name \in PortName
    BY <2>1 DEF IsUserEvent
  <2>4. MaySendOn(numbered, event)
    BY <1>2, <1>9, <2>2, <2>3 DEF MaySendOn, MayForward
  <2> QED BY <1>1, <1>2, <2>1, <2>4, AcceptMessageType
<1>11. IsWorld(forwarded)
  <2> HIDE DEF event, numbered, port
  <2> QED BY <1>1, <1>2, <1>8, ForwardMessageType
<1>12. Become(IF port.peer_node_name = port.node THEN accepted ELSE forwarded)
  BY DEF SendMessage, Outgoing, Numbered
<1>13. sent' \in [End -> Nat]
  <2>1. sent' = [sent EXCEPT ![e] = @ + 1]
    BY DEF SendMessage
  <2>2. sent \in [End -> Nat] /\ e \in End
    BY EndOfType DEF TypeOK
  <2> HIDE DEF e
  <2>3. sent[e] + 1 \in Nat
    BY <2>2
  <2> QED BY <2>1, <2>2, <2>3
<1>14. crashed' = crashed /\ eof' = eof /\ got' = got
  BY DEF SendMessage
<1> HIDE DEF accepted, forwarded, port
<1>15. IsWorld(IF port.peer_node_name = port.node THEN accepted ELSE forwarded)
  BY <1>10, <1>11
<1> QED BY <1>12, <1>13, <1>14, <1>15, BecomeType

\* A step that only changes ports, wakes embedders and loses messages.
LEMMA PortsStepType ==
  ASSUME TypeOK,
         ports' = [p \in PortName |-> ports'[p]],
         \A p \in PortName : IsPort(ports'[p]),
         IsNet(net'), oops' = oops, crashed' \in SUBSET Nodes,
         idle' \in SUBSET PortName,
         life' \in [End -> {"unmade", "open", "closed"}],
         sent' = sent, got' \in [End -> Nat], eof' = eof
  PROVE  TypeOK'
<1>1. ports' \in [PortName -> Port]
  BY DEF IsPort
<1> QED BY <1>1 DEF TypeOK, IsNet

\* The ports that ends start with.
LEMMA FirstPortType ==
  ASSUME NEW e \in End
  PROVE  LET new == NewPort(Home[e], kInitialSequenceNum, kInitialSequenceNum)
         IN /\ IsPort(new)
            /\ IsPort(Initialized(new, Home[Other(e)], FirstPort(Other(e))))
<1> DEFINE new == NewPort(Home[e], kInitialSequenceNum, kInitialSequenceNum)
<1>1. /\ Home[e] \in Nodes
      /\ Home[Other(e)] \in Nodes
      /\ FirstPort(Other(e)) \in PortName
  BY EndParts, HomeAssumption
<1>2. IsPort(new)
  BY <1>1, NewPortType DEF kInitialSequenceNum
<1>3. new.node = Home[e]
  BY DEF NewPort
<1> HIDE DEF new
<1>4. IsPort(Initialized(new, Home[Other(e)], FirstPort(Other(e))))
  BY <1>1, <1>2, <1>3, InitializedType
<1> QED BY <1>2, <1>4 DEF new

\* CreateUninitializedPort.
LEMMA CreateUninitializedPortType ==
  ASSUME TypeOK, NEW e \in End, CreateUninitializedPort(e)
  PROVE  TypeOK'
<1> DEFINE new == NewPort(Home[e], kInitialSequenceNum, kInitialSequenceNum)
<1>1. IsPort(new) /\ FirstPort(e) \in PortName
  BY FirstPortType, EndParts
<1>2. ports' = [ports EXCEPT ![FirstPort(e)] = new]
  BY DEF CreateUninitializedPort
<1> HIDE DEF new
<1>3. /\ ports' = [p \in PortName |-> ports'[p]]
      /\ \A p \in PortName : IsPort(ports'[p])
  BY <1>1, <1>2 DEF TypeOK
<1>4. IsNet(net') /\ idle' \in SUBSET PortName
  BY DEF CreateUninitializedPort, TypeOK, IsNet
<1>5. life' \in [End -> {"unmade", "open", "closed"}]
  BY DEF CreateUninitializedPort, TypeOK
<1>6. /\ oops' = oops /\ sent' = sent /\ eof' = eof
      /\ crashed' \in SUBSET Nodes /\ got' \in [End -> Nat]
  BY DEF CreateUninitializedPort, TypeOK
<1> QED BY <1>3, <1>4, <1>5, <1>6, PortsStepType

\* InitializePort.
LEMMA InitializePortType ==
  ASSUME TypeOK, NEW e \in End, InitializePort(e)
  PROVE  TypeOK'
<1> DEFINE p0 == FirstPort(e)
           new == Initialized(ports[p0], Home[Other(e)], FirstPort(Other(e)))
<1>1. /\ p0 \in PortName
      /\ Home[Other(e)] \in Nodes
      /\ FirstPort(Other(e)) \in PortName
  BY EndParts, HomeAssumption
<1>2. IsPort(ports[p0]) /\ ports[p0].node \in Nodes
  BY <1>1 DEF InitializePort, TypeOK, IsPort
<1>3. ports' = [ports EXCEPT ![p0] = new]
  BY DEF InitializePort
<1> HIDE DEF p0
<1>4. IsPort(new)
  BY <1>1, <1>2, InitializedType
<1> HIDE DEF new
<1>5. /\ ports' = [p \in PortName |-> ports'[p]]
      /\ \A p \in PortName : IsPort(ports'[p])
  BY <1>1, <1>3, <1>4 DEF TypeOK
<1>6. IsNet(net') /\ idle' \in SUBSET PortName
  BY DEF InitializePort, TypeOK, IsNet
<1>7. /\ life' \in [End -> {"unmade", "open", "closed"}]
      /\ oops' = oops /\ sent' = sent /\ eof' = eof
      /\ crashed' \in SUBSET Nodes /\ got' \in [End -> Nat]
  BY DEF InitializePort, TypeOK
<1> QED BY <1>5, <1>6, <1>7, PortsStepType

\* CreatePortPair.
LEMMA CreatePortPairType ==
  ASSUME TypeOK, NEW pipe \in Pipes, CreatePortPair(pipe)
  PROVE  TypeOK'
<1> DEFINE e0 == <<pipe, 0>>
           e1 == <<pipe, 1>>
           new(e) == Initialized(
                       NewPort(Home[e], kInitialSequenceNum,
                               kInitialSequenceNum),
                       Home[Other(e)], FirstPort(Other(e)))
<1>1. e0 \in End /\ e1 \in End
  BY DEF End
<1>2. /\ IsPort(new(e0)) /\ IsPort(new(e1))
      /\ FirstPort(e0) \in PortName /\ FirstPort(e1) \in PortName
  BY <1>1, FirstPortType, EndParts
<1>3. ports' = [ports EXCEPT ![FirstPort(e0)] = new(e0),
                             ![FirstPort(e1)] = new(e1)]
  BY DEF CreatePortPair
<1>4. life' \in [End -> {"unmade", "open", "closed"}]
  BY DEF CreatePortPair, TypeOK
<1> HIDE DEF new, e0, e1
<1>5. /\ ports' = [p \in PortName |-> ports'[p]]
      /\ \A p \in PortName : IsPort(ports'[p])
  BY <1>2, <1>3 DEF TypeOK
<1>6. IsNet(net') /\ idle' \in SUBSET PortName
  BY DEF CreatePortPair, TypeOK, IsNet
<1>7. /\ oops' = oops /\ sent' = sent /\ eof' = eof
      /\ crashed' \in SUBSET Nodes /\ got' \in [End -> Nat]
  BY DEF CreatePortPair, TypeOK
<1> QED BY <1>4, <1>5, <1>6, <1>7, PortsStepType

\* The queue of a port after a read.
LEMMA ReadPortType ==
  ASSUME NEW port, IsPort(port), NEW m
  PROVE  IsPort([port EXCEPT !.message_queue = AfterGetNextMessage(@, m)])
<1> DEFINE old == port.message_queue
           queue == AfterGetNextMessage(old, m)
           new == [port EXCEPT !.message_queue = queue]
<1>1. /\ old \in [heap : SUBSET QueuedMessage, next_sequence_num : Int,
                  signalable : BOOLEAN]
      /\ IsFiniteSet(old.heap)
  BY DEF IsPort, Port
<1> HIDE DEF old
<1>2. /\ queue \in [heap : SUBSET QueuedMessage, next_sequence_num : Int,
                    signalable : BOOLEAN]
      /\ queue.heap \subseteq old.heap
  <2>1. old.heap \ {m} \in SUBSET QueuedMessage
    BY <1>1
  <2>2. old.next_sequence_num + 1 \in Int
    BY <1>1
  <2>3. queue \in [heap : SUBSET QueuedMessage, next_sequence_num : Int,
                   signalable : BOOLEAN]
    BY <1>1, <2>1, <2>2 DEF AfterGetNextMessage
  <2>4. queue.heap = old.heap \ {m}
    BY <1>1 DEF AfterGetNextMessage
  <2> QED BY <2>3, <2>4
<1>3. IsFiniteSet(queue.heap)
  BY <1>1, <1>2, FS_Subset
<1> HIDE DEF queue
<1>4. /\ new \in Port
      /\ new.message_queue = queue
      /\ new.state = port.state /\ new.node = port.node
      /\ new.peer_node_name = port.peer_node_name
      /\ new.peer_port_name = port.peer_port_name
  BY <1>2 DEF IsPort, Port
<1> HIDE DEF new
<1>5. IsPort(new)
  BY <1>3, <1>4 DEF IsPort, HasPeerName
<1> QED BY <1>5 DEF new, queue, old

\* A port that its embedder was handed becomes signalable.
LEMMA SignalablePortType ==
  ASSUME NEW port, IsPort(port)
  PROVE  IsPort([port EXCEPT !.message_queue = SetSignalable(@, TRUE)])
<1> DEFINE old == port.message_queue
           queue == SetSignalable(old, TRUE)
           new == [port EXCEPT !.message_queue = queue]
<1>1. old \in [heap : SUBSET QueuedMessage, next_sequence_num : Int,
               signalable : BOOLEAN]
  BY DEF IsPort, Port
<1>2. /\ queue \in [heap : SUBSET QueuedMessage, next_sequence_num : Int,
                    signalable : BOOLEAN]
      /\ queue.heap = old.heap
  <2> HIDE DEF old
  <2> QED BY <1>1 DEF SetSignalable
<1> HIDE DEF queue
<1>3. /\ new \in Port
      /\ new.message_queue = queue
      /\ new.state = port.state /\ new.node = port.node
      /\ new.peer_node_name = port.peer_node_name
      /\ new.peer_port_name = port.peer_port_name
  BY <1>2 DEF IsPort, Port
<1> HIDE DEF new
<1>4. IsPort(new)
  BY <1>2, <1>3 DEF IsPort, HasPeerName
<1> QED BY <1>4 DEF new, queue

\* GetMessage returns a message.
LEMMA GetMessageType ==
  ASSUME TypeOK, NEW p \in PortName, NEW m \in ports[p].message_queue.heap,
         GetMessage(p, m)
  PROVE  TypeOK'
<1> DEFINE read(q) == [ports[q] EXCEPT !.message_queue =
                         AfterGetNextMessage(@, m)]
           handed(q) == [ports[q] EXCEPT !.message_queue =
                           SetSignalable(@, TRUE)]
<1>1. \A q \in PortName : IsPort(read(q)) /\ IsPort(handed(q))
  BY ReadPortType, SignalablePortType DEF TypeOK
<1>2. ports' = [q \in PortName |-> IF q = p THEN read(q)
                                   ELSE IF q \in m.ports THEN handed(q)
                                   ELSE ports[q]]
  BY DEF GetMessage
<1> HIDE DEF read, handed
<1>3. /\ ports' = [q \in PortName |-> ports'[q]]
      /\ \A q \in PortName : IsPort(ports'[q])
  BY <1>1, <1>2 DEF TypeOK
<1>4. got' \in [End -> Nat]
  <2>1. m.body \in Nat
    <3>1. m \in QueuedMessage
      BY DEF TypeOK, Port
    <3> QED BY <3>1 DEF QueuedMessage
  <2>2. got' = [got EXCEPT ![EndOf(p)] = m.body] /\ got \in [End -> Nat]
    BY DEF GetMessage, TypeOK
  <2> QED BY <2>1, <2>2
<1>5. IsNet(net') /\ idle' \in SUBSET PortName
  BY DEF GetMessage, TypeOK, IsNet
<1>6. /\ life' \in [End -> {"unmade", "open", "closed"}]
      /\ oops' = oops /\ sent' = sent /\ eof' = eof
      /\ crashed' \in SUBSET Nodes
  BY DEF GetMessage, TypeOK
<1> QED BY <1>3, <1>4, <1>5, <1>6, PortsStepType

\* GetMessage returns none.
LEMMA GetNothingType ==
  ASSUME TypeOK, NEW p \in PortName, GetNothing(p)
  PROVE  TypeOK'
<1>1. idle' \in SUBSET PortName /\ eof' \in SUBSET End
  BY EndOfType DEF GetNothing, TypeOK
<1>2. UNCHANGED <<ports, net, oops, crashed, life, sent, got>>
  BY DEF GetNothing
<1> QED BY <1>1, <1>2 DEF TypeOK

\* A node is lost.
LEMMA CrashType ==
  ASSUME TypeOK, NEW n \in Nodes, Crash(n)
  PROVE  TypeOK'
<1>1. /\ ports' = [p \in PortName |-> ports'[p]]
      /\ \A p \in PortName : IsPort(ports'[p])
  BY AbsentPortType DEF Crash, TypeOK
<1>2. IsNet(net')
  <2> DEFINE S == {m \in DOMAIN net : m.to # n}
  <2>1. net' = [m \in S |-> net[m]] /\ S \in SUBSET DOMAIN net
    BY DEF Crash
  <2>2. IsNet(net)
    BY DEF TypeOK, IsNet
  <2> HIDE DEF S
  <2> QED BY <2>1, <2>2, NetPart
<1>3. idle' \in SUBSET PortName /\ crashed' \in SUBSET Nodes
  BY DEF Crash, TypeOK
<1>4. /\ life' \in [End -> {"unmade", "open", "closed"}]
      /\ oops' = oops /\ sent' = sent /\ eof' = eof
      /\ got' \in [End -> Nat]
  BY DEF Crash, TypeOK
<1> QED BY <1>1, <1>2, <1>3, <1>4, PortsStepType

\* LostConnectionToNode.
LEMMA LostConnectionToNodeType ==
  ASSUME TypeOK, NEW n \in Nodes, NEW lost \in Nodes,
         LostConnectionToNode(n, lost)
  PROVE  TypeOK'
<1> DEFINE cut(p) == [ports[p] EXCEPT
                        !.peer_closed = TRUE,
                        !.last_sequence_num_to_receive =
                           ports[p].message_queue.next_sequence_num - 1]
<1>1. ASSUME NEW p \in PortName PROVE IsPort(cut(p))
  <2> DEFINE port == ports[p]
             last == port.message_queue.next_sequence_num - 1
  <2>1. IsPort(port)
    BY DEF TypeOK
  <2> HIDE DEF port
  <2>2. last \in Int
    BY <2>1 DEF IsPort, Port
  <2> HIDE DEF last
  <2>3. IsPort([port EXCEPT !.peer_closed = TRUE,
                            !.last_sequence_num_to_receive = last])
    BY <2>1, <2>2 DEF IsPort, Port, HasPeerName
  <2> QED BY <2>3 DEF port, last
<1>2. ports' = [p \in PortName |->
                  IF p \in ErasedByLoss(n, lost) THEN AbsentPort
                  ELSE IF p \in ClosedByLoss(n, lost) THEN cut(p)
                  ELSE ports[p]]
  BY DEF LostConnectionToNode
<1> HIDE DEF cut
<1>3. /\ ports' = [p \in PortName |-> ports'[p]]
      /\ \A p \in PortName : IsPort(ports'[p])
  BY <1>1, <1>2, AbsentPortType DEF TypeOK
<1>4. IsNet(net')
  <2> DEFINE S == DOMAIN net \ {m \in DOMAIN net : m.from = lost /\ m.to = n}
  <2>1. net' = [m \in S |-> net[m]] /\ S \in SUBSET DOMAIN net
    BY DEF LostConnectionToNode
  <2>2. IsNet(net)
    BY DEF TypeOK, IsNet
  <2> HIDE DEF S
  <2> QED BY <2>1, <2>2, NetPart
<1>5. idle' \in SUBSET PortName /\ crashed' \in SUBSET Nodes
  BY DEF LostConnectionToNode, TypeOK
<1>6. /\ life' \in [End -> {"unmade", "open", "closed"}]
      /\ oops' = oops /\ sent' = sent /\ eof' = eof
      /\ got' \in [End -> Nat]
  BY DEF LostConnectionToNode, TypeOK
<1> QED BY <1>3, <1>4, <1>5, <1>6, PortsStepType
-----------------------------------------------------------------------------
(***************************************************************************)
(* The variables of the protocol keep their types: every handler of        *)
(* node.cc leaves ports in a legal state, every event in flight is for a   *)
(* named port of an existing node, a port that exists is on a node, and a  *)
(* port that knows the node of its peer knows the peer's name.             *)
(***************************************************************************)
THEOREM TypeCorrect == Spec => []TypeOK
<1>1. Init => TypeOK
  <2> SUFFICES ASSUME Init PROVE TypeOK
    OBVIOUS
  <2>1. \A p \in PortName : IsPort(InitialPort(EndOf(p)))
    BY EndOfType, FirstPortType, AbsentPortType DEF InitialPort
  <2>2. \A p \in PortName : IsPort(ports[p])
    BY <2>1, AbsentPortType DEF Init
  <2>3. ports \in [PortName -> Port]
    BY <2>2 DEF Init, IsPort
  <2>4. IsABag(net) /\ \A m \in DOMAIN net : IsEnvelope(m)
    BY DEF Init, EmptyBag, SetToBag, IsABag
  <2>5. life \in [End -> {"unmade", "open", "closed"}]
    BY DEF Init
  <2>6. sent \in [End -> Nat] /\ got \in [End -> Nat]
    BY DEF Init
  <2>7. oops \in BOOLEAN /\ crashed \in SUBSET Nodes /\ eof \in SUBSET End
        /\ idle \in SUBSET PortName
    BY DEF Init
  <2> QED BY <2>2, <2>3, <2>4, <2>5, <2>6, <2>7 DEF TypeOK
<1>2. TypeOK /\ [Next]_vars => TypeOK'
  <2> SUFFICES ASSUME TypeOK, [Next]_vars PROVE TypeOK'
    OBVIOUS
  <2>1. CASE EmbedderStep
    <3>1. ASSUME NEW e \in End, CreateUninitializedPort(e) \/ InitializePort(e)
          PROVE  TypeOK'
      BY <3>1, CreateUninitializedPortType, InitializePortType
    <3>2. ASSUME NEW pipe \in Pipes, CreatePortPair(pipe) PROVE TypeOK'
      BY <3>2, CreatePortPairType
    <3>3. ASSUME NEW p \in PortName, NEW cargo \in SUBSET CargoFor(p),
                 SendMessage(p, cargo)
          PROVE  TypeOK'
      <4>1. cargo \in SUBSET PortName
        BY DEF CargoFor
      <4> QED BY <3>3, <4>1, SendMessageType
    <3>4. ASSUME NEW p \in PortName, NEW m \in ports[p].message_queue.heap,
                 GetMessage(p, m)
          PROVE  TypeOK'
      BY <3>4, GetMessageType
    <3>5. ASSUME NEW p \in PortName, GetNothing(p) \/ ClosePort(p)
          PROVE  TypeOK'
      BY <3>5, GetNothingType, ClosePortType
    <3> QED BY <2>1, <3>1, <3>2, <3>3, <3>4, <3>5 DEF EmbedderStep
  <2>2. CASE FailureStep
    BY <2>2, CrashType, LostConnectionToNodeType DEF FailureStep
  <2>3. CASE TransportStep
    BY <2>3, DeliverType DEF TransportStep
  <2>4. CASE UNCHANGED vars
    BY <2>4 DEF vars, TypeOK
  <2> QED BY <2>1, <2>2, <2>3, <2>4 DEF Next
<1> QED BY <1>1, <1>2, PTL DEF Spec

-----------------------------------------------------------------------------
(***************************************************************************)
(* Who may do what to a port name.  A name is claimed by the event or the  *)
(* port that will act on it: the user message in which it is in flight,    *)
(* the message or PortAccepted that will end its buffering (a move), the   *)
(* event or send_on_proxy_removal that is to remove it, and the unread     *)
(* message that carries it.                                                *)
(***************************************************************************)
Kinds == {"flight", "move", "removal", "carried"}

\* The claims of an event ...
Claims(event, k, p) ==
  \/ /\ k = "flight" /\ event.type = "User"
     /\ p \in DOMAIN event.descriptors
  \/ /\ k = "move" /\ event.type = "User"
     /\ GenerateRandomPortName(p) \in DOMAIN event.descriptors
  \/ k = "move" /\ event.type = "PortAccepted" /\ event.port_name = p
  \/ k = "removal" /\ event.type = "ObserveProxy" /\ event.proxy_port_name = p
  \/ k = "removal" /\ event.type = "ObserveProxyAck" /\ event.port_name = p

\* ... and of a port.
Keeps(port, k, p) ==
  \/ k = "removal" /\ port.send_on_proxy_removal = p
  \/ k = "carried" /\ \E m \in port.message_queue.heap : p \in m.ports

InNet(w, k, p) == \E m \in DOMAIN w.net : Claims(m.event, k, p)

InPort(w, k, p) == \E q \in PortName : Keeps(w.ports[q], k, p)

\* A claim is in hand while a handler has it and nothing else does.
Claimed(w, hand, k, p) ==
  <<k, p>> \in hand \/ InNet(w, k, p) \/ InPort(w, k, p)

\* Nothing is claimed twice.
ExclusiveClaim(w, hand, k, p) ==
  /\ \A m \in DOMAIN w.net : Claims(m.event, k, p) => w.net[m] = 1
  /\ \A m1, m2 \in DOMAIN w.net :
       Claims(m1.event, k, p) /\ Claims(m2.event, k, p) => m1 = m2
  /\ \A q1, q2 \in PortName :
       Keeps(w.ports[q1], k, p) /\ Keeps(w.ports[q2], k, p) => q1 = q2
  /\ ~(InNet(w, k, p) /\ InPort(w, k, p))
  /\ <<k, p>> \in hand => ~InNet(w, k, p) /\ ~InPort(w, k, p)

Exclusive(w, hand) ==
  \A k \in Kinds : \A p \in PortName : ExclusiveClaim(w, hand, k, p)

\* No two messages of a queue carry the same port.
Apart(port) ==
  \A m1, m2 \in port.message_queue.heap :
    \A p \in PortName : p \in m1.ports /\ p \in m2.ports => m1 = m2

\* The names of an end are used in order: a name is fresh while an earlier one
\* is the end, or on its way to be.
Below(f, r) == EndOf(f) = EndOf(r) /\ f[3] < r[3]

Front(w, hand, f) ==
  \/ w.ports[f].state \in {"Uninitialized", "Receiving"}
  \/ Claimed(w, hand, "flight", f)

Fresh(w, hand, r) ==
  \/ life[EndOf(r)] = "unmade"
  \/ \E f \in PortName : Below(f, r) /\ Front(w, hand, f)

Unclaimed(w, hand, p) ==
  /\ ~Claimed(w, hand, "removal", p)
  /\ ~Claimed(w, hand, "move", p)

\* What a claim says about the port.
PortStatus(w, hand, p) ==
  /\ Claimed(w, hand, "flight", p) =>
       w.ports[p].state = "Absent" /\ Unclaimed(w, hand, p)
  /\ Claimed(w, hand, "removal", p) => w.ports[p].state \in {"Proxying", "Absent"}
  /\ Claimed(w, hand, "move", p) => w.ports[p].state \in {"Buffering", "Absent"}
  /\ Claimed(w, hand, "carried", p) =>
       /\ w.ports[p].state = "Receiving"
       /\ w.ports[p].message_queue.signalable = FALSE
  /\ Fresh(w, hand, p) =>
       /\ w.ports[p].state = "Absent"
       /\ ~Claimed(w, hand, "flight", p)
       /\ Unclaimed(w, hand, p)

Status(w, hand) ==
  \A p \in PortName :
    /\ PortStatus(w, hand, p)
    /\ Apart(w.ports[p])
    /\ \A q \in PortName : Keeps(w.ports[q], "carried", p) =>
         w.ports[p].node = w.ports[q].node

\* The port that r succeeds waits for the node r goes to, unless it is lost.
Referred(w, n, r, d) ==
  LET p == Predecessor(r)
  IN /\ d.referring_port_name = p
     /\ p \in PortName
     /\ \/ d.referring_node_name \in crashed
        \/ /\ w.ports[p].state = "Buffering"
           /\ w.ports[p].node = d.referring_node_name
           /\ w.ports[p].peer_node_name = n

\* An event in flight finds what it expects.
Awaited(w, m) ==
  /\ m.to \notin crashed
  /\ m.event.type = "PortAccepted" =>
       LET port == w.ports[m.event.port_name]
       IN /\ port.state = "Buffering"
          /\ port.node = m.to
          /\ port.peer_node_name = m.from
  /\ m.event.type = "User" =>
       \A r \in DOMAIN m.event.descriptors :
         Referred(w, m.to, r, m.event.descriptors[r])

Good(w, hand) ==
  /\ w.oops = FALSE
  /\ Exclusive(w, hand)
  /\ Status(w, hand)
  /\ \A m \in DOMAIN w.net : Awaited(w, m)

-----------------------------------------------------------------------------
(* Bags and names.                                                         *)

\* What is in flight once a set of envelopes is added.
LEMMA PlusBag ==
  ASSUME NEW bag, IsABag(bag), NEW S
  PROVE  LET more == bag (+) SetToBag(S)
         IN /\ DOMAIN more = DOMAIN bag \cup S
            /\ \A m \in DOMAIN bag \ S : more[m] = bag[m]
            /\ \A m \in S \ DOMAIN bag : more[m] = 1
  BY DEF IsABag, SetToBag, (+)

\* What is in flight once an envelope is taken.
LEMMA MinusBag ==
  ASSUME NEW bag, IsABag(bag), NEW m \in DOMAIN bag
  PROVE  LET less == bag (-) SetToBag({m})
         IN /\ DOMAIN less \subseteq DOMAIN bag
            /\ \A x \in DOMAIN less \ {m} : less[x] = bag[x]
            /\ bag[m] = 1 => m \notin DOMAIN less
  BY DEF IsABag, SetToBag, (-)

\* The names of an end are ordered.
LEMMA BelowNext ==
  ASSUME NEW q \in PortName, NEW f \in PortName,
         GenerateRandomPortName(q) \in PortName
  PROVE  /\ Below(q, GenerateRandomPortName(q))
         /\ EndOf(GenerateRandomPortName(q)) = EndOf(q)
         /\ Below(f, GenerateRandomPortName(q)) => f = q \/ Below(f, q)
<1>1. /\ f = <<f[1], f[2], f[3]>> /\ f[3] \in Int
      /\ q = <<q[1], q[2], q[3]>> /\ q[3] \in Int
  <2>1. MaxGen[f[1]] \in Nat /\ MaxGen[q[1]] \in Nat
    BY NameParts, MaxGenAssumption
  <2> QED BY <2>1, NameParts
<1>2. f[1] = q[1] /\ f[2] = q[2] /\ f[3] = q[3] => f = q
  BY <1>1
<1> QED BY <1>1, <1>2 DEF Below, EndOf, GenerateRandomPortName

\* Being below is transitive.
LEMMA BelowBelow ==
  ASSUME NEW a \in PortName, NEW b \in PortName, NEW c \in PortName,
         Below(a, b), Below(b, c)
  PROVE  Below(a, c)
<1>1. a[3] \in Int /\ b[3] \in Int /\ c[3] \in Int
  <2>1. /\ MaxGen[a[1]] \in Nat /\ MaxGen[b[1]] \in Nat
        /\ MaxGen[c[1]] \in Nat
    BY NameParts, MaxGenAssumption
  <2> QED BY <2>1, NameParts
<1> QED BY <1>1 DEF Below

\* A name succeeds one other.
LEMMA PredecessorOf ==
  ASSUME NEW r, NEW p \in PortName, r = GenerateRandomPortName(p)
  PROVE  Predecessor(r) = p
<1>1. p = <<p[1], p[2], p[3]>> /\ p[3] \in Int
  <2>1. MaxGen[p[1]] \in Nat
    BY NameParts, MaxGenAssumption
  <2> QED BY <2>1, NameParts
<1> QED BY <1>1 DEF Predecessor, GenerateRandomPortName

\* A name is the successor of its predecessor.
LEMMA SuccessorOf ==
  ASSUME NEW r \in PortName
  PROVE  GenerateRandomPortName(Predecessor(r)) = r
<1>1. r = <<r[1], r[2], r[3]>> /\ r[3] \in Int
  <2>1. MaxGen[r[1]] \in Nat
    BY NameParts, MaxGenAssumption
  <2> QED BY <2>1, NameParts
<1> QED BY <1>1 DEF Predecessor, GenerateRandomPortName
-----------------------------------------------------------------------------
(* Steps that claim nothing new.                                           *)

\* A port is as it was, for those with claims on it.
SamePort(a, b) ==
  /\ b.state = a.state
  /\ b.node = a.node
  /\ b.message_queue.signalable = a.message_queue.signalable

\* Claims say the same of ports that stay or go.
LEMMA StatusEase ==
  ASSUME NEW w, NEW hand, NEW w2, NEW hand2, Status(w, hand),
         \A k \in Kinds : \A p \in PortName :
           Claimed(w2, hand2, k, p) => Claimed(w, hand, k, p),
         \A p \in PortName :
           \/ SamePort(w.ports[p], w2.ports[p])
           \/ /\ w2.ports[p].state = "Absent"
              /\ ~Claimed(w2, hand2, "carried", p),
         \A p \in PortName : Apart(w2.ports[p]),
         \A p, q \in PortName : Keeps(w2.ports[q], "carried", p) =>
           w2.ports[p].node = w2.ports[q].node
  PROVE  Status(w2, hand2)
<1> SUFFICES ASSUME NEW p \in PortName PROVE PortStatus(w2, hand2, p)
  BY DEF Status
<1>1. PortStatus(w, hand, p)
  BY DEF Status
<1>2. \A k \in Kinds : Claimed(w2, hand2, k, p) => Claimed(w, hand, k, p)
  OBVIOUS
<1>3. \A f \in PortName : Front(w2, hand2, f) => Front(w, hand, f)
  BY DEF Front, SamePort, Kinds
<1>4. Fresh(w2, hand2, p) => Fresh(w, hand, p)
  BY <1>3 DEF Fresh
<1>5. Unclaimed(w, hand, p) => Unclaimed(w2, hand2, p)
  BY <1>2 DEF Unclaimed, Kinds
<1>6. \/ SamePort(w.ports[p], w2.ports[p])
      \/ /\ w2.ports[p].state = "Absent"
         /\ ~Claimed(w2, hand2, "carried", p)
  OBVIOUS
<1> QED
  BY ONLY <1>1, <1>2, <1>4, <1>5, <1>6 DEF PortStatus, SamePort, Kinds

\* Events find what they expect while buffering ports stay.
LEMMA AwaitedEase ==
  ASSUME NEW w, NEW w2, NEW m, Awaited(w, m),
         \A p \in PortName :
           Claims(m.event, "move", p) /\ w.ports[p].state = "Buffering" =>
             /\ w2.ports[p].state = "Buffering"
             /\ w2.ports[p].node = w.ports[p].node
             /\ w2.ports[p].peer_node_name = w.ports[p].peer_node_name,
         IsEnvelope(m)
  PROVE  Awaited(w2, m)
<1>1. CASE m.event.type = "PortAccepted"
  <2>1. m.event.port_name \in PortName
    BY <1>1 DEF IsEnvelope, IsUserEvent, InternalEvent
  <2>2. Claims(m.event, "move", m.event.port_name)
    BY <1>1 DEF Claims
  <2> QED BY <1>1, <2>1, <2>2 DEF Awaited
<1>2. CASE m.event.type = "User"
  <2>1. DOMAIN m.event.descriptors \subseteq PortName
    BY <1>2 DEF IsEnvelope, IsUserEvent, InternalEvent
  <2>2. ASSUME NEW r \in DOMAIN m.event.descriptors
        PROVE  Referred(w2, m.to, r, m.event.descriptors[r])
    <3>1. Referred(w, m.to, r, m.event.descriptors[r])
      BY <1>2 DEF Awaited
    <3>2. GenerateRandomPortName(Predecessor(r)) = r
      BY <2>1, SuccessorOf
    <3>3. Claims(m.event, "move", Predecessor(r))
      BY <1>2, <3>2 DEF Claims
    <3> QED BY <3>1, <3>3 DEF Referred
  <2> QED BY <1>2, <2>2 DEF Awaited
<1>3. CASE m.event.type \notin {"PortAccepted", "User"}
  BY <1>3 DEF Awaited
<1> QED BY <1>1, <1>2, <1>3

\* What a handler has in hand may be dropped.
LEMMA GoodLess ==
  ASSUME NEW w, NEW hand, Good(w, hand), NEW hand2 \in SUBSET hand
  PROVE  Good(w, hand2)
<1>1. \A k \in Kinds : \A p \in PortName :
        Claimed(w, hand2, k, p) => Claimed(w, hand, k, p)
  BY DEF Claimed
<1>2. Exclusive(w, hand2)
  BY DEF Good, Exclusive, ExclusiveClaim
<1>3. Status(w, hand)
  BY DEF Good
<1>4. \A p \in PortName : SamePort(w.ports[p], w.ports[p])
  BY DEF SamePort
<1>5. /\ \A p \in PortName : Apart(w.ports[p])
      /\ \A p, q \in PortName : Keeps(w.ports[q], "carried", p) =>
           w.ports[p].node = w.ports[q].node
  BY <1>3 DEF Status
<1>6. Status(w, hand2)
  BY <1>1, <1>3, <1>4, <1>5, StatusEase
<1> QED BY <1>2, <1>6 DEF Good

\* Envelopes are put in flight: their claims are taken out of the hand.
LEMMA GoodAdd ==
  ASSUME NEW w, IsWorld(w), NEW hand, Good(w, hand), NEW S, NEW u,
         u.ports = w.ports, u.oops = w.oops,
         u.net = w.net (+) SetToBag(S),
         \A m \in S : \A k \in Kinds : \A p \in PortName :
           Claims(m.event, k, p) => <<k, p>> \in hand,
         \A m1, m2 \in S : \A k \in Kinds : \A p \in PortName :
           Claims(m1.event, k, p) /\ Claims(m2.event, k, p) => m1 = m2,
         \A m \in S : Awaited(w, m),
         NEW hand2 \in SUBSET hand,
         \A m \in S : \A k \in Kinds : \A p \in PortName :
           Claims(m.event, k, p) => <<k, p>> \notin hand2
  PROVE  Good(u, hand2)
<1>1. IsABag(w.net)
  BY DEF IsWorld, IsNet
<1>2. /\ DOMAIN u.net = DOMAIN w.net \cup S
      /\ \A m \in DOMAIN w.net \ S : u.net[m] = w.net[m]
      /\ \A m \in S \ DOMAIN w.net : u.net[m] = 1
  BY <1>1, PlusBag
<1>3. \A k \in Kinds : \A p \in PortName :
        /\ InPort(u, k, p) <=> InPort(w, k, p)
        /\ InNet(u, k, p) <=>
             InNet(w, k, p) \/ \E m \in S : Claims(m.event, k, p)
  BY <1>2 DEF InNet, InPort
<1>4. Exclusive(u, hand2)
  <2> SUFFICES ASSUME NEW k \in Kinds, NEW p \in PortName
               PROVE  ExclusiveClaim(u, hand2, k, p)
    BY DEF Exclusive
  <2>1. ExclusiveClaim(w, hand, k, p)
    BY DEF Good, Exclusive
  <2>2. \A m \in S : Claims(m.event, k, p) =>
          /\ m \notin DOMAIN w.net
          /\ ~InNet(w, k, p) /\ ~InPort(w, k, p)
          /\ <<k, p>> \notin hand2
    BY <2>1 DEF ExclusiveClaim, InNet
  <2>3. \A m1, m2 \in S : Claims(m1.event, k, p) /\ Claims(m2.event, k, p)
           => m1 = m2
    OBVIOUS
  <2>4. \A m \in DOMAIN u.net : Claims(m.event, k, p) => u.net[m] = 1
    BY <1>2, <2>1, <2>2 DEF ExclusiveClaim
  <2>5. \A m1, m2 \in DOMAIN u.net :
          Claims(m1.event, k, p) /\ Claims(m2.event, k, p) => m1 = m2
    BY <1>2, <2>1, <2>2, <2>3 DEF ExclusiveClaim, InNet
  <2>6. ~(InNet(u, k, p) /\ InPort(u, k, p))
    BY <1>3, <2>1, <2>2 DEF ExclusiveClaim
  <2>7. <<k, p>> \in hand2 => ~InNet(u, k, p) /\ ~InPort(u, k, p)
    BY <1>3, <2>1, <2>2 DEF ExclusiveClaim
  <2> QED BY <2>1, <2>4, <2>5, <2>6, <2>7 DEF ExclusiveClaim
<1>5. Status(u, hand2)
  <2>1. \A k \in Kinds : \A p \in PortName :
          Claimed(u, hand2, k, p) => Claimed(w, hand, k, p)
    BY <1>3 DEF Claimed
  <2>2. \A p \in PortName : SamePort(w.ports[p], u.ports[p])
    BY DEF SamePort
  <2>3. Status(w, hand)
    BY DEF Good
  <2>4. /\ \A p \in PortName : Apart(u.ports[p])
        /\ \A p, q \in PortName : Keeps(u.ports[q], "carried", p) =>
             u.ports[p].node = u.ports[q].node
    BY <2>3 DEF Status
  <2> QED BY <2>1, <2>2, <2>3, <2>4, StatusEase
<1>6. ASSUME NEW m \in DOMAIN u.net PROVE Awaited(u, m)
  <2>1. Awaited(w, m)
    BY <1>2 DEF Good
  <2> QED BY <2>1 DEF Awaited, Referred
<1> QED BY <1>4, <1>5, <1>6 DEF Good

\* ForwardMessage, for events whose claims are in hand.
LEMMA GoodForward ==
  ASSUME NEW w, IsWorld(w), NEW hand, Good(w, hand), NEW n, NEW to, NEW events,
         \A e \in events : \A k \in Kinds : \A p \in PortName :
           Claims(e, k, p) => <<k, p>> \in hand,
         \A e1, e2 \in events : \A k \in Kinds : \A p \in PortName :
           Claims(e1, k, p) /\ Claims(e2, k, p) => e1 = e2,
         \A e \in events : to \notin crashed => Awaited(w, Envelope(n, to, e)),
         NEW hand2 \in SUBSET hand,
         \A e \in events : \A k \in Kinds : \A p \in PortName :
           Claims(e, k, p) => <<k, p>> \notin hand2
  PROVE  Good(ForwardAll(w, n, to, events), hand2)
<1> DEFINE u == ForwardAll(w, n, to, events)
           S == {Envelope(n, to, e) : e \in events}
<1>1. CASE ~(to \in Nodes \ crashed)
  <2>1. u = w
    BY <1>1 DEF ForwardAll
  <2> QED BY <2>1, GoodLess
<1>2. CASE to \in Nodes \ crashed
  <2>1. /\ u.ports = w.ports
        /\ u.oops = w.oops
        /\ u.net = w.net (+) SetToBag(S)
    BY <1>2 DEF ForwardAll, IsWorld
  <2>2. \A m \in S : m.event \in events /\ m = Envelope(n, to, m.event)
    BY DEF Envelope
  <2> HIDE DEF S, u
  <2>3. /\ \A m \in S : \A k \in Kinds : \A p \in PortName :
             Claims(m.event, k, p) => <<k, p>> \in hand
        /\ \A m1, m2 \in S : \A k \in Kinds : \A p \in PortName :
             Claims(m1.event, k, p) /\ Claims(m2.event, k, p) => m1 = m2
        /\ \A m \in S : Awaited(w, m)
        /\ \A m \in S : \A k \in Kinds : \A p \in PortName :
             Claims(m.event, k, p) => <<k, p>> \notin hand2
    BY <1>2, <2>2
  <2> QED BY <2>1, <2>3, GoodAdd DEF u
<1> QED BY <1>1, <1>2

\* An event that claims nothing.
LEMMA GoodTell ==
  ASSUME NEW w, IsWorld(w), NEW hand, Good(w, hand), NEW n, NEW to, NEW event,
         event.type = "ObserveClosure"
  PROVE  Good(ForwardMessage(w, n, to, event), hand)
<1>1. \A k \in Kinds : \A p \in PortName : ~Claims(event, k, p)
  BY DEF Claims
<1>2. to \notin crashed => Awaited(w, Envelope(n, to, event))
  BY DEF Awaited, Envelope
<1> DEFINE events == {event}
<1>3. \A e \in events : e = event
  OBVIOUS
<1> HIDE DEF events
<1>4. Good(ForwardAll(w, n, to, events), hand)
  BY <1>1, <1>2, <1>3, GoodForward
<1> QED BY <1>4 DEF ForwardMessage, events

\* An event that is to remove a proxy: the right to do so is in hand.
LEMMA GoodAsk ==
  ASSUME NEW w, IsWorld(w), NEW hand, Good(w, hand), NEW n, NEW to, NEW event,
         event.type \in {"ObserveProxy", "ObserveProxyAck"},
         NEW p \in PortName, Claims(event, "removal", p),
         <<"removal", p>> \in hand
  PROVE  Good(ForwardMessage(w, n, to, event), hand \ {<<"removal", p>>})
<1>1. \A k \in Kinds : \A q \in PortName : Claims(event, k, q) =>
        k = "removal" /\ q = p
  BY DEF Claims
<1>2. to \notin crashed => Awaited(w, Envelope(n, to, event))
  BY DEF Awaited, Envelope
<1> DEFINE events == {event}
           hand2 == hand \ {<<"removal", p>>}
<1>3. \A e \in events : e = event
  OBVIOUS
<1>4. hand2 \in SUBSET hand /\ <<"removal", p>> \notin hand2
  OBVIOUS
<1> HIDE DEF events, hand2
<1>5. Good(ForwardAll(w, n, to, events), hand2)
  BY <1>1, <1>2, <1>3, <1>4, GoodForward
<1> QED BY <1>5 DEF ForwardMessage, events, hand2

\* Ports change within what their claims allow: they keep no more, and
\* what they give up may be taken in hand.
LEMMA GoodEase ==
  ASSUME NEW w, NEW hand, Good(w, hand), NEW w2, NEW hand2,
         w2.net = w.net, w2.oops = w.oops, \A m \in DOMAIN w.net : IsEnvelope(m),
         \A q \in PortName :
           /\ \A k \in Kinds : \A p \in PortName :
                Keeps(w2.ports[q], k, p) => Keeps(w.ports[q], k, p)
           /\ w2.ports[q].message_queue.heap \subseteq
                w.ports[q].message_queue.heap,
         \A k \in Kinds : \A p \in PortName : <<k, p>> \in hand2 =>
           \/ <<k, p>> \in hand
           \/ InPort(w, k, p) /\ ~InPort(w2, k, p),
         \A p \in PortName :
           \/ SamePort(w.ports[p], w2.ports[p])
           \/ /\ w.ports[p].state # "Buffering"
              /\ w2.ports[p].state = "Absent"
              /\ ~Claimed(w2, hand2, "carried", p),
         \A p \in PortName :
           w.ports[p].state = "Buffering" =>
             w2.ports[p].peer_node_name = w.ports[p].peer_node_name,
         \A p, q \in PortName : Keeps(w2.ports[q], "carried", p) =>
           w2.ports[p].node = w2.ports[q].node
  PROVE  Good(w2, hand2)
<1>1. \A k \in Kinds : \A p \in PortName :
        /\ InPort(w2, k, p) => InPort(w, k, p)
        /\ InNet(w2, k, p) <=> InNet(w, k, p)
  BY DEF InPort, InNet
<1>2. Exclusive(w2, hand2)
  <2> SUFFICES ASSUME NEW k \in Kinds, NEW p \in PortName
               PROVE  ExclusiveClaim(w2, hand2, k, p)
    BY DEF Exclusive
  <2>1. ExclusiveClaim(w, hand, k, p)
    BY DEF Good, Exclusive
  <2>2. <<k, p>> \in hand2 => ~InNet(w2, k, p) /\ ~InPort(w2, k, p)
    BY <1>1, <2>1 DEF ExclusiveClaim
  <2>3. \A q1, q2 \in PortName :
          Keeps(w2.ports[q1], k, p) /\ Keeps(w2.ports[q2], k, p) => q1 = q2
    BY <2>1 DEF ExclusiveClaim
  <2> QED BY <1>1, <2>1, <2>2, <2>3 DEF ExclusiveClaim
<1>3. Status(w, hand)
  BY DEF Good
<1>4. \A p \in PortName : Apart(w2.ports[p])
  BY <1>3 DEF Apart, Status
<1>5. \A k \in Kinds : \A p \in PortName :
        Claimed(w2, hand2, k, p) => Claimed(w, hand, k, p)
  BY <1>1 DEF Claimed
<1>6. Status(w2, hand2)
  BY <1>3, <1>4, <1>5, StatusEase
<1>7. \A m \in DOMAIN w2.net : Awaited(w2, m)
  <2>1. \A p \in PortName : w.ports[p].state = "Buffering" =>
          /\ w2.ports[p].state = "Buffering"
          /\ w2.ports[p].node = w.ports[p].node
          /\ w2.ports[p].peer_node_name = w.ports[p].peer_node_name
    BY DEF SamePort
  <2>2. \A m \in DOMAIN w.net : Awaited(w, m)
    BY DEF Good
  <2> QED BY <2>1, <2>2, AwaitedEase
<1> QED BY <1>2, <1>6, <1>7 DEF Good
-----------------------------------------------------------------------------
(* What the handlers do to claims.                                         *)

\* A name that is in no ports_ map keeps nothing.
LEMMA AbsentKeeps ==
  /\ AbsentPort.state = "Absent"
  /\ AbsentPort.message_queue.heap = {}
  /\ \A k \in Kinds : \A p \in PortName : ~Keeps(AbsentPort, k, p)
<1>1. /\ AbsentPort.state = "Absent"
      /\ AbsentPort.message_queue.heap = {}
      /\ AbsentPort.send_on_proxy_removal = NoPort
  BY DEF AbsentPort, NewPort, NewMessageQueue
<1> QED BY <1>1, NoPortAssumption DEF Keeps

\* One port of a world changes.
LEMMA OnePort ==
  ASSUME NEW w, IsWorld(w), NEW p \in PortName, NEW port
  PROVE  LET u == [w EXCEPT !.ports[p] = port]
         IN /\ u.net = w.net /\ u.oops = w.oops
            /\ u.ports[p] = port
            /\ \A q \in PortName : q # p => u.ports[q] = w.ports[q]
  BY DEF IsWorld

\* A port changes in what no claim is about.
LEMMA GoodQuiet ==
  ASSUME NEW w, IsWorld(w), NEW hand, Good(w, hand), NEW p \in PortName,
         NEW port, SamePort(w.ports[p], port),
         port.send_on_proxy_removal = w.ports[p].send_on_proxy_removal,
         port.message_queue.heap = w.ports[p].message_queue.heap,
         \/ port.peer_node_name = w.ports[p].peer_node_name
         \/ w.ports[p].state # "Buffering"
  PROVE  Good([w EXCEPT !.ports[p] = port], hand)
<1> DEFINE u == [w EXCEPT !.ports[p] = port]
<1>1. /\ u.net = w.net /\ u.oops = w.oops
      /\ u.ports[p] = port
      /\ \A q \in PortName : q # p => u.ports[q] = w.ports[q]
  BY OnePort
<1> HIDE DEF u
<1>2. \A q \in PortName :
        /\ SamePort(w.ports[q], u.ports[q])
        /\ u.ports[q].message_queue.heap = w.ports[q].message_queue.heap
        /\ \A k \in Kinds : \A x \in PortName :
             Keeps(u.ports[q], k, x) <=> Keeps(w.ports[q], k, x)
        /\ w.ports[q].state = "Buffering" =>
             u.ports[q].peer_node_name = w.ports[q].peer_node_name
  BY <1>1 DEF SamePort, Keeps
<1>3. \A x, q \in PortName : Keeps(u.ports[q], "carried", x) =>
        u.ports[x].node = u.ports[q].node
  BY <1>2 DEF Good, Status, SamePort, Kinds
<1>4. \A m \in DOMAIN w.net : IsEnvelope(m)
  BY DEF IsWorld, IsNet
<1>5. \A k \in Kinds : \A x \in PortName : <<k, x>> \in hand => <<k, x>> \in hand
  OBVIOUS
<1>6. Good(u, hand)
  BY <1>1, <1>2, <1>3, <1>4, GoodEase
<1> QED BY <1>6 DEF u

\* ErasePort of a port that no message carries: what it was to acknowledge is
\* in hand.
LEMMA GoodErase ==
  ASSUME NEW w, IsWorld(w), NEW hand, Good(w, hand), NEW p \in PortName,
         w.ports[p].state \in {"Proxying", "Uninitialized"}, NEW hand2,
         \A k \in Kinds : \A q \in PortName : <<k, q>> \in hand2 =>
           \/ <<k, q>> \in hand
           \/ k = "removal" /\ Keeps(w.ports[p], k, q)
  PROVE  Good(ErasePort(w, p), hand2)
<1> DEFINE u == ErasePort(w, p)
<1>1. /\ u.net = w.net /\ u.oops = w.oops
      /\ u.ports[p] = AbsentPort
      /\ \A q \in PortName : q # p => u.ports[q] = w.ports[q]
  BY OnePort DEF ErasePort
<1> HIDE DEF u
<1>2. \A q \in PortName :
        /\ u.ports[q].message_queue.heap \subseteq
             w.ports[q].message_queue.heap
        /\ \A k \in Kinds : \A x \in PortName :
             Keeps(u.ports[q], k, x) => q # p /\ Keeps(w.ports[q], k, x)
  BY <1>1, AbsentKeeps
<1>3. \A k \in Kinds : \A q \in PortName : <<k, q>> \in hand2 =>
        \/ <<k, q>> \in hand
        \/ InPort(w, k, q) /\ ~InPort(u, k, q)
  <2> SUFFICES ASSUME NEW k \in Kinds, NEW q \in PortName,
                      Keeps(w.ports[p], k, q)
               PROVE  InPort(w, k, q) /\ ~InPort(u, k, q)
    OBVIOUS
  <2>1. ExclusiveClaim(w, hand, k, q)
    BY DEF Good, Exclusive
  <2> QED BY <1>2, <2>1 DEF ExclusiveClaim, InPort
<1>4. ~Claimed(w, hand, "carried", p)
  BY DEF Good, Status, PortStatus
<1>5. /\ \A q \in PortName : ~Keeps(u.ports[q], "carried", p)
      /\ ~Claimed(u, hand2, "carried", p)
  <2>1. "carried" \in Kinds
    BY DEF Kinds
  <2>2. \A q \in PortName : ~Keeps(u.ports[q], "carried", p)
    BY <1>2, <1>4, <2>1 DEF Claimed, InPort
  <2> QED BY <1>1, <1>4, <2>1, <2>2 DEF Claimed, InPort, InNet
<1>6. \A q \in PortName :
        \/ SamePort(w.ports[q], u.ports[q])
        \/ /\ w.ports[q].state # "Buffering"
           /\ u.ports[q].state = "Absent"
           /\ ~Claimed(u, hand2, "carried", q)
  BY <1>1, <1>5, AbsentKeeps DEF SamePort
<1>7. \A q \in PortName : w.ports[q].state = "Buffering" =>
        u.ports[q].peer_node_name = w.ports[q].peer_node_name
  BY <1>1
<1>8. \A x, q \in PortName : Keeps(u.ports[q], "carried", x) =>
        u.ports[x].node = u.ports[q].node
  <2> SUFFICES ASSUME NEW x \in PortName, NEW q \in PortName,
                      Keeps(u.ports[q], "carried", x)
               PROVE  u.ports[x].node = u.ports[q].node
    OBVIOUS
  <2>1. x # p /\ q # p /\ Keeps(w.ports[q], "carried", x)
    BY <1>2, <1>5 DEF Kinds
  <2>2. w.ports[x].node = w.ports[q].node
    BY <2>1 DEF Good, Status
  <2> QED BY <1>1, <2>1, <2>2
<1>9. \A m \in DOMAIN w.net : IsEnvelope(m)
  BY DEF IsWorld, IsNet
<1>10. Good(u, hand2)
  BY <1>1, <1>2, <1>3, <1>6, <1>7, <1>8, <1>9, GoodEase
<1> QED BY <1>10 DEF u

\* MaybeRemoveProxy_Locked: the acknowledgement it kept is sent.
LEMMA GoodMaybeRemoveProxy ==
  ASSUME NEW w, IsWorld(w), NEW hand, Good(w, hand), NEW n \in Nodes,
         NEW p \in PortName, w.ports[p].state = "Proxying"
  PROVE  Good(MaybeRemoveProxy(w, n, p), hand)
<1> DEFINE port == w.ports[p]
           q == port.send_on_proxy_removal
           event == ObserveProxyAckEvent(q, kInvalidSequenceNum)
           hand2 == hand \cup {<<"removal", q>>}
<1>1. Good(ErasePort(w, p), hand)
  BY GoodErase
<1>2. ASSUME q # NoPort
      PROVE  Good(ForwardMessage(ErasePort(w, p), n, port.ack_node, event), hand)
  <2>1. q \in PortName
    BY <1>2 DEF IsWorld, Port
  <2>2. /\ Keeps(port, "removal", q)
        /\ Claims(event, "removal", q)
        /\ event.type = "ObserveProxyAck"
    BY DEF Keeps, Claims, ObserveProxyAckEvent
  <2>3. Good(ErasePort(w, p), hand2)
    <3>1. \A k \in Kinds : \A x \in PortName : <<k, x>> \in hand2 =>
            \/ <<k, x>> \in hand
            \/ k = "removal" /\ Keeps(w.ports[p], k, x)
      BY <2>2
    <3> HIDE DEF hand2
    <3> QED BY <3>1, GoodErase
  <2>4. IsWorld(ErasePort(w, p))
    BY ErasePortType
  <2>5. <<"removal", q>> \in hand2 /\ hand \subseteq hand2
    OBVIOUS
  <2>6. ~(<<"removal", q>> \in hand)
    <3>1. ExclusiveClaim(w, hand, "removal", q)
      BY <2>1 DEF Good, Exclusive, Kinds
    <3> QED BY <2>2, <3>1 DEF ExclusiveClaim, InPort
  <2> HIDE DEF hand2, event, q, port
  <2>7. Good(ForwardMessage(ErasePort(w, p), n, port.ack_node, event),
             hand2 \ {<<"removal", q>>})
    BY <2>1, <2>2, <2>3, <2>4, <2>5, GoodAsk
  <2>8. hand2 \ {<<"removal", q>>} = hand
    BY <2>6 DEF hand2
  <2> QED BY <2>7, <2>8
<1> QED BY <1>1, <1>2 DEF MaybeRemoveProxy

\* InitiateProxyRemoval_Locked: the right to remove p is in hand.
LEMMA GoodInitiateProxyRemoval ==
  ASSUME NEW w, IsWorld(w), NEW hand, Good(w, hand), NEW n,
         NEW p \in PortName, <<"removal", p>> \in hand
  PROVE  Good(InitiateProxyRemoval(w, n, p), hand \ {<<"removal", p>>})
<1> DEFINE port == w.ports[p]
           event == ObserveProxyEvent(port.peer_port_name, n, p,
                                      port.peer_node_name, port.peer_port_name)
<1>1. event.type = "ObserveProxy" /\ Claims(event, "removal", p)
  BY DEF Claims, ObserveProxyEvent
<1> HIDE DEF event
<1>2. Good(ForwardMessage(w, n, port.peer_node_name, event),
           hand \ {<<"removal", p>>})
  BY <1>1, GoodAsk
<1> QED BY <1>2 DEF InitiateProxyRemoval, event

\* ClosePort of several ports that are ends, with those that carry them.
LEMMA GoodCloseAll ==
  ASSUME NEW w, IsWorld(w), NEW hand, Good(w, hand), NEW n,
         NEW closing \in SUBSET PortName, NEW hand2 \in SUBSET hand,
         \A q \in closing :
           /\ w.ports[q].state = "Receiving"
           /\ <<"carried", q>> \notin hand2
           /\ \A x \in PortName :
                Keeps(w.ports[x], "carried", q) => x \in closing
  PROVE  Good(CloseAll(w, n, closing), hand2)
<1> DEFINE told == {q \in closing :
                      w.ports[q].peer_node_name \in Nodes \ crashed}
           f == [q \in PortName |-> IF q \in closing THEN AbsentPort
                                                     ELSE w.ports[q]]
           S == {ClosureOf(w, n, q) : q \in told}
           u == CloseAll(w, n, closing)
           v == [w EXCEPT !.ports = f]
<1>1. /\ u.ports = f /\ u.oops = w.oops
      /\ u.net = w.net (+) SetToBag(S)
      /\ v.ports = f /\ v.oops = w.oops /\ v.net = w.net
  BY DEF CloseAll, IsWorld
<1>2. \A q \in PortName : f[q] = IF q \in closing THEN AbsentPort
                                                  ELSE w.ports[q]
  OBVIOUS
<1>3. IsWorld(v)
  <2>1. \A q \in PortName : IsPort(f[q])
    BY AbsentPortType DEF IsWorld
  <2>2. f \in [PortName -> Port]
    BY <2>1 DEF IsPort
  <2> HIDE DEF f
  <2> QED BY <2>1, <2>2, WithPorts
<1>4. \A m \in S : m.event.type = "ObserveClosure" /\ m.to \notin crashed
  BY DEF ClosureOf, Envelope, ObserveClosureEvent
<1> HIDE DEF f, S, u, v
<1>5. \A q \in PortName :
        /\ v.ports[q].message_queue.heap \subseteq
             w.ports[q].message_queue.heap
        /\ \A k \in Kinds : \A x \in PortName :
             Keeps(v.ports[q], k, x) => q \notin closing /\ Keeps(w.ports[q], k, x)
  BY <1>1, <1>2, AbsentKeeps
<1>6. \A q \in closing : ~Claimed(v, hand2, "carried", q)
  <2>1. "carried" \in Kinds
    BY DEF Kinds
  <2>2. \A q \in closing : ~InPort(v, "carried", q)
    BY <1>5, <2>1 DEF InPort
  <2>3. \A q \in closing : ~InNet(v, "carried", q)
    BY DEF InNet, Claims
  <2> QED BY <2>2, <2>3 DEF Claimed
<1>7. \A q \in PortName :
        \/ SamePort(w.ports[q], v.ports[q])
        \/ /\ w.ports[q].state # "Buffering"
           /\ v.ports[q].state = "Absent"
           /\ ~Claimed(v, hand2, "carried", q)
  BY <1>1, <1>2, <1>6, AbsentKeeps DEF SamePort
<1>8. \A q \in PortName : w.ports[q].state = "Buffering" =>
        v.ports[q].peer_node_name = w.ports[q].peer_node_name
  BY <1>1, <1>2
<1>9. \A x, q \in PortName : Keeps(v.ports[q], "carried", x) =>
        v.ports[x].node = v.ports[q].node
  <2> SUFFICES ASSUME NEW x \in PortName, NEW q \in PortName,
                      Keeps(v.ports[q], "carried", x)
               PROVE  v.ports[x].node = v.ports[q].node
    OBVIOUS
  <2>1. q \notin closing /\ Keeps(w.ports[q], "carried", x)
    BY <1>5 DEF Kinds
  <2>2. x \notin closing
    BY <2>1
  <2>3. w.ports[x].node = w.ports[q].node
    BY <2>1 DEF Good, Status
  <2> QED BY <1>1, <1>2, <2>1, <2>2, <2>3
<1>10. \A m \in DOMAIN w.net : IsEnvelope(m)
  BY DEF IsWorld, IsNet
<1>11. \A k \in Kinds : \A x \in PortName :
         <<k, x>> \in hand2 => <<k, x>> \in hand
  OBVIOUS
<1>12. Good(v, hand2)
  BY <1>1, <1>5, <1>7, <1>8, <1>9, <1>10, <1>11, GoodEase
<1>13. /\ \A m \in S : \A k \in Kinds : \A p \in PortName :
            ~Claims(m.event, k, p)
       /\ \A m \in S : Awaited(v, m)
  BY <1>4 DEF Claims, Awaited
<1>14. hand2 \in SUBSET hand2
  OBVIOUS
<1>15. u.ports = v.ports /\ u.oops = v.oops /\ u.net = v.net (+) SetToBag(S)
  BY <1>1
<1>16. Good(u, hand2)
  BY <1>3, <1>12, <1>13, <1>14, <1>15, GoodAdd
<1> QED BY <1>16 DEF u

\* The ports that are closed with p: receiving ports, and with a port the one
\* whose unread message carries it.
LEMMA ClosedWithCarriers ==
  ASSUME NEW w, IsWorld(w), NEW hand, Good(w, hand), NEW p \in PortName,
         w.ports[p].state = "Receiving", ~Claimed(w, hand, "carried", p)
  PROVE  /\ ClosedWith(w, p) \in SUBSET PortName
         /\ \A r \in ClosedWith(w, p) :
              /\ w.ports[r].state = "Receiving"
              /\ \A x \in PortName :
                   Keeps(w.ports[x], "carried", r) => x \in ClosedWith(w, p)
<1> DEFINE unread(q) == {r \in GetReferencedPorts(w.ports[q].message_queue) :
                           w.ports[r].state = "Receiving"}
           found == {r \in PortName :
                       r = p \/ \E q \in PortName : r \in unread(q)}
           whole(S) == p \in S /\ \A q \in S : unread(q) \subseteq S
           C == {r \in found : \A S \in SUBSET found : whole(S) => r \in S}
<1>1. ClosedWith(w, p) = C
  BY DEF ClosedWith
<1>2. C \in SUBSET PortName /\ \A r \in C : w.ports[r].state = "Receiving"
  OBVIOUS
<1>3. \A q, r \in PortName :
        r \in unread(q) <=> /\ Keeps(w.ports[q], "carried", r)
                            /\ w.ports[r].state = "Receiving"
  BY DEF Keeps, GetReferencedPorts
<1>4. \A q \in PortName : unread(q) \subseteq found
  <2> SUFFICES ASSUME NEW q \in PortName, NEW r \in unread(q)
               PROVE  r \in PortName
    OBVIOUS
  <2>1. PICK m \in w.ports[q].message_queue.heap : r \in m.ports
    BY DEF GetReferencedPorts
  <2>2. m \in QueuedMessage
    BY DEF IsWorld, Port
  <2> QED BY <2>1, <2>2 DEF QueuedMessage
<1> HIDE DEF unread
<1>5. \A q \in C : unread(q) \subseteq C
  BY <1>4
<1>6. p \in C
  OBVIOUS
<1>7. ASSUME NEW r \in C, NEW x \in PortName, Keeps(w.ports[x], "carried", r)
      PROVE  x \in C
  <2> SUFFICES ASSUME x \notin C PROVE FALSE
    OBVIOUS
  <2> DEFINE S == C \ {r}
  <2>1. r # p /\ r \in PortName
    BY <1>7, <1>2 DEF Claimed, InPort
  <2>2. \A q \in C : r \notin unread(q)
    <3>1. ExclusiveClaim(w, hand, "carried", r)
      BY <2>1 DEF Good, Exclusive, Kinds
    <3>2. \A q \in PortName : Keeps(w.ports[q], "carried", r) => q = x
      BY <1>7, <3>1 DEF ExclusiveClaim
    <3> HIDE DEF C
    <3> QED BY <1>2, <1>3, <2>1, <3>2
  <2>3. p \in S
    BY <1>6, <2>1
  <2>4. \A q \in S : unread(q) \subseteq S
    BY <1>5, <2>2
  <2>5. S \in SUBSET found
    OBVIOUS
  <2>6. whole(S)
    BY <2>3, <2>4
  <2>7. \A T \in SUBSET found : whole(T) => r \in T
    OBVIOUS
  <2> HIDE DEF whole
  <2>8. r \in S
    BY <2>5, <2>6, <2>7
  <2> QED BY <2>8
<1> HIDE DEF C
<1> QED BY <1>1, <1>2, <1>7

\* ClosePort.
LEMMA GoodDoClosePort ==
  ASSUME NEW w, IsWorld(w), Good(w, {}), NEW n, NEW p \in PortName,
         \/ w.ports[p].state = "Uninitialized"
         \/ /\ w.ports[p].state = "Receiving"
            /\ w.ports[p].message_queue.signalable
  PROVE  Good(DoClosePort(w, n, p), {})
<1>1. CASE w.ports[p].state = "Uninitialized"
  <2> DEFINE u == ErasePort(w, p)
             v == [u EXCEPT !.shut = @ \cup {EndOf(p)}]
  <2>1. Good(u, {})
    BY <1>1, GoodErase
  <2>2. IsWorld(u)
    BY ErasePortType
  <2>3. v.net = u.net /\ v.ports = u.ports /\ v.oops = u.oops
    <3> HIDE DEF u
    <3> QED BY <2>2 DEF IsWorld
  <2>4. DoClosePort(w, n, p) = v
    BY <1>1 DEF DoClosePort
  <2> HIDE DEF u, v
  <2>5. Good(v, {})
    BY <2>1, <2>3 DEF Good, Exclusive, ExclusiveClaim, InNet, InPort, Status,
                      PortStatus, Claimed, Unclaimed, Front, Fresh, Awaited,
                      Referred
  <2> QED BY <2>4, <2>5
<1>2. CASE w.ports[p].state = "Receiving" /\ w.ports[p].message_queue.signalable
  <2>1. ~Claimed(w, {}, "carried", p)
    BY <1>2 DEF Good, Status, PortStatus
  <2> DEFINE closing == ClosedWith(w, p)
  <2>2. /\ closing \in SUBSET PortName
        /\ \A r \in closing :
             /\ w.ports[r].state = "Receiving"
             /\ \A x \in PortName :
                  Keeps(w.ports[x], "carried", r) => x \in closing
    BY <1>2, <2>1, ClosedWithCarriers
  <2> HIDE DEF closing
  <2>3. Good(CloseAll(w, n, closing), {})
    BY <2>2, GoodCloseAll
  <2> QED BY <1>2, <2>3 DEF DoClosePort, closing
<1> QED BY <1>1, <1>2

\* A port that was accepted elsewhere starts to forward: the right to end its
\* buffering becomes the right to remove it.
LEMMA GoodStartProxying ==
  ASSUME NEW w, IsWorld(w), NEW p \in PortName, Good(w, {<<"move", p>>}),
         w.ports[p].state = "Buffering"
  PROVE  /\ Good(StartProxying(w, p), {<<"removal", p>>})
         /\ StartProxying(w, p).ports[p] =
              [w.ports[p] EXCEPT !.state = "Proxying"]
<1> DEFINE hand == {<<"move", p>>}
           hand2 == {<<"removal", p>>}
           port == [w.ports[p] EXCEPT !.state = "Proxying"]
           u == StartProxying(w, p)
<1>1. /\ u.net = w.net /\ u.oops = w.oops
      /\ u.ports[p] = port
      /\ \A q \in PortName : q # p => u.ports[q] = w.ports[q]
  BY OnePort DEF StartProxying
<1>2. /\ port.state = "Proxying" /\ port.node = w.ports[p].node
      /\ port.message_queue = w.ports[p].message_queue
      /\ port.send_on_proxy_removal = w.ports[p].send_on_proxy_removal
      /\ port.peer_node_name = w.ports[p].peer_node_name
  BY DEF IsWorld, Port
<1>3. /\ <<"move", p>> \in hand
      /\ \A k \in Kinds : \A q \in PortName :
           <<k, q>> \in hand2 <=> k = "removal" /\ q = p
      /\ Good(w, hand)
  BY DEF Kinds
<1> HIDE DEF u, hand, hand2, port
<1>4. \A q \in PortName : \A k \in Kinds : \A x \in PortName :
        Keeps(u.ports[q], k, x) <=> Keeps(w.ports[q], k, x)
  BY <1>1, <1>2 DEF Keeps
<1>5. \A k \in Kinds : \A x \in PortName :
        /\ InPort(u, k, x) <=> InPort(w, k, x)
        /\ InNet(u, k, x) <=> InNet(w, k, x)
  BY <1>1, <1>4 DEF InPort, InNet
<1>6. /\ ~Claimed(w, hand, "flight", p)
      /\ ~Claimed(w, hand, "removal", p)
      /\ ~Claimed(w, hand, "carried", p)
      /\ ~Fresh(w, hand, p)
  BY <1>3 DEF Good, Status, PortStatus
<1>7. ~InNet(w, "move", p) /\ ~InPort(w, "move", p)
  BY <1>3 DEF Good, Exclusive, ExclusiveClaim, Kinds
<1>8. Exclusive(u, hand2)
  <2> SUFFICES ASSUME NEW k \in Kinds, NEW x \in PortName
               PROVE  ExclusiveClaim(u, hand2, k, x)
    BY DEF Exclusive
  <2>1. ExclusiveClaim(w, hand, k, x)
    BY <1>3 DEF Good, Exclusive
  <2>2. <<k, x>> \in hand2 => ~InNet(u, k, x) /\ ~InPort(u, k, x)
    BY <1>3, <1>5, <1>6 DEF Claimed
  <2> QED BY <1>1, <1>4, <1>5, <2>1, <2>2 DEF ExclusiveClaim
<1>9. \A k \in Kinds : \A x \in PortName :
        Claimed(u, hand2, k, x) =>
          \/ Claimed(w, hand, k, x)
          \/ k = "removal" /\ x = p
  BY <1>3, <1>5 DEF Claimed
<1>10. Status(u, hand2)
  <2> SUFFICES ASSUME NEW x \in PortName
               PROVE  /\ PortStatus(u, hand2, x)
                      /\ Apart(u.ports[x])
                      /\ \A q \in PortName :
                           Keeps(u.ports[q], "carried", x) =>
                             u.ports[x].node = u.ports[q].node
    BY DEF Status
  <2>1. /\ PortStatus(w, hand, x)
        /\ Apart(w.ports[x])
        /\ \A q \in PortName : Keeps(w.ports[q], "carried", x) =>
             w.ports[x].node = w.ports[q].node
    BY <1>3 DEF Good, Status
  <2>2. \A f \in PortName : Front(u, hand2, f) => Front(w, hand, f)
    BY <1>1, <1>2, <1>9 DEF Front, Kinds
  <2>3. Fresh(u, hand2, x) => Fresh(w, hand, x)
    BY <2>2 DEF Fresh
  <2>4. CASE x = p
    <3>1. ~Claimed(u, hand2, "move", p)
      BY <1>3, <1>5, <1>7 DEF Claimed, Kinds
    <3>2. /\ ~Claimed(u, hand2, "flight", p)
          /\ ~Claimed(u, hand2, "carried", p)
          /\ ~Fresh(u, hand2, p)
      BY <1>6, <1>9, <2>3, <2>4 DEF Kinds
    <3>3. PortStatus(u, hand2, p)
      BY <1>1, <1>2, <3>1, <3>2 DEF PortStatus
    <3> QED BY <1>1, <1>2, <1>4, <2>1, <2>4, <3>3 DEF Apart, Kinds
  <2>5. CASE x # p
    <3>1. \A k \in Kinds : Claimed(u, hand2, k, x) => Claimed(w, hand, k, x)
      BY <1>9, <2>5
    <3>2. Unclaimed(w, hand, x) => Unclaimed(u, hand2, x)
      BY <3>1 DEF Unclaimed, Kinds
    <3>3. u.ports[x] = w.ports[x]
      BY <1>1, <2>5
    <3>4. PortStatus(u, hand2, x)
      BY ONLY <2>1, <2>3, <3>1, <3>2, <3>3 DEF PortStatus, Kinds
    <3>5. \A q \in PortName : u.ports[q].node = w.ports[q].node
      BY <1>1, <1>2
    <3> QED BY <1>4, <2>1, <3>3, <3>4, <3>5 DEF Kinds
  <2> QED BY <2>4, <2>5
<1>11. ASSUME NEW m \in DOMAIN w.net PROVE Awaited(u, m)
  <2>1. ~Claims(m.event, "move", p)
    BY <1>7 DEF InNet
  <2>2. Awaited(w, m) /\ IsEnvelope(m)
    BY <1>3 DEF Good, IsWorld, IsNet
  <2> QED BY <1>1, <2>1, <2>2, AwaitedEase
<1>12. Good(u, hand2)
  BY <1>1, <1>3, <1>8, <1>10, <1>11 DEF Good
<1> QED BY <1>1, <1>12 DEF u, hand2, port

-----------------------------------------------------------------------------
(***************************************************************************)
(* Wake-ups.  A handler is calm about a port that waits: it leaves it      *)
(* waiting, or takes it away from its embedder, or notifies.               *)
(***************************************************************************)
Waits(port) ==
  /\ port.message_queue.signalable
  /\ ~HasNextMessage(port.message_queue)
  /\ CanAcceptMoreMessages(port)

Calm(w, v) ==
  /\ w.notified \subseteq v.notified
  /\ \A p \in PortName :
       \/ p \notin idle
       \/ p \in v.notified
       \/ v.ports[p].state # "Receiving"
       \/ w.ports[p].state = "Receiving" /\ (Waits(w.ports[p]) => Waits(v.ports[p]))

\* Handlers that are calm compose.
LEMMA CalmCalm ==
  ASSUME NEW u, NEW v, NEW w, Calm(u, v), Calm(v, w)
  PROVE  Calm(u, w)
  BY DEF Calm

\* Nothing is said to a port that stays as it is.
LEMMA CalmSame ==
  ASSUME NEW w, NEW v, v.ports = w.ports, w.notified \subseteq v.notified
  PROVE  Calm(w, v)
  BY DEF Calm

\* One port changes.
LEMMA CalmPort ==
  ASSUME NEW w, IsWorld(w), NEW p \in PortName, NEW port,
         \/ port.state # "Receiving"
         \/ w.ports[p].state = "Receiving" /\ (Waits(w.ports[p]) => Waits(port))
  PROVE  Calm(w, [w EXCEPT !.ports[p] = port])
<1> DEFINE u == [w EXCEPT !.ports[p] = port]
<1>1. /\ u.ports[p] = port
      /\ \A q \in PortName : q # p => u.ports[q] = w.ports[q]
  BY OnePort
<1>2. u.notified = w.notified
  BY DEF IsWorld
<1> HIDE DEF u
<1>3. Calm(w, u)
  BY <1>1, <1>2 DEF Calm
<1> QED BY <1>3 DEF u

\* ForwardMessage is calm.
LEMMA CalmForwardAll ==
  ASSUME NEW w, IsWorld(w), NEW n, NEW to, NEW events
  PROVE  Calm(w, ForwardAll(w, n, to, events))
<1> DEFINE v == ForwardAll(w, n, to, events)
<1>1. v.ports = w.ports /\ v.notified = w.notified
  BY DEF ForwardAll, IsWorld
<1> HIDE DEF v
<1>2. Calm(w, v)
  BY <1>1, CalmSame
<1> QED BY <1>2 DEF v

LEMMA CalmForward ==
  ASSUME NEW w, IsWorld(w), NEW n, NEW to, NEW event
  PROVE  Calm(w, ForwardMessage(w, n, to, event))
  BY CalmForwardAll DEF ForwardMessage

\* Erasing a port is calm.
LEMMA CalmErase ==
  ASSUME NEW w, IsWorld(w), NEW p \in PortName
  PROVE  Calm(w, ErasePort(w, p))
<1>1. AbsentPort.state # "Receiving"
  BY AbsentKeeps
<1> QED BY <1>1, CalmPort DEF ErasePort

\* MaybeRemoveProxy_Locked is calm.
LEMMA CalmMaybeRemoveProxy ==
  ASSUME NEW w, IsWorld(w), NEW n \in Nodes, NEW p \in PortName
  PROVE  Calm(w, MaybeRemoveProxy(w, n, p))
<1>1. Calm(w, w)
  BY CalmSame
<1>2. Calm(w, ErasePort(w, p)) /\ IsWorld(ErasePort(w, p))
  BY CalmErase, ErasePortType
<1>3. \A to, event : Calm(w, ForwardMessage(ErasePort(w, p), n, to, event))
  BY <1>2, CalmForward, CalmCalm
<1> QED BY <1>1, <1>2, <1>3 DEF MaybeRemoveProxy

\* Closing ports is calm.
LEMMA CalmCloseAll ==
  ASSUME NEW w, IsWorld(w), NEW n, NEW closing \in SUBSET PortName
  PROVE  Calm(w, CloseAll(w, n, closing))
<1> DEFINE v == CloseAll(w, n, closing)
<1>1. /\ \A q \in closing : v.ports[q] = AbsentPort
      /\ \A q \in PortName \ closing : v.ports[q] = w.ports[q]
      /\ v.notified = w.notified
  BY DEF CloseAll, IsWorld
<1> HIDE DEF v
<1>2. Calm(w, v)
  BY <1>1, AbsentKeeps DEF Calm
<1> QED BY <1>2 DEF v

\* ClosePort is calm.
LEMMA CalmDoClosePort ==
  ASSUME NEW w, IsWorld(w), NEW n, NEW p \in PortName
  PROVE  Calm(w, DoClosePort(w, n, p))
<1>1. Calm(w, [ErasePort(w, p) EXCEPT !.shut = @ \cup {EndOf(p)}])
  <2> DEFINE u == ErasePort(w, p)
             v == [u EXCEPT !.shut = @ \cup {EndOf(p)}]
  <2>1. Calm(w, u) /\ IsWorld(u)
    BY CalmErase, ErasePortType
  <2> HIDE DEF u
  <2>2. v.ports = u.ports /\ v.notified = u.notified
    BY <2>1 DEF IsWorld
  <2> HIDE DEF v
  <2>3. Calm(w, v)
    BY <2>1, <2>2 DEF Calm
  <2> QED BY <2>3 DEF u, v
<1>2. ClosedWith(w, p) \in SUBSET PortName
  BY DEF ClosedWith
<1>3. Calm(w, CloseAll(w, n, ClosedWith(w, p)))
  BY <1>2, CalmCloseAll
<1> QED BY <1>1, <1>3 DEF DoClosePort

-----------------------------------------------------------------------------
(* The handlers.                                                           *)

\* What is in hand when the ports of a set leave: their successors are in
\* flight, and their buffering will end.
Leaving(Q) ==
  {c \in Kinds \X PortName :
     \/ c[1] = "move" /\ c[2] \in Q
     \/ c[1] = "flight" /\ \E q \in Q : c[2] = GenerateRandomPortName(q)}

\* The claims of a user message that is sent.
LEMMA UserEventClaims ==
  ASSUME NEW w, NEW port, NEW m, m.ports \subseteq PortName,
         NEW k \in Kinds, NEW p \in PortName
  PROVE  Claims(UserEvent(w, port, m), k, p) <=> <<k, p>> \in Leaving(m.ports)
<1> DEFINE event == UserEvent(w, port, m)
<1>1. /\ event.type = "User"
      /\ DOMAIN event.descriptors = {GenerateRandomPortName(q) : q \in m.ports}
  BY DEF UserEvent
<1> HIDE DEF event
<1>2. GenerateRandomPortName(p) \in DOMAIN event.descriptors <=> p \in m.ports
  <2>1. ASSUME NEW q \in m.ports,
               GenerateRandomPortName(p) = GenerateRandomPortName(q)
        PROVE  p = q
    BY <2>1, PredecessorOf
  <2> QED BY <1>1, <2>1
<1>3. <<k, p>> \in Leaving(m.ports) <=>
        \/ k = "move" /\ p \in m.ports
        \/ k = "flight" /\ \E q \in m.ports : p = GenerateRandomPortName(q)
  BY DEF Leaving
<1> QED BY <1>1, <1>2, <1>3 DEF Claims, event

\* WillSendPort_Locked for the ports of a set.
LEMMA GoodSend ==
  ASSUME NEW w, IsWorld(w), NEW hand, Good(w, hand), NEW w2,
         w2.net = w.net, w2.oops = w.oops, NEW Q \in SUBSET PortName,
         \A q \in Q : /\ w.ports[q].state = "Receiving"
                      /\ GenerateRandomPortName(q) \in PortName
                      /\ w2.ports[q].state = "Buffering"
                      /\ ~InPort(w2, "carried", q)
                      /\ <<"carried", q>> \notin hand,
         \A q \in PortName \ Q :
           /\ SamePort(w.ports[q], w2.ports[q])
           /\ w2.ports[q].peer_node_name = w.ports[q].peer_node_name,
         \A q \in PortName :
           /\ w2.ports[q].node = w.ports[q].node
           /\ \A k \in Kinds : \A p \in PortName :
                Keeps(w2.ports[q], k, p) => Keeps(w.ports[q], k, p)
           /\ w2.ports[q].message_queue.heap \subseteq
                w.ports[q].message_queue.heap
  PROVE  /\ Good(w2, hand \cup Leaving(Q))
         /\ \A k \in Kinds : \A p \in PortName :
              <<k, p>> \in Leaving(Q) => <<k, p>> \notin hand
<1> DEFINE hand2 == hand \cup Leaving(Q)
<1>1. \A k \in Kinds : \A p \in PortName :
        <<k, p>> \in hand2 <=>
          \/ <<k, p>> \in hand
          \/ k = "move" /\ p \in Q
          \/ k = "flight" /\ \E q \in Q : p = GenerateRandomPortName(q)
  BY DEF Leaving
<1> HIDE DEF hand2
<1>2. Status(w, hand) /\ Exclusive(w, hand)
  BY DEF Good
<1>3. \A k \in Kinds : \A p \in PortName :
        /\ InPort(w2, k, p) => InPort(w, k, p)
        /\ InNet(w2, k, p) <=> InNet(w, k, p)
  BY DEF InPort, InNet
<1>4. \A p \in PortName : PortStatus(w, hand, p)
  BY <1>2 DEF Status
<1>5. \A q \in Q : Front(w, hand, q) /\ ~Fresh(w, hand, q)
  BY <1>4 DEF Front, PortStatus
<1>6. \A q \in Q : LET r == GenerateRandomPortName(q)
                   IN /\ Fresh(w, hand, r)
                      /\ w.ports[r].state = "Absent"
                      /\ ~Claimed(w, hand, "flight", r)
                      /\ Unclaimed(w, hand, r)
  <2> SUFFICES ASSUME NEW q \in Q
               PROVE  LET r == GenerateRandomPortName(q)
                      IN /\ Fresh(w, hand, r)
                         /\ w.ports[r].state = "Absent"
                         /\ ~Claimed(w, hand, "flight", r)
                         /\ Unclaimed(w, hand, r)
    OBVIOUS
  <2>1. Below(q, GenerateRandomPortName(q))
    BY BelowNext
  <2>2. Fresh(w, hand, GenerateRandomPortName(q))
    BY <1>5, <2>1 DEF Fresh
  <2> QED BY <1>4, <2>2 DEF PortStatus
<1>7. \A q \in Q : /\ ~Claimed(w, hand, "flight", q)
                   /\ ~Claimed(w, hand, "removal", q)
                   /\ ~Claimed(w, hand, "move", q)
  BY <1>4 DEF PortStatus
<1>8. Exclusive(w2, hand2)
  <2> SUFFICES ASSUME NEW k \in Kinds, NEW p \in PortName
               PROVE  ExclusiveClaim(w2, hand2, k, p)
    BY DEF Exclusive
  <2>1. ExclusiveClaim(w, hand, k, p)
    BY <1>2 DEF Exclusive
  <2>2. <<k, p>> \in hand2 => ~InNet(w, k, p) /\ ~InPort(w, k, p)
    <3>1. CASE <<k, p>> \in hand
      BY <2>1, <3>1 DEF ExclusiveClaim
    <3>2. CASE k = "move" /\ p \in Q
      BY <1>7, <3>2 DEF Claimed
    <3>3. CASE k = "flight" /\ \E q \in Q : p = GenerateRandomPortName(q)
      BY <1>6, <3>3 DEF Claimed
    <3> QED BY <1>1, <3>1, <3>2, <3>3
  <2>3. \A q1, q2 \in PortName :
          Keeps(w2.ports[q1], k, p) /\ Keeps(w2.ports[q2], k, p) => q1 = q2
    BY <2>1 DEF ExclusiveClaim
  <2> QED BY <1>3, <2>1, <2>2, <2>3 DEF ExclusiveClaim
<1>9. \A k \in Kinds : \A p \in PortName :
        Claimed(w2, hand2, k, p) =>
          \/ Claimed(w, hand, k, p)
          \/ k = "move" /\ p \in Q
          \/ k = "flight" /\ \E q \in Q : p = GenerateRandomPortName(q)
  BY <1>1, <1>3 DEF Claimed
<1>10. \A f \in PortName : Front(w2, hand2, f) =>
         /\ f \notin Q
         /\ Front(w, hand, f) \/ \E q \in Q : f = GenerateRandomPortName(q)
  <2> SUFFICES ASSUME NEW f \in PortName, Front(w2, hand2, f)
               PROVE  /\ f \notin Q
                      /\ \/ Front(w, hand, f)
                         \/ \E q \in Q : f = GenerateRandomPortName(q)
    OBVIOUS
  <2>1. CASE Claimed(w2, hand2, "flight", f)
    <3>1. \/ Claimed(w, hand, "flight", f)
          \/ \E q \in Q : f = GenerateRandomPortName(q)
      BY <1>9, <2>1 DEF Kinds
    <3>2. f \notin Q
      BY <1>6, <1>7, <3>1
    <3> QED BY <3>1, <3>2 DEF Front
  <2>2. CASE w2.ports[f].state \in {"Uninitialized", "Receiving"}
    BY <2>2 DEF Front, SamePort
  <2> QED BY <2>1, <2>2 DEF Front
<1>11. ASSUME NEW p \in PortName, Fresh(w2, hand2, p)
       PROVE  /\ Fresh(w, hand, p)
              /\ \A q \in Q : p # GenerateRandomPortName(q)
  <2>1. CASE life[EndOf(p)] = "unmade"
    <3>1. Fresh(w, hand, p)
      BY <2>1 DEF Fresh
    <3>2. ASSUME NEW q \in Q, p = GenerateRandomPortName(q) PROVE FALSE
      <4>1. EndOf(q) = EndOf(p)
        BY <3>2, BelowNext
      <4>2. Fresh(w, hand, q)
        BY <2>1, <4>1 DEF Fresh
      <4> QED BY <1>5, <4>2
    <3> QED BY <3>1, <3>2
  <2>2. CASE life[EndOf(p)] # "unmade"
    <3>1. PICK f \in PortName : Below(f, p) /\ Front(w2, hand2, f)
      BY <1>11, <2>2 DEF Fresh
    <3>2. PICK g \in PortName : /\ Front(w, hand, g)
                                /\ g = f \/ Below(g, f)
                                /\ f \notin Q
      <4>1. CASE Front(w, hand, f)
        BY <1>10, <3>1, <4>1
      <4>2. CASE \E q \in Q : f = GenerateRandomPortName(q)
        <5>1. PICK q \in Q : f = GenerateRandomPortName(q)
          BY <4>2
        <5>2. Below(q, f)
          BY <5>1, BelowNext
        <5> QED BY <1>5, <1>10, <3>1, <5>2
      <4> QED BY <1>10, <3>1, <4>1, <4>2
    <3>3. Below(g, p)
      BY <3>1, <3>2, BelowBelow
    <3>4. Fresh(w, hand, p)
      BY <3>2, <3>3 DEF Fresh
    <3>5. ASSUME NEW q \in Q, p = GenerateRandomPortName(q) PROVE FALSE
      <4>1. f = q \/ Below(f, q)
        BY <3>1, <3>5, BelowNext
      <4>2. Below(f, q)
        BY <3>2, <4>1
      <4>3. Below(g, q)
        BY <3>2, <4>2, BelowBelow
      <4>4. Fresh(w, hand, q)
        BY <3>2, <4>3 DEF Fresh
      <4> QED BY <1>5, <4>4
    <3> QED BY <3>4, <3>5
  <2> QED BY <2>1, <2>2
<1>12. Status(w2, hand2)
  <2> SUFFICES ASSUME NEW p \in PortName
               PROVE  /\ PortStatus(w2, hand2, p)
                      /\ Apart(w2.ports[p])
                      /\ \A q \in PortName :
                           Keeps(w2.ports[q], "carried", p) =>
                             w2.ports[p].node = w2.ports[q].node
    BY DEF Status
  <2>1. /\ PortStatus(w, hand, p)
        /\ Apart(w.ports[p])
        /\ \A q \in PortName : Keeps(w.ports[q], "carried", p) =>
             w.ports[p].node = w.ports[q].node
    BY <1>2 DEF Status
  <2>2. Apart(w2.ports[p])
    BY <2>1 DEF Apart
  <2>3. \A q \in PortName : Keeps(w2.ports[q], "carried", p) =>
          w2.ports[p].node = w2.ports[q].node
    BY <2>1 DEF Kinds
  <2>4. CASE p \in Q
    <3>1. ~\E q \in Q : p = GenerateRandomPortName(q)
      BY <1>6, <2>4
    <3>2. /\ ~Claimed(w2, hand2, "flight", p)
          /\ ~Claimed(w2, hand2, "removal", p)
      BY <1>7, <1>9, <2>4, <3>1 DEF Kinds
    <3>3. ~Claimed(w2, hand2, "carried", p)
      <4>1. <<"carried", p>> \notin hand2
        BY <1>1, <2>4 DEF Kinds
      <4>2. ~InNet(w2, "carried", p)
        BY DEF InNet, Claims
      <4> QED BY <2>4, <4>1, <4>2 DEF Claimed
    <3>4. ~Fresh(w2, hand2, p)
      BY <1>5, <1>11, <2>4
    <3>5. w2.ports[p].state = "Buffering"
      BY <2>4
    <3>6. PortStatus(w2, hand2, p)
      BY ONLY <3>2, <3>3, <3>4, <3>5 DEF PortStatus
    <3> QED BY <2>2, <2>3, <3>6
  <2>5. CASE p \notin Q
    <3>1. SamePort(w.ports[p], w2.ports[p])
      BY <2>5
    <3>2. \A k \in Kinds : Claimed(w2, hand2, k, p) =>
            \/ Claimed(w, hand, k, p)
            \/ k = "flight" /\ \E q \in Q : p = GenerateRandomPortName(q)
      BY <1>9, <2>5
    <3>3. Unclaimed(w, hand, p) => Unclaimed(w2, hand2, p)
      BY <3>2 DEF Unclaimed, Kinds
    <3>4. (\E q \in Q : p = GenerateRandomPortName(q)) =>
            w.ports[p].state = "Absent" /\ Unclaimed(w, hand, p)
      BY <1>6
    <3>5. Fresh(w2, hand2, p) =>
            /\ Fresh(w, hand, p)
            /\ ~\E q \in Q : p = GenerateRandomPortName(q)
      BY <1>11
    <3>6. PortStatus(w2, hand2, p)
      <4>1. /\ Claimed(w2, hand2, "flight", p) =>
                 \/ Claimed(w, hand, "flight", p)
                 \/ \E q \in Q : p = GenerateRandomPortName(q)
            /\ Claimed(w2, hand2, "removal", p) =>
                 Claimed(w, hand, "removal", p)
            /\ Claimed(w2, hand2, "move", p) => Claimed(w, hand, "move", p)
            /\ Claimed(w2, hand2, "carried", p) =>
                 Claimed(w, hand, "carried", p)
        BY ONLY <3>2 DEF Kinds
      <4> QED
        BY ONLY <2>1, <3>1, <3>3, <3>4, <3>5, <4>1 DEF PortStatus, SamePort
    <3> QED BY <2>2, <2>3, <3>6
  <2> QED BY <2>4, <2>5
<1>13. ASSUME NEW m \in DOMAIN w.net PROVE Awaited(w2, m)
  <2>1. Awaited(w, m) /\ IsEnvelope(m)
    BY DEF Good, IsWorld, IsNet
  <2>2. \A p \in PortName : w.ports[p].state = "Buffering" =>
          /\ w2.ports[p].state = "Buffering"
          /\ w2.ports[p].node = w.ports[p].node
          /\ w2.ports[p].peer_node_name = w.ports[p].peer_node_name
    BY DEF SamePort
  <2> QED BY <2>1, <2>2, AwaitedEase
<1>14. Good(w2, hand2)
  BY <1>8, <1>12, <1>13 DEF Good
<1>15. ASSUME NEW k \in Kinds, NEW p \in PortName, <<k, p>> \in Leaving(Q)
       PROVE  <<k, p>> \notin hand
  <2>1. \/ k = "move" /\ p \in Q
        \/ k = "flight" /\ \E q \in Q : p = GenerateRandomPortName(q)
    BY <1>15 DEF Leaving
  <2>2. ~Claimed(w, hand, k, p)
    BY <1>6, <1>7, <2>1
  <2> QED BY <2>2 DEF Claimed
<1> QED BY <1>14, <1>15 DEF hand2

\* The ports a user message carries wait for the node it goes to.
LEMMA UserEventReferred ==
  ASSUME NEW w, NEW u, NEW port, NEW m, m.ports \subseteq PortName, NEW to,
         \A q \in m.ports : /\ u.ports[q].state = "Buffering"
                            /\ u.ports[q].node = w.ports[q].node
                            /\ u.ports[q].peer_node_name = to,
         NEW r \in DOMAIN UserEvent(w, port, m).descriptors
  PROVE  Referred(u, to, r, UserEvent(w, port, m).descriptors[r])
<1> DEFINE event == UserEvent(w, port, m)
<1>1. /\ DOMAIN event.descriptors = {GenerateRandomPortName(q) : q \in m.ports}
      /\ event.descriptors[r] =
           PortDescriptor(w.ports[Predecessor(r)], Predecessor(r))
  BY DEF UserEvent
<1>2. r \in DOMAIN event.descriptors
  OBVIOUS
<1> HIDE DEF event
<1>3. PICK q \in m.ports : r = GenerateRandomPortName(q)
  BY <1>1, <1>2
<1>4. Predecessor(r) = q
  BY <1>3, PredecessorOf
<1>5. event.descriptors[r] = PortDescriptor(w.ports[q], q)
  BY <1>1, <1>4
<1>6. /\ event.descriptors[r].referring_port_name = q
      /\ event.descriptors[r].referring_node_name = w.ports[q].node
  BY <1>5 DEF PortDescriptor
<1> QED BY <1>4, <1>6 DEF Referred, event

\* The same for the envelope it goes in.
LEMMA UserEventAwaited ==
  ASSUME NEW w, NEW u, NEW port, NEW m, m.ports \subseteq PortName,
         NEW n, NEW to, to \notin crashed,
         \A q \in m.ports : /\ u.ports[q].state = "Buffering"
                            /\ u.ports[q].node = w.ports[q].node
                            /\ u.ports[q].peer_node_name = to
  PROVE  Awaited(u, Envelope(n, to, UserEvent(w, port, m)))
<1> DEFINE event == UserEvent(w, port, m)
<1>1. event.type = "User"
  BY DEF UserEvent
<1>2. \A r \in DOMAIN event.descriptors :
        Referred(u, to, r, event.descriptors[r])
  BY UserEventReferred
<1> HIDE DEF event
<1>3. /\ Envelope(n, to, event).to = to
      /\ Envelope(n, to, event).event = event
  BY DEF Envelope
<1> QED BY <1>1, <1>2, <1>3 DEF Awaited, event

\* A port that is sent.
LEMMA WillSendPortFields ==
  ASSUME NEW port, IsPort(port), NEW p, NEW to
  PROVE  LET new == WillSendPort(port, p, to)
         IN /\ new.state = "Buffering"
            /\ new.peer_node_name = to
            /\ new.node = port.node
            /\ new.message_queue = port.message_queue
            /\ new.send_on_proxy_removal = port.send_on_proxy_removal
  BY DEF WillSendPort, IsPort, Port

\* A port that forwarded.
LEMMA AfterForwardingFields ==
  ASSUME NEW port, IsPort(port), NEW S, NEW fails
  PROVE  LET new == AfterForwarding(port, S, fails)
         IN /\ SamePort(port, new)
            /\ new.peer_node_name = port.peer_node_name
            /\ new.send_on_proxy_removal = port.send_on_proxy_removal
            /\ new.message_queue.heap = port.message_queue.heap \ S
  BY DEF AfterForwarding, WithoutPopped, IsPort, Port, SamePort

\* ForwardMessages_Locked: the ports in what a proxy forwards leave.
LEMMA GoodForwardMessages ==
  ASSUME NEW w, IsWorld(w), NEW hand, Good(w, hand), NEW n \in Nodes,
         NEW p \in PortName, w.ports[p].state = "Proxying",
         NamesLeft(w.ports[p].message_queue.heap)
  PROVE  /\ Good(ForwardMessages(w, n, p), hand)
         /\ ForwardMessages(w, n, p).ports[p].state = "Proxying"
         /\ Calm(w, ForwardMessages(w, n, p))
<1> DEFINE port == w.ports[p]
           popped == Popped(w, p)
           good == {m \in popped : Sendable(w, port, m)}
           Q == {q \in PortName : \E m \in good : q \in m.ports}
           fails == ForwardFails(w, p)
           gone == \E m \in popped : \E q \in m.ports :
                     w.ports[q].state = "Absent"
           after == [WillSendMessages(w, port, good) EXCEPT
                       !.ports[p] = AfterForwarding(@, popped, fails),
                       !.oops = @ \/ gone]
           events == {UserEvent(w, port, m) : m \in good}
<1>1. /\ IsPort(port)
      /\ popped \subseteq port.message_queue.heap
      /\ \A m \in port.message_queue.heap : m.ports \subseteq PortName
  BY PoppedType DEF IsWorld, QueuedMessage, Port
<1>2. \A m \in port.message_queue.heap : \A q \in m.ports :
        /\ Keeps(port, "carried", q)
        /\ w.ports[q].state = "Receiving"
        /\ GenerateRandomPortName(q) \in PortName
        /\ <<"carried", q>> \notin hand
  <2> SUFFICES ASSUME NEW m \in port.message_queue.heap, NEW q \in m.ports
               PROVE  /\ Keeps(port, "carried", q)
                      /\ w.ports[q].state = "Receiving"
                      /\ GenerateRandomPortName(q) \in PortName
                      /\ <<"carried", q>> \notin hand
    OBVIOUS
  <2>1. q \in PortName /\ Keeps(port, "carried", q)
    BY <1>1 DEF Keeps
  <2>2. Claimed(w, hand, "carried", q) /\ InPort(w, "carried", q)
    BY <2>1 DEF Claimed, InPort
  <2>3. ExclusiveClaim(w, hand, "carried", q) /\ PortStatus(w, hand, q)
    BY <2>1 DEF Good, Exclusive, Status, Kinds
  <2>4. q[3] < MaxGen[q[1]]
    BY DEF NamesLeft
  <2> QED BY <2>1, <2>2, <2>3, <2>4, NextName DEF ExclusiveClaim, PortStatus
<1>3. ~gone
  BY <1>1, <1>2
<1>4. p \notin Q
  BY <1>1, <1>2
<1>5. \A q \in PortName :
        WillSendMessages(w, port, good).ports[q] =
          IF q \in Q THEN WillSendPort(w.ports[q], q, port.peer_node_name)
                     ELSE w.ports[q]
  BY DEF WillSendMessages, IsWorld
<1>6. /\ after.net = w.net
      /\ after.oops = w.oops
      /\ after.notified = w.notified
      /\ after.ports[p] = AfterForwarding(port, popped, fails)
      /\ \A q \in PortName \ {p} : after.ports[q] =
           IF q \in Q THEN WillSendPort(w.ports[q], q, port.peer_node_name)
                      ELSE w.ports[q]
  <2> DEFINE sent1 == WillSendMessages(w, port, good)
  <2>1. /\ sent1 = [ports |-> sent1.ports, net |-> w.net, oops |-> w.oops,
                    notified |-> w.notified, shut |-> w.shut]
        /\ sent1.ports = [q \in PortName |-> sent1.ports[q]]
    BY DEF WillSendMessages, IsWorld
  <2>2. sent1.ports[p] = port
    BY <1>4, <1>5
  <2> HIDE DEF sent1, gone, fails, popped
  <2> DEFINE o == sent1.oops \/ gone
  <2>3. after = [sent1 EXCEPT
                   !.ports[p] = AfterForwarding(@, popped, fails),
                   !.oops = o]
    BY Zenon DEF sent1
  <2>4. o = w.oops
    <3>1. sent1.oops = w.oops
      BY <2>1
    <3>2. (w.oops \/ gone) = w.oops
      BY <1>3 DEF Good
    <3> QED BY <3>1, <3>2
  <2> HIDE DEF after, o
  <2>5. /\ after.ports = [sent1.ports EXCEPT ![p] =
                            AfterForwarding(sent1.ports[p], popped, fails)]
        /\ after.net = w.net /\ after.oops = w.oops
        /\ after.notified = w.notified
    BY <2>1, <2>3, <2>4
  <2> HIDE DEF Q, port
  <2>6. /\ after.ports[p] = AfterForwarding(sent1.ports[p], popped, fails)
        /\ \A q \in PortName \ {p} : after.ports[q] = sent1.ports[q]
    BY <2>1, <2>5
  <2> QED BY <1>5, <2>2, <2>5, <2>6 DEF sent1
<1>7. ForwardMessages(w, n, p) =
        ForwardAll(after, n, port.peer_node_name, events)
  BY DEF ForwardMessages
<1>8. IsWorld(after)
  <2> DEFINE sent1 == WillSendMessages(w, port, good)
             moved == [sent1 EXCEPT !.ports[p] =
                         AfterForwarding(sent1.ports[p], popped, fails)]
  <2>1. good \in SUBSET QueuedMessage /\ NamesLeft(good)
        /\ \A m \in good : Sendable(w, port, m)
    BY <1>1 DEF NamesLeft, IsPort, Port
  <2>2. IsWorld(sent1)
    BY <1>1, <2>1, WillSendMessagesType
  <2>3. IsPort(AfterForwarding(sent1.ports[p], popped, fails))
    BY <2>2, PoppedType, AfterForwardingType DEF IsWorld
  <2>4. IsWorld(moved)
    <3> HIDE DEF sent1
    <3> QED BY <2>2, <2>3, WithPort
  <2>5. after = [moved EXCEPT !.oops = @ \/ gone]
    <3> HIDE DEF sent1, popped, gone, fails
    <3>1. moved.oops = sent1.oops
      BY <2>2 DEF IsWorld
    <3> QED BY <3>1, Zenon DEF sent1
  <2>6. moved.oops \in BOOLEAN
    BY <2>4 DEF IsWorld
  <2> HIDE DEF moved, gone, after
  <2>7. (moved.oops \/ gone) \in BOOLEAN
    BY <2>6
  <2> QED BY <2>4, <2>5, <2>7, OopsType
<1> HIDE DEF after, fails, gone
<1>9. \A q \in PortName :
        /\ q \notin Q => SamePort(w.ports[q], after.ports[q])
        /\ q \notin Q =>
             after.ports[q].peer_node_name = w.ports[q].peer_node_name
        /\ q \in Q => /\ after.ports[q].state = "Buffering"
                      /\ after.ports[q].peer_node_name = port.peer_node_name
        /\ after.ports[q].node = w.ports[q].node
        /\ after.ports[q].send_on_proxy_removal =
             w.ports[q].send_on_proxy_removal
        /\ after.ports[q].message_queue.heap =
             IF q = p THEN port.message_queue.heap \ popped
                      ELSE w.ports[q].message_queue.heap
  <2> SUFFICES ASSUME NEW q \in PortName
               PROVE  /\ q \notin Q => SamePort(w.ports[q], after.ports[q])
                      /\ q \notin Q => after.ports[q].peer_node_name =
                                         w.ports[q].peer_node_name
                      /\ q \in Q => /\ after.ports[q].state = "Buffering"
                                    /\ after.ports[q].peer_node_name =
                                         port.peer_node_name
                      /\ after.ports[q].node = w.ports[q].node
                      /\ after.ports[q].send_on_proxy_removal =
                           w.ports[q].send_on_proxy_removal
                      /\ after.ports[q].message_queue.heap =
                           IF q = p THEN port.message_queue.heap \ popped
                                    ELSE w.ports[q].message_queue.heap
    OBVIOUS
  <2> HIDE DEF Q, popped
  <2>1. CASE q = p
    BY <1>1, <1>4, <1>6, <2>1, AfterForwardingFields DEF SamePort
  <2>2. CASE q # p /\ q \in Q
    <3>1. after.ports[q] = WillSendPort(w.ports[q], q, port.peer_node_name)
      BY <1>6, <2>2
    <3>2. IsPort(w.ports[q])
      BY DEF IsWorld
    <3> QED BY <2>2, <3>1, <3>2, WillSendPortFields
  <2>3. CASE q # p /\ q \notin Q
    <3>1. after.ports[q] = w.ports[q]
      BY <1>6, <2>3
    <3> QED BY <2>3, <3>1 DEF SamePort
  <2> QED BY <2>1, <2>2, <2>3
<1>10. \A q \in PortName :
         /\ \A k \in Kinds : \A x \in PortName :
              Keeps(after.ports[q], k, x) => Keeps(w.ports[q], k, x)
         /\ after.ports[q].message_queue.heap \subseteq
              w.ports[q].message_queue.heap
  BY <1>9 DEF Keeps
<1>11. ASSUME NEW q \in Q PROVE ~InPort(after, "carried", q)
  <2>1. PICK m \in good : q \in m.ports
    BY <1>11
  <2>2. ExclusiveClaim(w, hand, "carried", q) /\ Apart(port)
    BY DEF Good, Exclusive, Status, Kinds
  <2>3. ASSUME NEW x \in PortName, Keeps(after.ports[x], "carried", q)
        PROVE  FALSE
    <3>1. Keeps(w.ports[x], "carried", q)
      BY <1>10, <2>3 DEF Kinds
    <3>2. Keeps(port, "carried", q)
      BY <1>1, <1>2, <2>1
    <3>3. x = p
      BY <2>2, <3>1, <3>2 DEF ExclusiveClaim
    <3>4. PICK m2 \in after.ports[p].message_queue.heap : q \in m2.ports
      BY <2>3, <3>3 DEF Keeps
    <3>5. m2 \in port.message_queue.heap /\ m2 \notin popped
      BY <1>9, <3>4
    <3>6. m2 = m
      BY <1>1, <2>1, <2>2, <3>4, <3>5 DEF Apart
    <3> QED BY <2>1, <3>5, <3>6
  <2> QED BY <2>3 DEF InPort
<1>12. \A q \in Q : /\ w.ports[q].state = "Receiving"
                    /\ GenerateRandomPortName(q) \in PortName
                    /\ <<"carried", q>> \notin hand
  BY <1>1, <1>2
<1>13. Q \in SUBSET PortName
  OBVIOUS
<1>14. \A m \in good : m.ports \subseteq Q /\ m.ports \subseteq PortName
  BY <1>1
<1>15. \A m1, m2 \in good : \A q \in PortName :
         q \in m1.ports /\ q \in m2.ports => m1 = m2
  BY <1>1 DEF Good, Status, Apart
<1> HIDE DEF Q, good, popped, port
<1>16. /\ Good(after, hand \cup Leaving(Q))
       /\ \A k \in Kinds : \A x \in PortName :
            <<k, x>> \in Leaving(Q) => <<k, x>> \notin hand
  BY <1>6, <1>9, <1>10, <1>11, <1>12, <1>13, GoodSend
<1>17. \A m \in good : \A k \in Kinds : \A x \in PortName :
         Claims(UserEvent(w, port, m), k, x) <=> <<k, x>> \in Leaving(m.ports)
  BY <1>14, UserEventClaims
<1>18. \A m \in good : \A k \in Kinds : \A x \in PortName :
         <<k, x>> \in Leaving(m.ports) => <<k, x>> \in Leaving(Q)
  BY <1>14 DEF Leaving
<1>19. ASSUME NEW m1 \in good, NEW m2 \in good, NEW k \in Kinds,
              NEW x \in PortName, <<k, x>> \in Leaving(m1.ports),
              <<k, x>> \in Leaving(m2.ports)
       PROVE  m1 = m2
  <2>1. CASE k = "move"
    BY <1>15, <1>19, <2>1 DEF Leaving
  <2>2. CASE k # "move"
    <3>1. PICK q1 \in m1.ports : x = GenerateRandomPortName(q1)
      BY <1>19, <2>2 DEF Leaving
    <3>2. PICK q2 \in m2.ports : x = GenerateRandomPortName(q2)
      BY <1>19, <2>2 DEF Leaving
    <3>3. q1 = q2 /\ q1 \in PortName
      BY <1>14, <3>1, <3>2, PredecessorOf
    <3> QED BY <1>15, <3>3
  <2> QED BY <2>1, <2>2
<1>20. ASSUME NEW m \in good, port.peer_node_name \notin crashed
       PROVE  Awaited(after, Envelope(n, port.peer_node_name,
                                      UserEvent(w, port, m)))
  BY <1>9, <1>14, <1>20, UserEventAwaited
<1>21. /\ \A e \in events : \A k \in Kinds : \A x \in PortName :
            Claims(e, k, x) => /\ <<k, x>> \in hand \cup Leaving(Q)
                               /\ <<k, x>> \notin hand
       /\ \A e1, e2 \in events : \A k \in Kinds : \A x \in PortName :
            Claims(e1, k, x) /\ Claims(e2, k, x) => e1 = e2
       /\ \A e \in events : port.peer_node_name \notin crashed =>
            Awaited(after, Envelope(n, port.peer_node_name, e))
  <2>1. ASSUME NEW m \in good, NEW k \in Kinds, NEW x \in PortName,
               Claims(UserEvent(w, port, m), k, x)
        PROVE  <<k, x>> \in hand \cup Leaving(Q) /\ <<k, x>> \notin hand
    BY <1>16, <1>17, <1>18, <2>1
  <2>2. ASSUME NEW m1 \in good, NEW m2 \in good, NEW k \in Kinds,
               NEW x \in PortName, Claims(UserEvent(w, port, m1), k, x),
               Claims(UserEvent(w, port, m2), k, x)
        PROVE  UserEvent(w, port, m1) = UserEvent(w, port, m2)
    <3>1. m1 = m2
      BY <1>17, <1>19, <2>2
    <3> QED BY <3>1
  <2> QED BY <1>20, <2>1, <2>2
<1> HIDE DEF events
<1>22. Good(ForwardAll(after, n, port.peer_node_name, events), hand)
  <2> DEFINE hand1 == hand \cup Leaving(Q)
  <2>1. hand \in SUBSET hand1
    OBVIOUS
  <2> HIDE DEF hand1
  <2>2. Good(after, hand1)
        /\ \A e \in events : \A k \in Kinds : \A x \in PortName :
             Claims(e, k, x) => <<k, x>> \in hand1 /\ <<k, x>> \notin hand
    BY <1>16, <1>21 DEF hand1
  <2> QED BY <1>8, <1>21, <2>1, <2>2, GoodForward
<1>23. ForwardAll(after, n, port.peer_node_name, events).ports = after.ports
  BY <1>8 DEF ForwardAll, IsWorld
<1>24. after.ports[p].state = "Proxying"
  BY <1>4, <1>9 DEF SamePort, port
<1>25. Calm(w, after)
  <2> SUFFICES ASSUME NEW q \in PortName
               PROVE  \/ after.ports[q].state # "Receiving"
                      \/ after.ports[q] = w.ports[q]
    BY <1>6 DEF Calm
  <2>1. CASE q = p
    BY <1>24, <2>1
  <2>2. CASE q \in Q
    BY <1>9, <2>2
  <2>3. CASE q # p /\ q \notin Q
    BY <1>6, <2>3
  <2> QED BY <2>1, <2>2, <2>3
<1>26. Calm(w, ForwardAll(after, n, port.peer_node_name, events))
  BY <1>8, <1>25, CalmForwardAll, CalmCalm
<1> QED BY <1>7, <1>22, <1>23, <1>24, <1>26

\* The ports of a set, to be queued in the message they came in.
Arriving(R) == {c \in Kinds \X PortName : c[1] = "carried" /\ c[2] \in R}

\* A port that AcceptPort has made.
Newcomer(port) ==
  /\ port.state = "Receiving"
  /\ port.message_queue.signalable = FALSE
  /\ port.message_queue.heap = {}
  /\ port.send_on_proxy_removal = NoPort

LEMMA AcceptedPortNew ==
  ASSUME NEW n, NEW d
  PROVE  Newcomer(AcceptedPort(n, d)) /\ AcceptedPort(n, d).node = n
  BY DEF Newcomer, AcceptedPort, SetSignalable, Initialized, NewPort,
         NewMessageQueue

\* It claims nothing.
LEMMA NewcomerKeeps ==
  ASSUME NEW port, Newcomer(port)
  PROVE  /\ Apart(port)
         /\ \A k \in Kinds : \A p \in PortName : ~Keeps(port, k, p)
  BY NoPortAssumption DEF Newcomer, Apart, Keeps

\* AcceptPort binds names that were in flight.
LEMMA GoodBind ==
  ASSUME NEW w, IsWorld(w), NEW hand, Good(w, hand), NEW v,
         v.net = w.net, v.oops = w.oops, NEW new \in SUBSET PortName,
         \A r \in new : <<"flight", r>> \in hand,
         \A r \in new : Newcomer(v.ports[r]),
         \A q \in PortName \ new : v.ports[q] = w.ports[q],
         NEW hand1,
         \A k \in Kinds : \A p \in PortName : <<k, p>> \in hand1 =>
           \/ k = "carried" /\ p \in new
           \/ k = "move" /\ <<k, p>> \in hand
  PROVE  Good(v, hand1)
<1>1. Status(w, hand) /\ Exclusive(w, hand)
  BY DEF Good
<1>2. \A r \in new : /\ v.ports[r].state = "Receiving"
                     /\ v.ports[r].message_queue.signalable = FALSE
                     /\ Apart(v.ports[r])
                     /\ \A k \in Kinds : \A p \in PortName :
                          ~Keeps(v.ports[r], k, p)
  <2> SUFFICES ASSUME NEW r \in new
               PROVE  /\ v.ports[r].state = "Receiving"
                      /\ v.ports[r].message_queue.signalable = FALSE
                      /\ Apart(v.ports[r])
                      /\ \A k \in Kinds : \A p \in PortName :
                           ~Keeps(v.ports[r], k, p)
    OBVIOUS
  <2>1. Newcomer(v.ports[r])
    OBVIOUS
  <2> QED BY ONLY <2>1, NewcomerKeeps DEF Newcomer
<1>3. \A p \in PortName : PortStatus(w, hand, p)
  BY <1>1 DEF Status
<1>4. \A r \in new : /\ Claimed(w, hand, "flight", r)
                     /\ w.ports[r].state = "Absent"
                     /\ Unclaimed(w, hand, r)
                     /\ ~Claimed(w, hand, "carried", r)
                     /\ ~Fresh(w, hand, r)
                     /\ ~InNet(w, "flight", r) /\ ~InPort(w, "flight", r)
  <2> SUFFICES ASSUME NEW r \in new
               PROVE  /\ Claimed(w, hand, "flight", r)
                      /\ w.ports[r].state = "Absent"
                      /\ Unclaimed(w, hand, r)
                      /\ ~Claimed(w, hand, "carried", r)
                      /\ ~Fresh(w, hand, r)
                      /\ ~InNet(w, "flight", r) /\ ~InPort(w, "flight", r)
    OBVIOUS
  <2>1. Claimed(w, hand, "flight", r)
    BY DEF Claimed
  <2>2. ExclusiveClaim(w, hand, "flight", r)
    BY <1>1 DEF Exclusive, Kinds
  <2> QED BY <1>3, <2>1, <2>2 DEF PortStatus, ExclusiveClaim
<1>5. \A q \in PortName : \A k \in Kinds : \A p \in PortName :
        Keeps(v.ports[q], k, p) => q \notin new /\ Keeps(w.ports[q], k, p)
  BY <1>2
<1>6. \A k \in Kinds : \A p \in PortName :
        /\ InPort(v, k, p) => InPort(w, k, p)
        /\ InNet(v, k, p) <=> InNet(w, k, p)
  BY <1>5 DEF InPort, InNet
<1>7. Exclusive(v, hand1)
  <2> SUFFICES ASSUME NEW k \in Kinds, NEW p \in PortName
               PROVE  ExclusiveClaim(v, hand1, k, p)
    BY DEF Exclusive
  <2>1. ExclusiveClaim(w, hand, k, p)
    BY <1>1 DEF Exclusive
  <2>2. <<k, p>> \in hand1 => ~InNet(w, k, p) /\ ~InPort(w, k, p)
    <3>1. CASE k = "carried" /\ p \in new
      BY <1>4, <3>1 DEF Claimed
    <3>2. CASE k = "move" /\ <<k, p>> \in hand
      BY <2>1, <3>2 DEF ExclusiveClaim
    <3> QED BY <3>1, <3>2
  <2>3. \A q1, q2 \in PortName :
          Keeps(v.ports[q1], k, p) /\ Keeps(v.ports[q2], k, p) => q1 = q2
    BY <1>5, <2>1 DEF ExclusiveClaim
  <2> QED BY <1>6, <2>1, <2>2, <2>3 DEF ExclusiveClaim
<1>8. \A p \in PortName :
        /\ Claimed(v, hand1, "flight", p) =>
             Claimed(w, hand, "flight", p) /\ p \notin new
        /\ Claimed(v, hand1, "removal", p) => Claimed(w, hand, "removal", p)
        /\ Claimed(v, hand1, "move", p) => Claimed(w, hand, "move", p)
        /\ Claimed(v, hand1, "carried", p) =>
             Claimed(w, hand, "carried", p) \/ p \in new
  BY <1>4, <1>6 DEF Claimed, Kinds
<1>9. \A f \in PortName : Front(v, hand1, f) => Front(w, hand, f)
  BY <1>4, <1>8 DEF Front
<1>10. Status(v, hand1)
  <2> SUFFICES ASSUME NEW p \in PortName
               PROVE  /\ PortStatus(v, hand1, p)
                      /\ Apart(v.ports[p])
                      /\ \A q \in PortName :
                           Keeps(v.ports[q], "carried", p) =>
                             v.ports[p].node = v.ports[q].node
    BY DEF Status
  <2>1. Fresh(v, hand1, p) => Fresh(w, hand, p)
    BY <1>9 DEF Fresh
  <2>2. Unclaimed(w, hand, p) => Unclaimed(v, hand1, p)
    BY <1>8 DEF Unclaimed
  <2>3. \A q \in PortName : Keeps(v.ports[q], "carried", p) =>
          v.ports[p].node = v.ports[q].node
    <3> SUFFICES ASSUME NEW q \in PortName, Keeps(v.ports[q], "carried", p)
                 PROVE  v.ports[p].node = v.ports[q].node
      OBVIOUS
    <3>1. q \notin new /\ Keeps(w.ports[q], "carried", p)
      BY <1>5 DEF Kinds
    <3>2. p \notin new
      BY <1>4, <3>1 DEF Claimed, InPort
    <3>3. w.ports[p].node = w.ports[q].node
      BY <1>1, <3>1 DEF Status
    <3> QED BY <3>1, <3>2, <3>3
  <2>4. CASE p \in new
    <3>1. PortStatus(v, hand1, p)
      BY <1>2, <1>4, <1>8, <2>1, <2>4 DEF PortStatus, Unclaimed
    <3> QED BY <1>2, <2>3, <2>4, <3>1
  <2>5. CASE p \notin new
    <3>1. v.ports[p] = w.ports[p]
      BY <2>5
    <3>2. PortStatus(w, hand, p) /\ Apart(w.ports[p])
      BY <1>1 DEF Status
    <3>3. /\ Claimed(v, hand1, "flight", p) => Claimed(w, hand, "flight", p)
          /\ Claimed(v, hand1, "removal", p) => Claimed(w, hand, "removal", p)
          /\ Claimed(v, hand1, "move", p) => Claimed(w, hand, "move", p)
          /\ Claimed(v, hand1, "carried", p) => Claimed(w, hand, "carried", p)
      BY <1>8, <2>5
    <3>4. PortStatus(v, hand1, p)
      BY ONLY <2>1, <2>2, <3>1, <3>2, <3>3 DEF PortStatus
    <3> QED BY <2>3, <3>1, <3>2, <3>4
  <2> QED BY <2>4, <2>5
<1>11. ASSUME NEW m \in DOMAIN w.net PROVE Awaited(v, m)
  <2>1. Awaited(w, m) /\ IsEnvelope(m)
    BY DEF Good, IsWorld, IsNet
  <2>2. \A p \in PortName : w.ports[p].state = "Buffering" =>
          v.ports[p] = w.ports[p]
    BY <1>4
  <2> QED BY <2>1, <2>2, AwaitedEase
<1> QED BY <1>7, <1>10, <1>11 DEF Good

\* AcceptPort for the ports of a message, whose claims are in hand.
LEMMA GoodAcceptPorts ==
  ASSUME NEW w, IsWorld(w), NEW hand, Good(w, hand), NEW n \in Nodes, NEW event,
         IsUserEvent(event),
         \A k \in Kinds : \A p \in PortName : Claims(event, k, p) =>
           <<k, p>> \in hand,
         \A r \in DOMAIN event.descriptors :
           Referred(w, n, r, event.descriptors[r])
  PROVE  LET new == DOMAIN event.descriptors
             bound == AcceptPorts(w, n, event.descriptors)
         IN /\ Good(bound, Arriving(new))
            /\ \A r \in new :
                 bound.ports[r] = AcceptedPort(n, event.descriptors[r])
            /\ \A q \in PortName \ new : bound.ports[q] = w.ports[q]
            /\ \A r \in new : w.ports[r].state = "Absent"
<1> DEFINE d == event.descriptors
           new == DOMAIN d
           bound == AcceptPorts(w, n, d)
           accepted(r) == Envelope(n, d[r].referring_node_name,
                                   PortAcceptedEvent(d[r].referring_port_name))
           told == {r \in new : d[r].referring_node_name \in Nodes \ crashed}
           f == [q \in PortName |-> IF q \in new THEN AcceptedPort(n, d[q])
                                                 ELSE w.ports[q]]
           S == {accepted(r) : r \in told}
           twice == \E q \in new : w.ports[q].state # "Absent"
           v == [w EXCEPT !.ports = f]
           hand1 == Arriving(new) \cup
                      {c \in Kinds \X PortName : c[1] = "move" /\ c \in hand}
           hand2 == Arriving(new)
<1>1. new \in SUBSET PortName /\ event.type = "User"
  BY DEF IsUserEvent
<1>2. \A r \in new : <<"flight", r>> \in hand
  BY <1>1 DEF Claims, Kinds
<1>3. ~twice
  <2>1. \A r \in new : Claimed(w, hand, "flight", r)
    BY <1>2 DEF Claimed
  <2> QED BY <1>1, <2>1 DEF Good, Status, PortStatus
<1>4. v.ports = f /\ v.net = w.net /\ v.oops = w.oops
  BY DEF IsWorld
<1>5. /\ bound.ports = f
      /\ bound.oops = w.oops
      /\ bound.net = w.net (+) SetToBag(S)
  <2> HIDE DEF f, S
  <2> DEFINE o == w.oops \/ twice
  <2>1. o = w.oops
    BY <1>3 DEF Good
  <2>2. bound = [w EXCEPT !.ports = f, !.net = w.net (+) SetToBag(S),
                          !.oops = o]
    BY DEF AcceptPorts, f, S, IsWorld
  <2> HIDE DEF o, bound
  <2>3. bound.ports = f /\ bound.oops = o /\ bound.net = w.net (+) SetToBag(S)
    BY <2>2 DEF IsWorld
  <2> QED BY <2>1, <2>3
<1>6. /\ \A r \in new : f[r] = AcceptedPort(n, d[r])
      /\ \A q \in PortName \ new : f[q] = w.ports[q]
  BY <1>1
<1>7. /\ \A k \in Kinds : \A p \in PortName : <<k, p>> \in hand1 <=>
           \/ k = "carried" /\ p \in new
           \/ k = "move" /\ <<k, p>> \in hand
      /\ \A k \in Kinds : \A p \in PortName : <<k, p>> \in hand2 <=>
           k = "carried" /\ p \in new
      /\ hand2 \in SUBSET hand1
  BY DEF Arriving
<1>8. IsWorld(v)
  <2>1. \A q \in new : d[q] \in Descriptor /\ HasPeerName(d[q])
    BY DEF IsUserEvent
  <2>2. IsWorld(bound)
    BY <1>1, <2>1, AcceptPortsType
  <2>3. f \in [PortName -> Port] /\ \A q \in PortName : IsPort(f[q])
    BY <1>5, <2>2 DEF IsWorld
  <2> HIDE DEF f
  <2> QED BY <2>3, WithPorts
<1>9. \A m \in S : \E r \in told : m = accepted(r)
  OBVIOUS
<1>10. \A r \in told : /\ r \in new /\ d[r].referring_node_name \notin crashed
                       /\ accepted(r).to = d[r].referring_node_name
                       /\ accepted(r).from = n
                       /\ accepted(r).event.type = "PortAccepted"
                       /\ accepted(r).event.port_name =
                            d[r].referring_port_name
  BY DEF Envelope, PortAcceptedEvent
<1> HIDE DEF f, S, v, bound, accepted, told, twice, hand1, hand2
<1>11. Good(v, hand1)
  <2>1. \A r \in new : Newcomer(v.ports[r])
    BY <1>4, <1>6, AcceptedPortNew
  <2>2. \A q \in PortName \ new : v.ports[q] = w.ports[q]
    BY <1>4, <1>6
  <2> HIDE DEF new, d
  <2> QED BY <1>1, <1>2, <1>4, <1>7, <2>1, <2>2, GoodBind
<1>12. ASSUME NEW r \in told
       PROVE  /\ Predecessor(r) \in PortName
              /\ accepted(r).event.port_name = Predecessor(r)
              /\ GenerateRandomPortName(Predecessor(r)) = r
              /\ <<"move", Predecessor(r)>> \in hand1
              /\ Awaited(v, accepted(r))
  <2>1. Referred(w, n, r, d[r]) /\ r \in new
    BY <1>10
  <2>2. GenerateRandomPortName(Predecessor(r)) = r
    BY <1>1, <2>1, SuccessorOf
  <2>3. /\ Predecessor(r) \in PortName
        /\ d[r].referring_port_name = Predecessor(r)
        /\ w.ports[Predecessor(r)].state = "Buffering"
        /\ w.ports[Predecessor(r)].node = d[r].referring_node_name
        /\ w.ports[Predecessor(r)].peer_node_name = n
    BY <1>10, <2>1 DEF Referred
  <2>4. Claims(event, "move", Predecessor(r))
    BY <1>1, <2>1, <2>2 DEF Claims
  <2>5. <<"move", Predecessor(r)>> \in hand1
    BY <1>7, <2>3, <2>4 DEF Kinds
  <2>6. v.ports[Predecessor(r)] = w.ports[Predecessor(r)]
    <3>1. Predecessor(r) \notin new
      BY <1>3, <2>3 DEF twice
    <3> QED BY <1>4, <1>6, <2>3, <3>1
  <2>7. Awaited(v, accepted(r))
    BY <1>10, <2>3, <2>6 DEF Awaited
  <2> QED BY <1>10, <2>2, <2>3, <2>5, <2>7
<1>13. \A r \in told : \A k \in Kinds : \A p \in PortName :
         Claims(accepted(r).event, k, p) => k = "move" /\ p = Predecessor(r)
  BY <1>10, <1>12 DEF Claims
<1>14. /\ \A m \in S : \A k \in Kinds : \A p \in PortName :
            Claims(m.event, k, p) => <<k, p>> \in hand1
       /\ \A m1, m2 \in S : \A k \in Kinds : \A p \in PortName :
            Claims(m1.event, k, p) /\ Claims(m2.event, k, p) => m1 = m2
       /\ \A m \in S : Awaited(v, m)
       /\ \A m \in S : \A k \in Kinds : \A p \in PortName :
            Claims(m.event, k, p) => <<k, p>> \notin hand2
  <2>1. ASSUME NEW r1 \in told, NEW r2 \in told, NEW k \in Kinds,
               NEW p \in PortName, Claims(accepted(r1).event, k, p),
               Claims(accepted(r2).event, k, p)
        PROVE  r1 = r2
    <3>1. Predecessor(r1) = Predecessor(r2)
      BY <1>13, <2>1
    <3> QED BY <1>12, <3>1
  <2>2. ASSUME NEW r \in told, NEW k \in Kinds, NEW p \in PortName,
               Claims(accepted(r).event, k, p)
        PROVE  <<k, p>> \in hand1 /\ <<k, p>> \notin hand2
    <3>1. k = "move" /\ p = Predecessor(r)
      BY <1>13, <2>2
    <3>2. <<"move", p>> \in hand1
      BY <1>12, <3>1
    <3>3. ~(<<"move", p>> \in hand2)
      BY <1>7, <3>1 DEF Kinds
    <3> QED BY <3>1, <3>2, <3>3
  <2> QED BY <1>9, <1>12, <2>1, <2>2
<1>15. bound.ports = v.ports /\ bound.oops = v.oops
       /\ bound.net = v.net (+) SetToBag(S)
  BY <1>4, <1>5
<1>16. Good(bound, hand2)
  BY <1>7, <1>8, <1>11, <1>14, <1>15, GoodAdd
<1>17. \A r \in new : w.ports[r].state = "Absent"
  BY <1>3 DEF twice
<1> QED BY <1>5, <1>6, <1>16, <1>17 DEF bound, hand2

\* What is in hand is put into a port.
LEMMA GoodPut ==
  ASSUME NEW w, IsWorld(w), NEW hand, Good(w, hand), NEW p \in PortName,
         NEW port, SamePort(w.ports[p], port),
         port.peer_node_name = w.ports[p].peer_node_name,
         \A k \in Kinds : \A x \in PortName : Keeps(port, k, x) =>
           Keeps(w.ports[p], k, x) \/ <<k, x>> \in hand,
         Apart(port),
         \A x \in PortName : Keeps(port, "carried", x) =>
           w.ports[x].node = w.ports[p].node
  PROVE  Good([w EXCEPT !.ports[p] = port], {})
<1> DEFINE u == [w EXCEPT !.ports[p] = port]
<1>1. /\ u.net = w.net /\ u.oops = w.oops
      /\ u.ports[p] = port
      /\ \A q \in PortName : q # p => u.ports[q] = w.ports[q]
  BY OnePort
<1> HIDE DEF u
<1>2. Status(w, hand) /\ Exclusive(w, hand)
  BY DEF Good
<1>3. \A k \in Kinds : \A x \in PortName :
        /\ InNet(u, k, x) <=> InNet(w, k, x)
        /\ InPort(u, k, x) => InPort(w, k, x) \/ <<k, x>> \in hand
  BY <1>1 DEF InNet, InPort
<1>4. Exclusive(u, {})
  <2> SUFFICES ASSUME NEW k \in Kinds, NEW x \in PortName
               PROVE  ExclusiveClaim(u, {}, k, x)
    BY DEF Exclusive
  <2>1. ExclusiveClaim(w, hand, k, x)
    BY <1>2 DEF Exclusive
  <2>2. \A q1, q2 \in PortName :
          Keeps(u.ports[q1], k, x) /\ Keeps(u.ports[q2], k, x) => q1 = q2
    BY <1>1, <2>1 DEF ExclusiveClaim, InPort
  <2>3. ~(InNet(u, k, x) /\ InPort(u, k, x))
    BY <1>3, <2>1 DEF ExclusiveClaim
  <2> QED BY <1>1, <1>3, <2>1, <2>2, <2>3 DEF ExclusiveClaim
<1>5. \A q \in PortName : SamePort(w.ports[q], u.ports[q])
  BY <1>1 DEF SamePort
<1>6. \A k \in Kinds : \A x \in PortName :
        Claimed(u, {}, k, x) => Claimed(w, hand, k, x)
  BY <1>3 DEF Claimed
<1>7. \A q \in PortName : Apart(u.ports[q])
  BY <1>1, <1>2 DEF Status
<1>8. \A x, q \in PortName : Keeps(u.ports[q], "carried", x) =>
        u.ports[x].node = u.ports[q].node
  <2> SUFFICES ASSUME NEW x \in PortName, NEW q \in PortName,
                      Keeps(u.ports[q], "carried", x)
               PROVE  w.ports[x].node = w.ports[q].node
    BY <1>5 DEF SamePort
  <2> QED BY <1>1, <1>2 DEF Status
<1>9. Status(u, {})
  BY <1>2, <1>5, <1>6, <1>7, <1>8, StatusEase
<1>10. ASSUME NEW m \in DOMAIN w.net PROVE Awaited(u, m)
  <2>1. Awaited(w, m) /\ IsEnvelope(m)
    BY DEF Good, IsWorld, IsNet
  <2>2. \A q \in PortName :
          /\ u.ports[q].state = w.ports[q].state
          /\ u.ports[q].node = w.ports[q].node
          /\ u.ports[q].peer_node_name = w.ports[q].peer_node_name
    BY <1>1, <1>5 DEF SamePort
  <2> QED BY <2>1, <2>2, AwaitedEase
<1>11. Good(u, {})
  BY <1>1, <1>4, <1>9, <1>10 DEF Good
<1> QED BY <1>11 DEF u

\* AcceptMessage of the queue: the ports in the message are carried by p.
LEMMA GoodQueue ==
  ASSUME NEW w, IsWorld(w), NEW event, IsUserEvent(event),
         Good(w, Arriving(DOMAIN event.descriptors)), NEW p \in PortName,
         \A r \in DOMAIN event.descriptors : w.ports[r].node = w.ports[p].node
  PROVE  LET new == [w.ports[p] EXCEPT !.message_queue =
                       AfterAcceptMessage(@, Queued(event))]
         IN /\ Good([w EXCEPT !.ports[p] = new], {})
            /\ SamePort(w.ports[p], new)
<1> DEFINE m == Queued(event)
           R == DOMAIN event.descriptors
           port == w.ports[p]
           new == [port EXCEPT !.message_queue = AfterAcceptMessage(@, m)]
           hand == Arriving(R)
<1>1. R \in SUBSET PortName /\ m.ports = R
  BY DEF IsUserEvent, Queued
<1>2. \A k \in Kinds : \A x \in PortName :
        <<k, x>> \in hand <=> k = "carried" /\ x \in R
  BY DEF Arriving
<1>3. IsPort(port)
  BY DEF IsWorld
<1>4. /\ SamePort(port, new)
      /\ new.peer_node_name = port.peer_node_name
      /\ new.send_on_proxy_removal = port.send_on_proxy_removal
      /\ new.message_queue.heap = port.message_queue.heap \cup {m}
  <2> HIDE DEF m, port
  <2> QED BY <1>3 DEF AfterAcceptMessage, IsPort, Port, SamePort
<1> HIDE DEF m, new, hand
<1>5. \A k \in Kinds : \A x \in PortName :
        Keeps(new, k, x) => Keeps(port, k, x) \/ <<k, x>> \in hand
  BY <1>1, <1>2, <1>4 DEF Keeps
<1>6. Apart(new)
  <2>1. Apart(port)
    BY DEF Good, Status
  <2>2. \A x \in R : ~Keeps(port, "carried", x)
    <3> SUFFICES ASSUME NEW x \in R PROVE ~Keeps(port, "carried", x)
      OBVIOUS
    <3>1. ExclusiveClaim(w, hand, "carried", x)
      BY <1>1 DEF Good, Exclusive, Kinds, hand
    <3>2. <<"carried", x>> \in hand
      BY <1>1, <1>2 DEF Kinds
    <3> QED BY <3>1, <3>2 DEF ExclusiveClaim, InPort
  <2> SUFFICES ASSUME NEW m1 \in new.message_queue.heap,
                      NEW m2 \in new.message_queue.heap,
                      NEW x \in PortName, x \in m1.ports, x \in m2.ports
               PROVE  m1 = m2
    BY DEF Apart
  <2>3. x \in R => m1 \notin port.message_queue.heap
                   /\ m2 \notin port.message_queue.heap
    BY <2>2 DEF Keeps
  <2> QED BY <1>1, <1>4, <2>1, <2>3 DEF Apart
<1>7. \A x \in PortName : Keeps(new, "carried", x) =>
        w.ports[x].node = w.ports[p].node
  <2> SUFFICES ASSUME NEW x \in PortName, Keeps(new, "carried", x)
               PROVE  w.ports[x].node = w.ports[p].node
    OBVIOUS
  <2>1. Keeps(port, "carried", x) \/ <<"carried", x>> \in hand
    BY <1>5 DEF Kinds
  <2>2. CASE Keeps(port, "carried", x)
    BY <2>2 DEF Good, Status
  <2>3. CASE <<"carried", x>> \in hand
    BY <1>2, <2>3 DEF Kinds
  <2> QED BY <2>1, <2>2, <2>3
<1>8. Good([w EXCEPT !.ports[p] = new], {})
  <2>1. Good(w, hand)
    BY DEF hand
  <2> QED BY <1>4, <1>5, <1>6, <1>7, <2>1, GoodPut
<1> QED BY <1>4, <1>8 DEF new, m

\* PortStatusChanged is nothing to the claims.
LEMMA GoodNotified ==
  ASSUME NEW w, IsWorld(w), NEW hand, Good(w, hand), NEW p
  PROVE  Good(PortStatusChanged(w, p), hand)
<1> DEFINE u == PortStatusChanged(w, p)
<1>1. u.ports = w.ports /\ u.net = w.net /\ u.oops = w.oops
  BY DEF PortStatusChanged, IsWorld
<1> HIDE DEF u
<1>2. \A m \in DOMAIN w.net : IsEnvelope(m)
  BY DEF IsWorld, IsNet
<1>3. \A p1 \in PortName : SamePort(w.ports[p1], u.ports[p1])
  BY <1>1 DEF SamePort
<1>4. \A p1, q1 \in PortName : Keeps(w.ports[q1], "carried", p1) =>
        w.ports[p1].node = w.ports[q1].node
  BY DEF Good, Status
<1>5. Good(u, hand)
  BY <1>1, <1>2, <1>3, <1>4, GoodEase
<1> QED BY <1>5 DEF u

\* A waiting port that AcceptMessage of the queue says nothing about waits on.
LEMMA QueueWaits ==
  ASSUME NEW port \in Port, NEW m, ~AcceptSignals(port.message_queue, m),
         Waits(port)
  PROVE  Waits([port EXCEPT !.message_queue = AfterAcceptMessage(@, m)])
<1> DEFINE queue == AfterAcceptMessage(port.message_queue, m)
           new == [port EXCEPT !.message_queue = queue]
<1>1. /\ new.message_queue = queue
      /\ new.peer_closed = port.peer_closed
      /\ new.remove_proxy_on_last_message = port.remove_proxy_on_last_message
      /\ new.last_sequence_num_to_receive = port.last_sequence_num_to_receive
  BY DEF Port
<1>2. /\ queue.signalable = port.message_queue.signalable
      /\ queue.next_sequence_num = port.message_queue.next_sequence_num
  BY DEF AfterAcceptMessage, Port
<1>3. ~HasNextMessage(queue)
  BY DEF Waits, AcceptSignals
<1> HIDE DEF new, queue
<1>4. Waits(new)
  BY <1>1, <1>2, <1>3 DEF Waits, CanAcceptMoreMessages
<1> QED BY <1>4 DEF new, queue

\* OnUserMessage, with the claims of the message in hand.
LEMMA GoodOnUserMessage ==
  ASSUME NEW w, IsWorld(w), NEW hand, Good(w, hand), NEW n \in Nodes, NEW event,
         IsUserEvent(event), event.type = "User", MaySendOn(w, event),
         \A k \in Kinds : \A p \in PortName : Claims(event, k, p) =>
           <<k, p>> \in hand,
         \A r \in DOMAIN event.descriptors :
           Referred(w, n, r, event.descriptors[r]),
         \A r \in DOMAIN event.descriptors : r \notin idle
  PROVE  /\ Good(OnUserMessage(w, n, event), {})
         /\ Calm(w, OnUserMessage(w, n, event))
<1> DEFINE p == event.port_name
           m == Queued(event)
           R == DOMAIN event.descriptors
           bound == AcceptPorts(w, n, event.descriptors)
           new == [bound.ports[p] EXCEPT !.message_queue =
                     AfterAcceptMessage(@, m)]
           queued == [bound EXCEPT !.ports[p] = new]
<1>1. /\ p \in PortName /\ R \in SUBSET PortName /\ m.ports = R
      /\ \A q \in R : event.descriptors[q] \in Descriptor
                        /\ HasPeerName(event.descriptors[q])
  BY DEF IsUserEvent, Queued
<1>2. IsWorld(bound)
  BY <1>1, AcceptPortsType
<1>3. /\ Good(bound, Arriving(R))
      /\ \A r \in R : bound.ports[r] = AcceptedPort(n, event.descriptors[r])
      /\ \A q \in PortName \ R : bound.ports[q] = w.ports[q]
      /\ \A r \in R : w.ports[r].state = "Absent"
  BY GoodAcceptPorts
<1> HIDE DEF bound
<1>4. \A r \in R : /\ bound.ports[r].state = "Receiving"
                   /\ bound.ports[r].node = n
  <2> SUFFICES ASSUME NEW r \in R
               PROVE  /\ bound.ports[r].state = "Receiving"
                      /\ bound.ports[r].node = n
    OBVIOUS
  <2>1. bound.ports[r] = AcceptedPort(n, event.descriptors[r])
    BY <1>3
  <2>2. Newcomer(bound.ports[r]) /\ bound.ports[r].node = n
    BY <2>1, AcceptedPortNew
  <2> QED BY <2>2 DEF Newcomer
<1>5. Good(Refuse(bound, n, m), {})
  <2>1. ASSUME NEW q \in R, NEW x \in PortName
        PROVE  ~Keeps(bound.ports[x], "carried", q)
    <3>1. ExclusiveClaim(bound, Arriving(R), "carried", q)
      BY <1>1, <1>3 DEF Good, Exclusive, Kinds
    <3>2. <<"carried", q>> \in Arriving(R)
      BY <1>1 DEF Kinds, Arriving
    <3> QED BY <3>1, <3>2 DEF ExclusiveClaim, InPort
  <2>2. Good(CloseAll(bound, n, R), {})
    BY <1>1, <1>2, <1>3, <1>4, <2>1, GoodCloseAll
  <2> QED BY <1>1, <2>2 DEF Refuse
<1>6. queued = [bound EXCEPT !.ports[p].message_queue =
                                AfterAcceptMessage(@, m)]
  OBVIOUS
<1>7. ASSUME Exists(w, n, p)
      PROVE  /\ Good(queued, {})
             /\ IsWorld(queued)
             /\ queued.ports[p].state = w.ports[p].state
             /\ queued.ports[p].message_queue.heap =
                  w.ports[p].message_queue.heap \cup {m}
  <2>1. p \notin R /\ w.ports[p].node = n
    BY <1>3, <1>7 DEF Exists
  <2>2. bound.ports[p] = w.ports[p]
    BY <1>1, <1>3, <2>1
  <2>3. \A r \in R : bound.ports[r].node = bound.ports[p].node
    BY <1>4, <2>1, <2>2
  <2>4. Good(queued, {}) /\ SamePort(bound.ports[p], new)
    BY <1>1, <1>2, <1>3, <2>3, GoodQueue
  <2>5. /\ IsPort(new)
        /\ new.message_queue.heap = bound.ports[p].message_queue.heap \cup {m}
    <3>1. IsPort(bound.ports[p])
      BY <1>1, <1>2 DEF IsWorld
    <3> QED BY <3>1, QueuedPortType
  <2> HIDE DEF new
  <2>6. IsWorld(queued)
    BY <1>1, <1>2, <2>5, WithPort
  <2>7. queued.ports[p] = new
    BY <1>1, <1>2, OnePort
  <2> QED BY <2>2, <2>4, <2>5, <2>6, <2>7 DEF SamePort
<1> HIDE DEF queued, new
<1>8. ASSUME Exists(w, n, p), w.ports[p].state = "Proxying"
      PROVE  Good(ForwardAsProxy(queued, n, p), {})
  <2>1. NamesLeft(queued.ports[p].message_queue.heap)
    BY <1>7, <1>8 DEF MaySendOn
  <2>2. /\ Good(queued, {}) /\ IsWorld(queued)
        /\ queued.ports[p].state = "Proxying"
    BY <1>7, <1>8
  <2> DEFINE on == ForwardMessages(queued, n, p)
  <2>3. /\ Good(on, {}) /\ on.ports[p].state = "Proxying"
        /\ IsWorld(on)
    BY <1>1, <2>1, <2>2, GoodForwardMessages, ForwardMessagesType
  <2> HIDE DEF on
  <2>4. Good(MaybeRemoveProxy(on, n, p), {})
    BY <1>1, <2>3, GoodMaybeRemoveProxy
  <2> QED BY <2>3, <2>4 DEF ForwardAsProxy, on
<1>9. ASSUME Exists(w, n, p) PROVE Good(PortStatusChanged(queued, p), {})
  BY <1>7, <1>9, GoodNotified
<1>10. Calm(w, bound)
  <2>1. bound.notified = w.notified
    BY DEF AcceptPorts, IsWorld, bound
  <2> QED BY <1>3, <2>1 DEF Calm
<1>11. Calm(w, Refuse(bound, n, m))
  BY <1>1, <1>2, <1>10, CalmCloseAll, CalmCalm DEF Refuse
<1>12. ASSUME Exists(w, n, p), w.ports[p].state # "Receiving"
       PROVE  Calm(w, queued)
  <2>1. queued.ports[p] = new
    BY <1>1, <1>2, OnePort DEF queued
  <2>2. new.state # "Receiving"
    BY <1>7, <1>12, <2>1
  <2> QED BY <1>1, <1>2, <1>10, <2>2, CalmPort, CalmCalm DEF queued
<1>13. ASSUME Exists(w, n, p), w.ports[p].state = "Proxying"
       PROVE  Calm(w, ForwardAsProxy(queued, n, p))
  <2> DEFINE on == ForwardMessages(queued, n, p)
  <2>1. NamesLeft(queued.ports[p].message_queue.heap)
    BY <1>7, <1>13 DEF MaySendOn
  <2>2. /\ Good(queued, {}) /\ IsWorld(queued) /\ Calm(w, queued)
        /\ queued.ports[p].state = "Proxying"
    BY <1>7, <1>12, <1>13
  <2>3. IsWorld(on) /\ Calm(queued, on)
    BY <1>1, <2>1, <2>2, GoodForwardMessages, ForwardMessagesType
  <2> HIDE DEF on
  <2>4. Calm(on, MaybeRemoveProxy(on, n, p))
    BY <1>1, <2>3, CalmMaybeRemoveProxy
  <2>5. Calm(w, on)
    BY <2>2, <2>3, CalmCalm
  <2>6. Calm(w, MaybeRemoveProxy(on, n, p))
    BY <2>4, <2>5, CalmCalm
  <2> QED BY <2>5, <2>6 DEF ForwardAsProxy, on
<1>14. ASSUME Exists(w, n, p), w.ports[p].state = "Receiving",
              ~AcceptSignals(w.ports[p].message_queue, m)
       PROVE  Calm(w, queued)
  <2>1. bound.ports[p] = w.ports[p]
    BY <1>1, <1>3, <1>14 DEF Exists
  <2>2. w.ports[p] \in Port
    BY <1>1 DEF IsWorld
  <2>3. Waits(bound.ports[p]) => Waits(new)
    BY <1>14, <2>1, <2>2, QueueWaits DEF new
  <2> QED BY <1>1, <1>2, <1>10, <1>14, <2>1, <2>3, CalmPort, CalmCalm DEF queued
<1>15. ASSUME Exists(w, n, p)
       PROVE  Calm(w, PortStatusChanged(queued, p))
  <2> DEFINE v == PortStatusChanged(queued, p)
  <2>1. /\ queued.notified = bound.notified
        /\ \A q \in PortName : q # p => queued.ports[q] = bound.ports[q]
    BY <1>1, <1>2, OnePort DEF queued, IsWorld
  <2>2. v.ports = queued.ports /\ v.notified = queued.notified \cup {p}
    BY <1>7, <1>15 DEF PortStatusChanged, IsWorld
  <2> HIDE DEF v
  <2>3. Calm(bound, v)
    BY <2>1, <2>2 DEF Calm
  <2>4. Calm(w, v)
    BY <1>10, <2>3, CalmCalm
  <2> QED BY <2>4 DEF v
<1> DEFINE after == OnUserMessage(w, n, event)
<1>16. \/ after = Refuse(bound, n, m)
       \/ /\ Exists(w, n, p)
          /\ \/ after = queued /\ w.ports[p].state # "Receiving"
             \/ /\ after = queued /\ w.ports[p].state = "Receiving"
                /\ ~AcceptSignals(w.ports[p].message_queue, m)
             \/ /\ after = ForwardAsProxy(queued, n, p)
                /\ w.ports[p].state = "Proxying"
             \/ after = PortStatusChanged(queued, p)
  BY <1>6 DEF OnUserMessage, bound
<1> HIDE DEF after
<1>17. Good(after, {}) /\ Calm(w, after)
  BY <1>5, <1>7, <1>8, <1>9, <1>11, <1>12, <1>13, <1>14, <1>15, <1>16
<1> QED BY <1>17 DEF after

\* OnPortAccepted: the move ends and the removal of the proxy begins.
LEMMA GoodOnPortAccepted ==
  ASSUME NEW w, IsWorld(w), NEW n \in Nodes, NEW p \in PortName,
         Good(w, {<<"move", p>>}), NamesLeft(w.ports[p].message_queue.heap),
         Exists(w, n, p), w.ports[p].state = "Buffering"
  PROVE  /\ Good(OnPortAccepted(w, n, p), {})
         /\ Calm(w, OnPortAccepted(w, n, p))
<1> DEFINE proxying == StartProxying(w, p)
           forwarded == ForwardMessages(proxying, n, p)
           hand == {<<"removal", p>>}
<1>1. /\ Good(proxying, hand)
      /\ proxying.ports[p] = [w.ports[p] EXCEPT !.state = "Proxying"]
  BY GoodStartProxying
<1>2. /\ proxying.ports[p].state = "Proxying"
      /\ proxying.ports[p].message_queue = w.ports[p].message_queue
  BY <1>1 DEF IsWorld, IsPort, Port
<1>3. IsWorld(proxying)
  <2> DEFINE new == [w.ports[p] EXCEPT !.state = "Proxying"]
  <2>1. IsPort(new)
    BY DEF Exists, IsWorld, IsPort, Port, States, HasPeerName
  <2>2. proxying = [w EXCEPT !.ports[p] = new]
    BY DEF StartProxying
  <2> HIDE DEF new, proxying
  <2> QED BY <2>1, <2>2, WithPort
<1>4. Calm(w, proxying)
  <2> DEFINE new == [w.ports[p] EXCEPT !.state = "Proxying"]
  <2>1. new.state # "Receiving"
    BY DEF IsWorld, IsPort, Port
  <2>2. proxying = [w EXCEPT !.ports[p] = new]
    BY DEF StartProxying
  <2> HIDE DEF new, proxying
  <2> QED BY <2>1, <2>2, CalmPort
<1> HIDE DEF proxying, hand
<1>5. /\ Good(forwarded, hand) /\ forwarded.ports[p].state = "Proxying"
      /\ IsWorld(forwarded)
      /\ Calm(proxying, forwarded)
  BY <1>1, <1>2, <1>3, GoodForwardMessages, ForwardMessagesType
<1>6. hand \ {<<"removal", p>>} = {} /\ <<"removal", p>> \in hand
  BY DEF hand
<1>7. Good(forwarded, {})
  BY <1>5, GoodLess
<1> HIDE DEF forwarded
<1>8. Good(InitiateProxyRemoval(forwarded, n, p), {})
  BY <1>5, <1>6, GoodInitiateProxyRemoval
<1>9. Good(RemoveAtOnce(forwarded, n, p), {})
  <2> DEFINE gone == MaybeRemoveProxy(forwarded, n, p)
             port == forwarded.ports[p]
             event == ObserveClosureEvent(port.peer_port_name,
                                          port.last_sequence_num_to_receive)
  <2>1. Good(gone, {}) /\ IsWorld(gone)
    BY <1>5, <1>7, GoodMaybeRemoveProxy, MaybeRemoveProxyType
  <2>2. event.type = "ObserveClosure"
    BY DEF ObserveClosureEvent
  <2> HIDE DEF gone, event
  <2>3. Good(ForwardMessage(gone, n, port.peer_node_name, event), {})
    BY <2>1, <2>2, GoodTell
  <2> QED BY <2>3 DEF RemoveAtOnce, ForwardClosure, gone, event
<1>10. Calm(w, forwarded)
  BY <1>5, <1>4, CalmCalm
<1>11. Calm(w, InitiateProxyRemoval(forwarded, n, p))
  BY <1>5, <1>10, CalmForward, CalmCalm DEF InitiateProxyRemoval
<1>12. Calm(w, RemoveAtOnce(forwarded, n, p))
  <2> DEFINE gone == MaybeRemoveProxy(forwarded, n, p)
  <2>1. Calm(forwarded, gone) /\ IsWorld(gone)
    BY <1>5, <1>7, CalmMaybeRemoveProxy, MaybeRemoveProxyType
  <2> HIDE DEF gone
  <2>2. Calm(w, gone)
    BY <1>10, <2>1, CalmCalm
  <2>3. \A to, event : Calm(w, ForwardMessage(gone, n, to, event))
    BY <2>1, <2>2, CalmForward, CalmCalm
  <2> QED BY <2>3 DEF RemoveAtOnce, ForwardClosure, gone
<1> QED BY <1>7, <1>8, <1>9, <1>10, <1>11, <1>12
        DEF OnPortAccepted, proxying, forwarded

\* OnObserveProxy: the removal in hand is answered, sent on or kept for later.
LEMMA GoodOnObserveProxy ==
  ASSUME NEW w, IsWorld(w), NEW n \in Nodes, NEW event \in InternalEvent,
         event.type = "ObserveProxy",
         Good(w, {<<"removal", event.proxy_port_name>>})
  PROVE  /\ Good(OnObserveProxy(w, n, event), {})
         /\ Calm(w, OnObserveProxy(w, n, event))
<1> DEFINE p == event.port_name
           x == event.proxy_port_name
           port == w.ports[p]
           hand == {<<"removal", x>>}
           again == [event EXCEPT !.port_name = port.peer_port_name]
<1>1. p \in PortName /\ x \in PortName
  BY ObserveProxyFields
<1>2. hand \ {<<"removal", x>>} = {} /\ <<"removal", x>> \in hand
  OBVIOUS
<1>3. Good(w, hand)
  OBVIOUS
<1>4. again.type = "ObserveProxy" /\ again.proxy_port_name = x
  BY ObserveProxyFields
<1>5. IsPort(port)
  BY <1>1 DEF IsWorld
<1> HIDE DEF hand, again
<1>6. Good(w, {})
  BY <1>3, GoodLess
<1>7. Good(ForwardMessage(w, n, port.peer_node_name, again), {})
  <2>1. Claims(again, "removal", x)
    BY <1>4 DEF Claims
  <2>2. Good(ForwardMessage(w, n, port.peer_node_name, again),
             hand \ {<<"removal", x>>})
    BY <1>1, <1>2, <1>3, <1>4, <2>1, GoodAsk
  <2> QED BY <1>2, <2>2
<1>8. ASSUME port.state = "Receiving"
      PROVE  /\ Good(SkipProxy(w, n, event), {})
             /\ Calm(w, SkipProxy(w, n, event))
  <2> DEFINE new == [port EXCEPT !.peer_node_name = event.proxy_to_node_name,
                                 !.peer_port_name = event.proxy_to_port_name]
             skipped ==
               [w EXCEPT !.ports[p].peer_node_name = event.proxy_to_node_name,
                         !.ports[p].peer_port_name = event.proxy_to_port_name]
             ack == ObserveProxyAckEvent(x, port.next_sequence_num_to_send - 1)
  <2>1. skipped = [w EXCEPT !.ports[p] = new]
    BY <1>1, <1>5 DEF IsWorld, IsPort, Port
  <2>2. /\ SamePort(port, new)
        /\ new.send_on_proxy_removal = port.send_on_proxy_removal
        /\ new.message_queue.heap = port.message_queue.heap
        /\ IsPort(new)
    <3>1. /\ event.proxy_to_node_name \in Nodes
          /\ event.proxy_to_port_name \in PortName
      BY ObserveProxyFields
    <3> HIDE DEF port
    <3> QED BY <1>5, <3>1 DEF IsPort, Port, SamePort, HasPeerName
  <2>3. Waits(port) => Waits(new)
    <3> HIDE DEF port
    <3> QED BY <1>5 DEF IsPort, Port, Waits, CanAcceptMoreMessages
  <2>4. ack.type = "ObserveProxyAck" /\ Claims(ack, "removal", x)
    BY DEF ObserveProxyAckEvent, Claims
  <2> HIDE DEF new, skipped, ack
  <2>5. Good(skipped, hand)
    BY <1>1, <1>3, <1>8, <2>1, <2>2, GoodQuiet
  <2>6. IsWorld(skipped)
    BY <1>1, <2>1, <2>2, WithPort
  <2>7. Good(ForwardMessage(skipped, n, event.proxy_node_name, ack),
             hand \ {<<"removal", x>>})
    BY <1>1, <1>2, <2>4, <2>5, <2>6, GoodAsk
  <2>8. Calm(w, skipped)
    BY <1>1, <1>8, <2>1, <2>3, CalmPort
  <2>9. Calm(w, ForwardMessage(skipped, n, event.proxy_node_name, ack))
    BY <2>6, <2>8, CalmForward, CalmCalm
  <2> QED BY <1>2, <2>7, <2>9 DEF SkipProxy, skipped, ack
<1>9. ASSUME port.state # "Receiving" PROVE Calm(w, DelayAck(w, n, event))
  <2> DEFINE new == [port EXCEPT !.send_on_proxy_removal = x,
                                 !.ack_node = event.proxy_node_name]
  <2>1. DelayAck(w, n, event) = [w EXCEPT !.ports[p] = new]
    BY <1>1, <1>5 DEF DelayAck, IsWorld, IsPort, Port
  <2>2. new.state # "Receiving"
    <3> HIDE DEF port
    <3> QED BY <1>5, <1>9 DEF IsPort, Port
  <2> HIDE DEF new
  <2> QED BY <1>1, <2>1, <2>2, CalmPort
<1>10. Good(DelayAck(w, n, event), {})
  <2> DEFINE new == [port EXCEPT !.send_on_proxy_removal = x,
                                 !.ack_node = event.proxy_node_name]
  <2>1. DelayAck(w, n, event) = [w EXCEPT !.ports[p] = new]
    BY <1>1, <1>5 DEF DelayAck, IsWorld, IsPort, Port
  <2>2. /\ SamePort(port, new)
        /\ new.peer_node_name = port.peer_node_name
        /\ new.send_on_proxy_removal = x
        /\ new.message_queue.heap = port.message_queue.heap
    <3> HIDE DEF port
    <3> QED BY <1>5 DEF IsPort, Port, SamePort
  <2> HIDE DEF new
  <2>3. \A k \in Kinds : \A y \in PortName :
          Keeps(new, k, y) => Keeps(port, k, y) \/ <<k, y>> \in hand
    BY <1>2, <2>2 DEF Keeps
  <2>4. Apart(new)
    BY <1>1, <1>3, <2>2 DEF Good, Status, Apart
  <2>5. \A y \in PortName : Keeps(new, "carried", y) =>
          w.ports[y].node = w.ports[p].node
    <3>1. \A y \in PortName : Keeps(new, "carried", y) =>
            Keeps(port, "carried", y)
      BY <2>2 DEF Keeps
    <3> QED BY <1>1, <1>3, <3>1 DEF Good, Status
  <2> QED BY <1>1, <1>3, <2>1, <2>2, <2>3, <2>4, <2>5, GoodPut
<1>11. Calm(w, w) /\ Calm(w, ForwardMessage(w, n, port.peer_node_name, again))
  BY CalmSame, CalmForward
<1> QED BY <1>6, <1>7, <1>8, <1>10, <1>9, <1>11 DEF OnObserveProxy, again

\* OnObserveProxyAck: the removal in hand is for a proxy, if it is still there.
LEMMA GoodOnObserveProxyAck ==
  ASSUME NEW w, IsWorld(w), NEW n \in Nodes, NEW event \in InternalEvent,
         event.type = "ObserveProxyAck",
         Good(w, {<<"removal", event.port_name>>})
  PROVE  /\ Good(OnObserveProxyAck(w, n, event), {})
         /\ Calm(w, OnObserveProxyAck(w, n, event))
<1> DEFINE p == event.port_name
           last == event.last_sequence_num
           port == w.ports[p]
           hand == {<<"removal", p>>}
           new == [port EXCEPT !.remove_proxy_on_last_message = TRUE,
                               !.last_sequence_num_to_receive = last]
           expects == [w EXCEPT !.ports[p].remove_proxy_on_last_message = TRUE,
                                !.ports[p].last_sequence_num_to_receive = last]
<1>1. p \in PortName /\ last \in Int
  BY LastFields
<1>2. hand \ {<<"removal", p>>} = {} /\ <<"removal", p>> \in hand
  OBVIOUS
<1>3. Good(w, hand)
  OBVIOUS
<1>4. IsPort(port)
  BY <1>1 DEF IsWorld
<1> HIDE DEF hand
<1>5. Good(w, {})
  BY <1>3, GoodLess
<1>6. port.state \in {"Proxying", "Absent"}
  <2>1. Claimed(w, hand, "removal", p)
    BY <1>2 DEF Claimed
  <2>2. PortStatus(w, hand, p)
    BY <1>1, <1>3 DEF Good, Status
  <2> QED BY <2>1, <2>2 DEF PortStatus
<1>7. Good(InitiateProxyRemoval(w, n, p), {})
  BY <1>1, <1>2, <1>3, GoodInitiateProxyRemoval
<1>8. ASSUME port.state = "Proxying"
      PROVE  /\ Good(ExpectLast(w, n, p, last), {})
             /\ Calm(w, ExpectLast(w, n, p, last))
  <2>1. expects = [w EXCEPT !.ports[p] = new]
    BY <1>1, <1>4 DEF IsWorld, IsPort, Port
  <2>2. /\ SamePort(port, new)
        /\ new.peer_node_name = port.peer_node_name
        /\ new.send_on_proxy_removal = port.send_on_proxy_removal
        /\ new.message_queue.heap = port.message_queue.heap
        /\ IsPort(new)
    <3> HIDE DEF port, last
    <3> QED BY <1>1, <1>4 DEF IsPort, Port, SamePort, HasPeerName
  <2> HIDE DEF new, expects
  <2>3. Good(expects, {})
    BY <1>1, <1>5, <2>1, <2>2, GoodQuiet
  <2>4. IsWorld(expects)
    BY <1>1, <2>1, <2>2, WithPort
  <2>5. expects.ports[p] = new
    BY <1>1, <2>1, OnePort
  <2>6. expects.ports[p].state = "Proxying"
    BY <1>8, <2>2, <2>5 DEF SamePort
  <2>7. Good(MaybeRemoveProxy(expects, n, p), {})
    BY <1>1, <2>3, <2>4, <2>6, GoodMaybeRemoveProxy
  <2>8. Calm(w, expects)
    BY <1>1, <1>8, <2>1, <2>2, CalmPort DEF SamePort
  <2>9. Calm(w, MaybeRemoveProxy(expects, n, p))
    BY <1>1, <2>4, <2>8, CalmMaybeRemoveProxy, CalmCalm
  <2> QED BY <2>7, <2>9 DEF ExpectLast, expects
<1>9. Calm(w, w) /\ Calm(w, InitiateProxyRemoval(w, n, p))
  BY CalmSame, CalmForward DEF InitiateProxyRemoval
<1> QED BY <1>5, <1>6, <1>7, <1>8, <1>9 DEF OnObserveProxyAck, Exists

\* OnObserveClosure claims nothing.
LEMMA GoodOnObserveClosure ==
  ASSUME NEW w, IsWorld(w), NEW n \in Nodes, NEW event \in InternalEvent,
         event.type = "ObserveClosure", Good(w, {})
  PROVE  /\ Good(OnObserveClosure(w, n, event), {})
         /\ Calm(w, OnObserveClosure(w, n, event))
<1> DEFINE p == event.port_name
           last == event.last_sequence_num
           port == w.ports[p]
           flag == port.remove_proxy_on_last_message \/ port.state # "Receiving"
           new == [port EXCEPT !.peer_closed = TRUE,
                               !.last_sequence_num_to_receive = last,
                               !.remove_proxy_on_last_message = flag]
           closed == PeerClosed(w, p, last)
<1>1. p \in PortName /\ last \in Int
  BY LastFields
<1>2. IsPort(port) /\ port.next_sequence_num_to_send - 1 \in Int
  BY <1>1 DEF IsWorld, IsPort, Port
<1>3. flag \in BOOLEAN
  OBVIOUS
<1>4. closed = [w EXCEPT !.ports[p] = new]
  BY <1>1, <1>2 DEF PeerClosed, IsWorld, IsPort, Port
<1> HIDE DEF flag
<1>5. /\ SamePort(port, new)
      /\ new.peer_node_name = port.peer_node_name
      /\ new.send_on_proxy_removal = port.send_on_proxy_removal
      /\ new.message_queue.heap = port.message_queue.heap
      /\ IsPort(new)
  <2> HIDE DEF port, last
  <2> QED BY <1>1, <1>2, <1>3 DEF IsPort, Port, SamePort, HasPeerName
<1> HIDE DEF new, closed
<1>6. Good(closed, {})
  BY <1>1, <1>4, <1>5, GoodQuiet
<1>7. IsWorld(closed)
  BY <1>1, <1>4, <1>5, WithPort
<1>8. closed.ports[p].state = port.state
  <2>1. closed.ports[p] = new
    BY <1>1, <1>4, OnePort
  <2> QED BY <1>5, <2>1 DEF SamePort
<1>9. ASSUME NEW v, IsWorld(v), Good(v, {}), NEW k \in Int
      PROVE  Good(ForwardClosure(v, n, port, k), {})
  <2> DEFINE told == ObserveClosureEvent(port.peer_port_name, k)
  <2>1. told.type = "ObserveClosure"
    BY DEF ObserveClosureEvent
  <2> HIDE DEF told
  <2>2. Good(ForwardMessage(v, n, port.peer_node_name, told), {})
    BY <1>9, <2>1, GoodTell
  <2> QED BY <2>2 DEF ForwardClosure, told
<1>10. Good(PortStatusChanged(
              ForwardClosure(closed, n, port,
                             port.next_sequence_num_to_send - 1), p), {})
  <2> DEFINE told == ForwardClosure(closed, n, port,
                                    port.next_sequence_num_to_send - 1)
  <2>1. Good(told, {})
    BY <1>2, <1>6, <1>7, <1>9
  <2>2. IsWorld(told)
    BY <1>2, <1>7, ForwardClosureType
  <2> HIDE DEF told
  <2>3. Good(PortStatusChanged(told, p), {})
    BY <2>1, <2>2, GoodNotified
  <2> QED BY <2>3 DEF told
<1>11. ASSUME port.state = "Proxying"
       PROVE  Good(ForwardClosure(MaybeRemoveProxy(closed, n, p), n, port,
                                  last), {})
  <2>1. Good(MaybeRemoveProxy(closed, n, p), {})
    BY <1>1, <1>6, <1>7, <1>8, <1>11, GoodMaybeRemoveProxy
  <2>2. IsWorld(MaybeRemoveProxy(closed, n, p))
    BY <1>1, <1>7, MaybeRemoveProxyType
  <2> QED BY <1>1, <1>9, <2>1, <2>2
<1>12. Good(ForwardClosure(closed, n, port, last), {})
  BY <1>1, <1>6, <1>7, <1>9
<1>13. ASSUME port.state = "Receiving"
       PROVE  Calm(w, PortStatusChanged(
                ForwardClosure(closed, n, port,
                               port.next_sequence_num_to_send - 1), p))
  <2> DEFINE told == ForwardClosure(closed, n, port,
                                    port.next_sequence_num_to_send - 1)
             v == PortStatusChanged(told, p)
  <2>1. told.ports = closed.ports /\ told.notified = closed.notified
    BY <1>7 DEF ForwardClosure, ForwardMessage, ForwardAll, IsWorld
  <2>2. IsWorld(told)
    BY <1>2, <1>7, ForwardClosureType
  <2>3. closed.notified = w.notified
    BY <1>4 DEF IsWorld
  <2> HIDE DEF told
  <2>4. v.ports = closed.ports /\ v.notified = w.notified \cup {p}
    BY <2>1, <2>2, <2>3 DEF PortStatusChanged, IsWorld
  <2>5. \A q \in PortName : q # p => closed.ports[q] = w.ports[q]
    BY <1>1, <1>4, OnePort
  <2> HIDE DEF v
  <2>6. Calm(w, v)
    BY <2>4, <2>5 DEF Calm
  <2> QED BY <2>6 DEF told, v
<1>14. ASSUME port.state # "Receiving"
       PROVE  /\ Calm(w, ForwardClosure(closed, n, port, last))
              /\ Calm(w, ForwardClosure(MaybeRemoveProxy(closed, n, p), n, port,
                                        last))
  <2>1. Calm(w, closed)
    BY <1>1, <1>4, <1>5, <1>14, CalmPort DEF SamePort
  <2> DEFINE gone == MaybeRemoveProxy(closed, n, p)
  <2>2. Calm(w, gone) /\ IsWorld(gone)
    BY <1>1, <1>7, <2>1, CalmMaybeRemoveProxy, CalmCalm, MaybeRemoveProxyType
  <2> HIDE DEF gone
  <2>3. \A to, e : Calm(w, ForwardMessage(closed, n, to, e))
    BY <1>7, <2>1, CalmForward, CalmCalm
  <2>4. \A to, e : Calm(w, ForwardMessage(gone, n, to, e))
    BY <2>2, CalmForward, CalmCalm
  <2> QED BY <2>3, <2>4 DEF ForwardClosure, gone
<1>15. Calm(w, w)
  BY CalmSame
<1> QED BY <1>10, <1>11, <1>12, <1>13, <1>14, <1>15
        DEF OnObserveClosure, closed

\* The claims of an event, once it is taken off the transport.
HandOf(event) == {c \in Kinds \X PortName : Claims(event, c[1], c[2])}

\* AcceptMessage, with the claims of the event in hand.
LEMMA GoodAcceptMessage ==
  ASSUME NEW w, IsWorld(w), NEW n \in Nodes, NEW event,
         IsUserEvent(event) \/ event \in InternalEvent, MaySendOn(w, event),
         Good(w, HandOf(event)),
         event.type = "User" =>
           \A r \in DOMAIN event.descriptors :
             Referred(w, n, r, event.descriptors[r]),
         event.type = "User" =>
           \A r \in DOMAIN event.descriptors : r \notin idle,
         event.type = "PortAccepted" =>
           /\ w.ports[event.port_name].state = "Buffering"
           /\ w.ports[event.port_name].node = n
  PROVE  /\ Good(AcceptMessage(w, n, event), {})
         /\ Calm(w, AcceptMessage(w, n, event))
<1> DEFINE p == event.port_name
<1>1. CASE IsUserEvent(event)
  <2>1. event.type = "User"
    BY <1>1 DEF IsUserEvent
  <2>2. \A k \in Kinds : \A x \in PortName : Claims(event, k, x) =>
          <<k, x>> \in HandOf(event)
    BY DEF HandOf
  <2>3. \A r \in DOMAIN event.descriptors :
          Referred(w, n, r, event.descriptors[r]) /\ r \notin idle
    BY <2>1
  <2>4. /\ Good(OnUserMessage(w, n, event), {})
        /\ Calm(w, OnUserMessage(w, n, event))
    BY <1>1, <2>1, <2>2, <2>3, GoodOnUserMessage
  <2> QED BY <2>1, <2>4 DEF AcceptMessage
<1>2. CASE event \in InternalEvent
  <2>1. /\ event.type \in {"PortAccepted", "ObserveProxy", "ObserveProxyAck",
                           "ObserveClosure"}
        /\ p \in PortName
    BY <1>2 DEF InternalEvent
  <2>2. CASE event.type = "PortAccepted"
    <3>1. NamesLeft(w.ports[p].message_queue.heap)
      BY <2>2 DEF MaySendOn
    <3>2. HandOf(event) = {<<"move", p>>}
      BY <2>1, <2>2 DEF HandOf, Claims, Kinds
    <3>3. w.ports[p].state = "Buffering" /\ w.ports[p].node = n
      BY <2>2
    <3>4. /\ Good(OnPortAccepted(w, n, p), {})
          /\ Calm(w, OnPortAccepted(w, n, p))
      BY <2>1, <3>1, <3>2, <3>3, GoodOnPortAccepted DEF Exists
    <3> QED BY <2>2, <3>4 DEF AcceptMessage
  <2>3. CASE event.type = "ObserveProxy"
    <3>1. event.proxy_port_name \in PortName
      BY <1>2, <2>3, ObserveProxyFields
    <3>2. HandOf(event) = {<<"removal", event.proxy_port_name>>}
      BY <2>3, <3>1 DEF HandOf, Claims, Kinds
    <3>3. /\ Good(OnObserveProxy(w, n, event), {})
          /\ Calm(w, OnObserveProxy(w, n, event))
      BY <1>2, <2>3, <3>2, GoodOnObserveProxy
    <3> QED BY <2>3, <3>3 DEF AcceptMessage
  <2>4. CASE event.type = "ObserveProxyAck"
    <3>1. HandOf(event) = {<<"removal", p>>}
      BY <2>1, <2>4 DEF HandOf, Claims, Kinds
    <3>2. /\ Good(OnObserveProxyAck(w, n, event), {})
          /\ Calm(w, OnObserveProxyAck(w, n, event))
      BY <1>2, <2>4, <3>1, GoodOnObserveProxyAck
    <3> QED BY <2>4, <3>2 DEF AcceptMessage
  <2>5. CASE event.type = "ObserveClosure"
    <3>1. HandOf(event) = {}
      BY <2>5 DEF HandOf, Claims
    <3>2. /\ Good(OnObserveClosure(w, n, event), {})
          /\ Calm(w, OnObserveClosure(w, n, event))
      BY <1>2, <2>5, <3>1, GoodOnObserveClosure
    <3> QED BY <2>5, <3>2 DEF AcceptMessage
  <2> QED BY <2>1, <2>2, <2>3, <2>4, <2>5
<1> QED BY <1>1, <1>2

\* An envelope is taken off the transport: its claims are in hand.
LEMMA GoodTake ==
  ASSUME NEW w, IsWorld(w), Good(w, {}), NEW m \in DOMAIN w.net, NEW u,
         u.ports = w.ports, u.oops = w.oops,
         u.net = w.net (-) SetToBag({m})
  PROVE  Good(u, HandOf(m.event)) /\ Awaited(u, m)
<1> DEFINE hand == HandOf(m.event)
<1>1. IsABag(w.net)
  BY DEF IsWorld, IsNet
<1>2. /\ DOMAIN u.net \subseteq DOMAIN w.net
      /\ \A x \in DOMAIN u.net \ {m} : u.net[x] = w.net[x]
      /\ w.net[m] = 1 => m \notin DOMAIN u.net
  <2> DEFINE bag == w.net
  <2>1. m \in DOMAIN bag /\ IsABag(bag)
    BY <1>1
  <2> HIDE DEF bag
  <2>2. LET less == bag (-) SetToBag({m})
        IN /\ DOMAIN less \subseteq DOMAIN bag
           /\ \A x \in DOMAIN less \ {m} : less[x] = bag[x]
           /\ bag[m] = 1 => m \notin DOMAIN less
    BY ONLY <2>1, MinusBag
  <2>3. u.net = bag (-) SetToBag({m})
    BY DEF bag
  <2> QED BY ONLY <2>2, <2>3 DEF bag
<1>3. \A k \in Kinds : \A p \in PortName :
        <<k, p>> \in hand <=> Claims(m.event, k, p)
  BY DEF HandOf
<1> HIDE DEF hand
<1>4. \A k \in Kinds : \A p \in PortName :
        /\ InPort(u, k, p) <=> InPort(w, k, p)
        /\ InNet(u, k, p) => InNet(w, k, p)
        /\ <<k, p>> \in hand => InNet(w, k, p)
  <2> SUFFICES ASSUME NEW k \in Kinds, NEW p \in PortName
               PROVE  /\ InPort(u, k, p) <=> InPort(w, k, p)
                      /\ InNet(u, k, p) => InNet(w, k, p)
                      /\ <<k, p>> \in hand => InNet(w, k, p)
    OBVIOUS
  <2>1. InPort(u, k, p) <=> InPort(w, k, p)
    BY DEF InPort
  <2>2. InNet(u, k, p) => InNet(w, k, p)
    BY <1>2 DEF InNet
  <2>3. <<k, p>> \in hand => InNet(w, k, p)
    BY <1>3 DEF InNet
  <2> QED BY <2>1, <2>2, <2>3
<1>5. Exclusive(u, hand)
  <2> SUFFICES ASSUME NEW k \in Kinds, NEW p \in PortName
               PROVE  ExclusiveClaim(u, hand, k, p)
    BY DEF Exclusive
  <2>1. ExclusiveClaim(w, {}, k, p)
    BY DEF Good, Exclusive
  <2>2. Claims(m.event, k, p) => m \notin DOMAIN u.net
    BY <1>2, <2>1 DEF ExclusiveClaim
  <2>3. \A x \in DOMAIN u.net : Claims(x.event, k, p) => u.net[x] = 1
    BY <1>2, <2>1, <2>2 DEF ExclusiveClaim
  <2>4. \A m1, m2 \in DOMAIN u.net :
          Claims(m1.event, k, p) /\ Claims(m2.event, k, p) => m1 = m2
    BY <1>2, <2>1 DEF ExclusiveClaim
  <2>5. ~(InNet(u, k, p) /\ InPort(u, k, p))
    BY <1>4, <2>1 DEF ExclusiveClaim
  <2>6. <<k, p>> \in hand => ~InNet(u, k, p) /\ ~InPort(u, k, p)
    <3> SUFFICES ASSUME <<k, p>> \in hand
                 PROVE  ~InNet(u, k, p) /\ ~InPort(u, k, p)
      OBVIOUS
    <3>1. Claims(m.event, k, p)
      BY <1>3
    <3>2. \A x \in DOMAIN u.net : Claims(x.event, k, p) => x = m
      BY <1>2, <2>1, <3>1 DEF ExclusiveClaim
    <3>3. ~InNet(u, k, p)
      BY <2>2, <3>1, <3>2 DEF InNet
    <3> QED BY <1>4, <2>1, <3>3 DEF ExclusiveClaim
  <2> QED BY <2>1, <2>3, <2>4, <2>5, <2>6 DEF ExclusiveClaim
<1>6. Status(u, hand)
  <2>1. \A k \in Kinds : \A p \in PortName :
          Claimed(u, hand, k, p) => Claimed(w, {}, k, p)
    BY <1>4 DEF Claimed
  <2>2. \A p \in PortName : SamePort(w.ports[p], u.ports[p])
    BY DEF SamePort
  <2>3. Status(w, {})
    BY DEF Good
  <2>4. /\ \A p \in PortName : Apart(u.ports[p])
        /\ \A p, q \in PortName : Keeps(u.ports[q], "carried", p) =>
             u.ports[p].node = u.ports[q].node
    BY <2>3 DEF Status
  <2> QED BY <2>1, <2>2, <2>3, <2>4, StatusEase
<1>7. \A x \in DOMAIN w.net : Awaited(u, x)
  BY DEF Good, Awaited, Referred
<1> QED BY <1>2, <1>5, <1>6, <1>7 DEF Good, hand

-----------------------------------------------------------------------------
(* The actions.                                                            *)

\* The state is good again when a handler is done.
LEMMA GoodBecome ==
  ASSUME TypeOK, NEW w, Good(w, {}), Become(w), crashed' = crashed
  PROVE  Good(World, {})'
<1>1. /\ World'.ports = w.ports /\ World'.net = w.net /\ World'.oops = w.oops
      /\ \A e \in End : life'[e] = "unmade" => life[e] = "unmade"
  BY DEF Become, World, TypeOK
<1>2. Exclusive(World, {})'
  BY <1>1 DEF Good, Exclusive, ExclusiveClaim, InNet, InPort
<1>3. ASSUME NEW p \in PortName PROVE PortStatus(World, {}, p)'
  <2>1. PortStatus(w, {}, p)
    BY DEF Good, Status
  <2>2. \A k \in Kinds : \A x \in PortName :
          Claimed(World, {}, k, x)' <=> Claimed(w, {}, k, x)
    BY <1>1 DEF Claimed, InNet, InPort
  <2>3. Fresh(World, {}, p)' => Fresh(w, {}, p)
    <3>1. \A f \in PortName : Front(World, {}, f)' => Front(w, {}, f)
      BY <1>1, <2>2 DEF Front, Kinds
    <3> QED BY <1>1, <3>1, EndOfType DEF Fresh
  <2>4. Unclaimed(World, {}, p)' <=> Unclaimed(w, {}, p)
    BY <2>2 DEF Unclaimed, Kinds
  <2>5. World'.ports[p] = w.ports[p]
    BY <1>1
  <2> QED BY ONLY <2>1, <2>2, <2>3, <2>4, <2>5 DEF PortStatus, Kinds
<1>4. Status(World, {})'
  BY <1>1, <1>3 DEF Good, Status
<1>5. ASSUME NEW m \in DOMAIN w.net PROVE Awaited(World, m)'
  BY <1>1 DEF Good, Awaited, Referred
<1> QED BY <1>1, <1>2, <1>4, <1>5 DEF Good

\* A port whose embedder was told to wait is at rest: there is nothing to say.
Resting ==
  \A p \in idle : ports[p].state = "Receiving" /\ Waits(ports[p])

\* The ports are at rest again when a calm handler is done.
LEMMA RestingBecome ==
  ASSUME TypeOK, Resting, NEW v, v.ports = ports, NEW w, Calm(v, w), Become(w)
  PROVE  Resting'
<1> SUFFICES ASSUME NEW p \in idle'
             PROVE  ports'[p].state = "Receiving" /\ Waits(ports'[p])
  BY DEF Resting, Waits
<1>1. /\ p \in idle /\ p \in PortName /\ p \notin w.notified
      /\ w.ports[p].state = "Receiving" /\ ports' = w.ports
  BY DEF Become, TypeOK
<1>2. Waits(ports[p])
  BY <1>1 DEF Resting
<1>3. Waits(w.ports[p])
  BY <1>1, <1>2 DEF Calm
<1> QED BY <1>1, <1>3

\* The ports in a message that arrives are new.
LEMMA ArriveAbsent ==
  ASSUME NEW w, NEW event, IsUserEvent(event), event.type = "User",
         Good(w, HandOf(event)), NEW r \in DOMAIN event.descriptors
  PROVE  r \in PortName /\ w.ports[r].state = "Absent"
<1>1. r \in PortName
  BY DEF IsUserEvent
<1>2. <<"flight", r>> \in HandOf(event)
  BY <1>1 DEF HandOf, Claims, Kinds
<1>3. PortStatus(w, HandOf(event), r)
  BY <1>1 DEF Good, Status
<1> QED BY <1>1, <1>2, <1>3 DEF PortStatus, Claimed

\* An event is delivered.
LEMMA DeliverGood ==
  ASSUME TypeOK, Good(World, {}), Resting, NEW envelope \in DOMAIN net,
         Deliver(envelope)
  PROVE  Good(World, {})' /\ Resting'
<1> DEFINE event == envelope.event
           to == envelope.to
           w == [World EXCEPT !.net = net (-) SetToBag({envelope})]
<1>1. /\ to \in Nodes
      /\ IsUserEvent(event) \/ event \in InternalEvent
  BY DEF TypeOK, IsEnvelope
<1>2. /\ IsWorld(w) /\ w.ports = World.ports /\ w.oops = World.oops
      /\ w.net = World.net (-) SetToBag({envelope})
  <2>1. IsNet(net (-) SetToBag({envelope}))
    BY NetMinus DEF TypeOK, IsNet
  <2>2. IsWorld(w)
    BY <2>1, WorldType, WithNet
  <2> QED BY <2>2 DEF World
<1>3. MaySendOn(w, event)
  <2>1. NamesLeft(MayForward(event))
    BY DEF Deliver
  <2>2. w.ports = ports
    BY <1>2 DEF World
  <2> HIDE DEF w
  <2> QED BY <2>1, <2>2 DEF MaySendOn, MayForward
<1>4. Become(AcceptMessage(w, to, event)) /\ crashed' = crashed
  BY DEF Deliver, World
<1> HIDE DEF w
<1>5. Good(w, HandOf(event)) /\ Awaited(w, envelope)
  <2>1. envelope \in DOMAIN World.net
    BY DEF World
  <2> QED BY <1>2, <2>1, WorldType, GoodTake
<1>6. /\ event.type = "User" =>
           \A r \in DOMAIN event.descriptors :
             Referred(w, to, r, event.descriptors[r])
      /\ event.type = "PortAccepted" =>
           /\ w.ports[event.port_name].state = "Buffering"
           /\ w.ports[event.port_name].node = to
  BY <1>5 DEF Awaited
<1> HIDE DEF event, to
<1>7. w.ports = ports
  BY <1>2 DEF World
<1>8. event.type = "User" => \A r \in DOMAIN event.descriptors : r \notin idle
  <2> SUFFICES ASSUME event.type = "User", NEW r \in DOMAIN event.descriptors
               PROVE  r \notin idle
    OBVIOUS
  <2>1. IsUserEvent(event)
    BY <1>1 DEF InternalEvent
  <2>2. w.ports[r].state = "Absent"
    BY <1>5, <2>1, ArriveAbsent
  <2> QED BY <1>7, <2>2 DEF Resting
<1> DEFINE after == AcceptMessage(w, to, event)
<1>9. Good(after, {}) /\ Calm(w, after)
  BY <1>1, <1>2, <1>3, <1>5, <1>6, <1>8, GoodAcceptMessage
<1> HIDE DEF after
<1>10. Become(after)
  BY <1>4 DEF after
<1> QED BY <1>4, <1>7, <1>9, <1>10, GoodBecome, RestingBecome

\* A port is closed.
LEMMA ClosePortGood ==
  ASSUME TypeOK, Good(World, {}), Resting, NEW p \in PortName, ClosePort(p)
  PROVE  Good(World, {})' /\ Resting'
<1>1. \/ World.ports[p].state = "Uninitialized"
      \/ /\ World.ports[p].state = "Receiving"
         /\ World.ports[p].message_queue.signalable
  BY DEF ClosePort, Held, World
<1> DEFINE after == DoClosePort(World, ports[p].node, p)
<1>2. Good(after, {}) /\ Calm(World, after)
  BY <1>1, WorldType, GoodDoClosePort, CalmDoClosePort
<1>3. Become(after) /\ crashed' = crashed
  BY DEF ClosePort
<1>4. World.ports = ports
  BY DEF World
<1> HIDE DEF after
<1> QED BY <1>2, <1>3, <1>4, GoodBecome, RestingBecome

\* A port that counts a message, in what the other lemmas are about.
LEMMA CountedPortFields ==
  ASSUME NEW port \in Port
  PROVE  LET new == [port EXCEPT !.next_sequence_num_to_send = @ + 1]
         IN /\ new.state = port.state /\ new.node = port.node
            /\ new.message_queue = port.message_queue
            /\ new.send_on_proxy_removal = port.send_on_proxy_removal
            /\ new.peer_node_name = port.peer_node_name
            /\ new.peer_closed = port.peer_closed
            /\ new.remove_proxy_on_last_message =
                 port.remove_proxy_on_last_message
            /\ new.last_sequence_num_to_receive =
                 port.last_sequence_num_to_receive
  BY DEF Port

\* SendMessage changes the ports it sends, and counts.
LEMMA NumberedFields ==
  ASSUME TypeOK, NEW p \in PortName, NEW cargo \in SUBSET PortName,
         p \notin cargo
  PROVE  LET w == Numbered(p, cargo)
         IN /\ w.net = net /\ w.oops = oops /\ w.notified = {}
            /\ \A q \in cargo :
                 w.ports[q] = WillSendPort(ports[q], q, ports[p].peer_node_name)
            /\ w.ports[p] = [ports[p] EXCEPT !.next_sequence_num_to_send = @ + 1]
            /\ \A q \in PortName \ cargo : q # p => w.ports[q] = ports[q]
<1> DEFINE to == ports[p].peer_node_name
           f == [q \in PortName |->
                   IF q \in cargo THEN WillSendPort(ports[q], q, to)
                                  ELSE ports[q]]
           new == [f[p] EXCEPT !.next_sequence_num_to_send = @ + 1]
           g == [f EXCEPT ![p] = new]
           v == [World EXCEPT !.ports = f]
           w == Numbered(p, cargo)
<1>1. UNION {m.ports : m \in {Outgoing(p, cargo)}} = cargo
  BY DEF Outgoing
<1>2. WillSendMessages(World, ports[p], {Outgoing(p, cargo)}) = v
  BY <1>1 DEF WillSendMessages, World
<1>3. v = [ports |-> f, net |-> net, oops |-> oops, notified |-> {},
           shut |-> {}]
  BY DEF World
<1>4. w = [v EXCEPT !.ports[p].next_sequence_num_to_send = @ + 1]
  BY <1>2 DEF Numbered
<1> HIDE DEF v, w
<1>5. w.ports = g /\ w.net = net /\ w.oops = oops /\ w.notified = {}
  <2> HIDE DEF f
  <2> QED BY <1>3, <1>4
<1>6. f[p] = ports[p]
  OBVIOUS
<1>7. g[p] = new /\ \A q \in PortName : q # p => g[q] = f[q]
  OBVIOUS
<1>8. \A q \in PortName :
        f[q] = IF q \in cargo THEN WillSendPort(ports[q], q, to) ELSE ports[q]
  OBVIOUS
<1> HIDE DEF f, g
<1> QED BY <1>5, <1>6, <1>7, <1>8 DEF w

\* The claims after the ports of cargo are sent.
LEMMA NumberedGood ==
  ASSUME TypeOK, Good(World, {}), NEW p \in PortName,
         NEW cargo \in SUBSET CargoFor(p), SendMessage(p, cargo)
  PROVE  LET w == Numbered(p, cargo)
         IN /\ Good(w, Leaving(cargo))
            /\ IsWorld(w)
            /\ \A q \in cargo :
                 /\ w.ports[q].state = "Buffering"
                 /\ w.ports[q].node = ports[q].node
                 /\ w.ports[q].peer_node_name = ports[p].peer_node_name
            /\ \A q \in PortName :
                 /\ w.ports[q].message_queue = ports[q].message_queue
                 /\ w.ports[q].state \in {ports[q].state, "Buffering"}
            /\ w.notified = {}
<1> DEFINE w == Numbered(p, cargo)
           to == ports[p].peer_node_name
           new == [ports[p] EXCEPT !.next_sequence_num_to_send = @ + 1]
<1>1. /\ cargo \in SUBSET PortName /\ p \notin cargo
      /\ \A q \in cargo : /\ ports[q].state = "Receiving"
                          /\ ports[q].message_queue.signalable
                          /\ q[3] < MaxGen[q[1]]
  BY DEF SendMessage, CargoFor, Held, NamesLeft
<1>2. \A q \in PortName : IsPort(ports[q]) /\ ports[q] \in Port
  BY DEF TypeOK
<1>3. /\ w.net = World.net /\ w.oops = World.oops /\ w.notified = {}
      /\ \A q \in cargo : w.ports[q] = WillSendPort(ports[q], q, to)
      /\ w.ports[p] = new
      /\ \A q \in PortName \ cargo : q # p => w.ports[q] = ports[q]
      /\ World.ports = ports
  BY <1>1, NumberedFields DEF World
<1>4. /\ new.state = ports[p].state /\ new.node = ports[p].node
      /\ new.message_queue = ports[p].message_queue
      /\ new.send_on_proxy_removal = ports[p].send_on_proxy_removal
      /\ new.peer_node_name = to
  BY <1>2, CountedPortFields
<1> HIDE DEF w, new, to
<1>5. ASSUME NEW q \in cargo
      PROVE  /\ w.ports[q].state = "Buffering"
             /\ w.ports[q].peer_node_name = to
             /\ w.ports[q].node = ports[q].node
             /\ w.ports[q].message_queue = ports[q].message_queue
             /\ w.ports[q].send_on_proxy_removal = ports[q].send_on_proxy_removal
  BY <1>1, <1>2, <1>3, WillSendPortFields
<1>6. ASSUME NEW q \in PortName \ cargo
      PROVE  /\ w.ports[q].state = ports[q].state
             /\ w.ports[q].peer_node_name = ports[q].peer_node_name
             /\ w.ports[q].node = ports[q].node
             /\ w.ports[q].message_queue = ports[q].message_queue
             /\ w.ports[q].send_on_proxy_removal = ports[q].send_on_proxy_removal
  <2>1. CASE q = p
    BY <1>3, <1>4, <2>1 DEF to
  <2>2. CASE q # p
    BY <1>3, <2>2
  <2> QED BY <2>1, <2>2
<1>7. \A q \in PortName :
        /\ w.ports[q].node = ports[q].node
        /\ w.ports[q].message_queue = ports[q].message_queue
        /\ w.ports[q].send_on_proxy_removal = ports[q].send_on_proxy_removal
        /\ w.ports[q].state \in {ports[q].state, "Buffering"}
  BY <1>5, <1>6
<1>8. \A q \in PortName : \A k \in Kinds : \A x \in PortName :
        Keeps(w.ports[q], k, x) <=> Keeps(World.ports[q], k, x)
  BY <1>3, <1>7 DEF Keeps
<1>9. \A q \in cargo : ~InPort(w, "carried", q)
  <2> SUFFICES ASSUME NEW q \in cargo PROVE ~InPort(World, "carried", q)
    BY <1>1, <1>8 DEF InPort, Kinds
  <2>1. PortStatus(World, {}, q)
    BY <1>1 DEF Good, Status
  <2>2. World.ports[q].message_queue.signalable # FALSE
    BY <1>1, <1>3
  <2> QED BY <2>1, <2>2 DEF PortStatus, Claimed
<1>10. \A q \in cargo : /\ World.ports[q].state = "Receiving"
                        /\ GenerateRandomPortName(q) \in PortName
                        /\ w.ports[q].state = "Buffering"
                        /\ ~InPort(w, "carried", q)
                        /\ <<"carried", q>> \notin {}
  BY <1>1, <1>3, <1>5, <1>9, NextName
<1>11. \A q \in PortName \ cargo :
         /\ SamePort(World.ports[q], w.ports[q])
         /\ w.ports[q].peer_node_name = World.ports[q].peer_node_name
  BY <1>3, <1>6 DEF SamePort
<1>12. \A q \in PortName :
         /\ w.ports[q].node = World.ports[q].node
         /\ \A k \in Kinds : \A x \in PortName :
              Keeps(w.ports[q], k, x) => Keeps(World.ports[q], k, x)
         /\ w.ports[q].message_queue.heap \subseteq
              World.ports[q].message_queue.heap
  BY <1>3, <1>7, <1>8
<1>13. Good(w, {} \cup Leaving(cargo))
  BY <1>1, <1>3, <1>10, <1>11, <1>12, WorldType, GoodSend
<1>14. {} \cup Leaving(cargo) = Leaving(cargo)
  OBVIOUS
<1>15. IsWorld(w)
  BY <1>1, NumberedType DEF w
<1> QED BY <1>3, <1>5, <1>7, <1>13, <1>14, <1>15 DEF w, to

\* Sending is calm.
LEMMA NumberedCalm ==
  ASSUME TypeOK, NEW p \in PortName, NEW cargo \in SUBSET PortName,
         p \notin cargo
  PROVE  Calm(World, Numbered(p, cargo))
<1> DEFINE w == Numbered(p, cargo)
           to == ports[p].peer_node_name
           new == [ports[p] EXCEPT !.next_sequence_num_to_send = @ + 1]
<1>1. \A q \in PortName : ports[q] \in Port /\ IsPort(ports[q])
  BY DEF TypeOK
<1>2. /\ w.notified = {} /\ World.notified = {} /\ World.ports = ports
      /\ \A q \in cargo : w.ports[q] = WillSendPort(ports[q], q, to)
      /\ w.ports[p] = new
      /\ \A q \in PortName \ cargo : q # p => w.ports[q] = ports[q]
  BY NumberedFields DEF World
<1>3. new.state = ports[p].state /\ (Waits(ports[p]) => Waits(new))
  BY <1>1, CountedPortFields DEF Waits, CanAcceptMoreMessages
<1> HIDE DEF w, new
<1>4. \A q \in cargo : w.ports[q].state # "Receiving"
  <2> SUFFICES ASSUME NEW q \in cargo PROVE w.ports[q].state = "Buffering"
    OBVIOUS
  <2>1. IsPort(ports[q])
    BY <1>1
  <2>2. w.ports[q] = WillSendPort(ports[q], q, to)
    BY <1>2
  <2> QED BY <2>1, <2>2, WillSendPortFields
<1>5. Calm(World, w)
  BY <1>2, <1>3, <1>4 DEF Calm
<1> QED BY <1>5 DEF w

\* A message is sent, and accepted at once by a peer on the same node.
LEMMA SendMessageGood ==
  ASSUME TypeOK, Good(World, {}), Resting, NEW p \in PortName,
         NEW cargo \in SUBSET CargoFor(p), SendMessage(p, cargo)
  PROVE  Good(World, {})' /\ Resting'
<1> DEFINE port == ports[p]
           n == port.node
           to == port.peer_node_name
           m == Outgoing(p, cargo)
           event == UserEvent(World, port, m)
           w == Numbered(p, cargo)
           accepted == AcceptMessage(w, n, event)
           forwarded == ForwardMessage(w, n, to, event)
<1>1. IsPort(port) /\ n \in Nodes
  BY DEF SendMessage, Held, TypeOK, IsPort
<1>2. /\ Good(w, Leaving(cargo))
      /\ IsWorld(w)
      /\ \A q \in cargo : /\ w.ports[q].state = "Buffering"
                          /\ w.ports[q].node = World.ports[q].node
                          /\ w.ports[q].peer_node_name = to
      /\ \A q \in PortName :
           /\ w.ports[q].message_queue = ports[q].message_queue
           /\ w.ports[q].state \in {ports[q].state, "Buffering"}
  BY NumberedGood DEF World
<1>3. cargo \in SUBSET PortName /\ m.ports = cargo /\ NamesLeft({m})
  BY DEF CargoFor, Outgoing, SendMessage
<1>4. m \in QueuedMessage
  BY <1>3, NumberedType
<1>5. /\ Become(IF to = n THEN accepted ELSE forwarded)
      /\ crashed' = crashed
      /\ to = n => NamesLeft(MayForward(event))
  BY DEF SendMessage, Outgoing, Numbered
<1>6. event.type = "User"
  BY DEF UserEvent
<1>7. \A k \in Kinds : \A x \in PortName :
        Claims(event, k, x) <=> <<k, x>> \in Leaving(cargo)
  BY <1>3, UserEventClaims
<1>8. \A r \in DOMAIN event.descriptors :
        Referred(w, to, r, event.descriptors[r])
  <2> HIDE DEF w, m
  <2> QED BY <1>2, <1>3, UserEventReferred
<1>9. to \notin crashed => Awaited(w, Envelope(n, to, event))
  <2> HIDE DEF w, m
  <2> QED BY <1>2, <1>3, UserEventAwaited
<1>10. to \in Nodes => IsUserEvent(event)
  <2> HIDE DEF m, port
  <2> QED BY <1>1, <1>3, <1>4, WorldType, UserEventType DEF port
<1>11. Calm(World, w) /\ World.ports = ports
  BY <1>3, NumberedCalm DEF SendMessage, World
<1> HIDE DEF w, m, event, n, to
<1>12. HandOf(event) = Leaving(cargo)
  <2>1. HandOf(event) \subseteq Leaving(cargo)
    BY <1>7 DEF HandOf
  <2>2. Leaving(cargo) \subseteq HandOf(event)
    BY <1>7 DEF HandOf, Leaving
  <2> QED BY <2>1, <2>2
<1>13. ASSUME to = n PROVE Good(accepted, {}) /\ Calm(World, accepted)
  <2>1. IsUserEvent(event)
    BY <1>1, <1>10, <1>13
  <2>2. event.port_name \in PortName
    BY <2>1 DEF IsUserEvent
  <2>3. MaySendOn(w, event)
    BY <1>2, <1>5, <1>6, <1>13, <2>2 DEF MaySendOn, MayForward
  <2>4. \A r \in DOMAIN event.descriptors :
          Referred(w, n, r, event.descriptors[r])
    BY <1>8, <1>13
  <2>5. ASSUME NEW r \in DOMAIN event.descriptors PROVE r \notin idle
    <3>1. r \in PortName /\ w.ports[r].state = "Absent"
      BY <1>2, <1>6, <1>12, <2>1, ArriveAbsent
    <3>2. ports[r].state = "Absent"
      BY <1>2, <3>1
    <3> QED BY <3>2 DEF Resting
  <2>6. Good(accepted, {}) /\ Calm(w, accepted)
    BY <1>1, <1>2, <1>6, <1>12, <2>1, <2>3, <2>4, <2>5, GoodAcceptMessage
  <2> HIDE DEF accepted
  <2> QED BY <1>11, <2>6, CalmCalm
<1>14. Good(forwarded, {})
  <2> DEFINE events == {event}
  <2>1. /\ \A e \in events : \A k \in Kinds : \A x \in PortName :
             Claims(e, k, x) => <<k, x>> \in Leaving(cargo)
        /\ \A e1, e2 \in events : \A k \in Kinds : \A x \in PortName :
             Claims(e1, k, x) /\ Claims(e2, k, x) => e1 = e2
        /\ \A e \in events : to \notin crashed =>
             Awaited(w, Envelope(n, to, e))
    BY <1>7, <1>9
  <2> HIDE DEF events
  <2>2. Good(ForwardAll(w, n, to, events), {})
    BY <1>2, <2>1, GoodForward
  <2> QED BY <2>2 DEF ForwardMessage, events
<1>15. Calm(World, forwarded)
  BY <1>2, <1>11, CalmForward, CalmCalm
<1> HIDE DEF accepted, forwarded
<1> QED BY <1>5, <1>13, <1>14, <1>11, <1>15, GoodBecome, RestingBecome

\* A step that makes no claims: ports stay, go, or may be used by an embedder.
LEMMA StepGood ==
  ASSUME TypeOK, Good(World, {}), oops' = oops,
         DOMAIN net' \subseteq DOMAIN net,
         \A m \in DOMAIN net' : net'[m] = net[m],
         \A e \in End : life'[e] = "unmade" => life[e] = "unmade",
         \A q \in PortName :
           /\ \A k \in Kinds : \A p \in PortName :
                Keeps(ports'[q], k, p) => Keeps(ports[q], k, p)
           /\ ports'[q].message_queue.heap \subseteq
                ports[q].message_queue.heap,
         \A p \in PortName :
           \/ SamePort(ports[p], ports'[p])
           \/ /\ \/ ports'[p].state = "Absent"
                 \/ /\ ports'[p].state = "Receiving"
                    /\ ports[p].state \in {"Receiving", "Uninitialized"}
              /\ \A q \in PortName : ~Keeps(ports'[q], "carried", p),
         \A p, q \in PortName : Keeps(ports'[q], "carried", p) =>
           ports'[p].node = ports'[q].node,
         \A m \in DOMAIN net' : Awaited(World, m)'
  PROVE  Good(World, {})'
<1>1. /\ World.ports = ports /\ World.net = net /\ World.oops = oops
      /\ World'.ports = ports' /\ World'.net = net' /\ World'.oops = oops'
  BY DEF World
<1>2. \A k \in Kinds : \A p \in PortName :
        /\ InPort(World, k, p)' => InPort(World, k, p)
        /\ InNet(World, k, p)' => InNet(World, k, p)
  BY <1>1 DEF InPort, InNet
<1>3. \A k \in Kinds : \A p \in PortName :
        Claimed(World, {}, k, p)' => Claimed(World, {}, k, p)
  BY <1>2 DEF Claimed
<1>4. Exclusive(World, {})'
  <2> SUFFICES ASSUME NEW k \in Kinds, NEW p \in PortName
               PROVE  ExclusiveClaim(World, {}, k, p)'
    BY DEF Exclusive
  <2>1. ExclusiveClaim(World, {}, k, p)
    BY DEF Good, Exclusive
  <2>2. \A m \in DOMAIN net' : Claims(m.event, k, p) => net'[m] = 1
    BY <1>1, <2>1 DEF ExclusiveClaim
  <2>3. \A m1, m2 \in DOMAIN net' :
          Claims(m1.event, k, p) /\ Claims(m2.event, k, p) => m1 = m2
    BY <1>1, <2>1 DEF ExclusiveClaim
  <2>4. \A q1, q2 \in PortName :
          Keeps(ports'[q1], k, p) /\ Keeps(ports'[q2], k, p) => q1 = q2
    BY <1>1, <2>1 DEF ExclusiveClaim
  <2>5. ~(InNet(World, k, p)' /\ InPort(World, k, p)')
    BY <1>2, <2>1 DEF ExclusiveClaim
  <2> QED BY <1>1, <2>2, <2>3, <2>4, <2>5 DEF ExclusiveClaim
<1>5. ASSUME NEW p \in PortName PROVE PortStatus(World, {}, p)'
  <2>1. PortStatus(World, {}, p)
    BY DEF Good, Status
  <2>2. \A f \in PortName : Front(World, {}, f)' => Front(World, {}, f)
    BY <1>1, <1>3 DEF Front, SamePort, Kinds
  <2>3. Fresh(World, {}, p)' => Fresh(World, {}, p)
    BY <2>2, EndOfType DEF Fresh
  <2>4. Unclaimed(World, {}, p) => Unclaimed(World, {}, p)'
    BY <1>3 DEF Unclaimed, Kinds
  <2>5. /\ Claimed(World, {}, "flight", p)' => Claimed(World, {}, "flight", p)
        /\ Claimed(World, {}, "removal", p)' => Claimed(World, {}, "removal", p)
        /\ Claimed(World, {}, "move", p)' => Claimed(World, {}, "move", p)
        /\ Claimed(World, {}, "carried", p)' => Claimed(World, {}, "carried", p)
    BY <1>3 DEF Kinds
  <2>6. CASE SamePort(ports[p], ports'[p])
    BY ONLY <1>1, <2>1, <2>3, <2>4, <2>5, <2>6 DEF PortStatus, SamePort
  <2>7. CASE \A q \in PortName : ~Keeps(ports'[q], "carried", p)
    <3>1. ~Claimed(World, {}, "carried", p)'
      BY <1>1, <2>7, <2>6 DEF Claimed, InPort, InNet, Claims
    <3>2. CASE ports'[p].state = "Absent"
      BY ONLY <1>1, <2>1, <2>3, <2>4, <2>5, <3>1, <3>2 DEF PortStatus
    <3>3. CASE /\ ports'[p].state = "Receiving"
               /\ ports[p].state \in {"Receiving", "Uninitialized"}
      BY ONLY <1>1, <2>1, <2>3, <2>4, <2>5, <3>1, <3>3 DEF PortStatus
    <3> QED BY <2>6, <3>2, <3>3
  <2> QED BY <2>6, <2>7
<1>6. \A p \in PortName : Apart(ports'[p])
  <2> SUFFICES ASSUME NEW p \in PortName PROVE Apart(ports'[p])
    OBVIOUS
  <2>1. Apart(ports[p])
    BY <1>1 DEF Good, Status
  <2> QED BY <2>1 DEF Apart
<1>7. Status(World, {})'
  BY <1>1, <1>5, <1>6 DEF Status
<1> QED BY <1>1, <1>4, <1>7 DEF Good

\* An event in flight waits on after a step that leaves buffering ports alone.
LEMMA StepAwaited ==
  ASSUME TypeOK, Good(World, {}), crashed' = crashed, NEW m \in DOMAIN net,
         \A p \in PortName : ports[p].state = "Buffering" =>
           /\ ports'[p].state = "Buffering"
           /\ ports'[p].node = ports[p].node
           /\ ports'[p].peer_node_name = ports[p].peer_node_name
  PROVE  Awaited(World, m)'
<1>1. Awaited(World, m)
  BY DEF Good, World
<1>2. IsEnvelope(m)
  BY DEF TypeOK
<1>3. World.ports = ports /\ World'.ports = ports'
  BY DEF World
<1>4. CASE m.event.type = "PortAccepted"
  <2>1. m.event.port_name \in PortName
    BY <1>2, <1>4 DEF IsEnvelope, IsUserEvent, InternalEvent
  <2> QED BY <1>1, <1>3, <1>4, <2>1 DEF Awaited
<1>5. CASE m.event.type = "User"
  BY <1>1, <1>3, <1>5 DEF Awaited, Referred
<1>6. CASE m.event.type \notin {"PortAccepted", "User"}
  BY <1>1, <1>6 DEF Awaited
<1> QED BY <1>4, <1>5, <1>6

\* A step that says nothing to a port that waits.
LEMMA StepResting ==
  ASSUME TypeOK, Resting, idle' \subseteq idle,
         \A p \in idle' : ports'[p] = ports[p]
  PROVE  Resting'
<1> SUFFICES ASSUME NEW p \in idle'
             PROVE  ports'[p].state = "Receiving" /\ Waits(ports'[p])
  BY DEF Resting, Waits
<1>1. ports[p].state = "Receiving" /\ Waits(ports[p]) /\ ports'[p] = ports[p]
  BY DEF Resting
<1> QED BY <1>1

\* An embedder names the peer of its port.
LEMMA InitializePortGood ==
  ASSUME TypeOK, Good(World, {}), Resting, NEW e \in End, InitializePort(e)
  PROVE  Good(World, {})' /\ Resting'
<1> DEFINE p == FirstPort(e)
           new == Initialized(ports[p], Home[Other(e)], FirstPort(Other(e)))
<1>1. p \in PortName
  BY EndParts
<1>2. /\ ports[p].state = "Uninitialized"
      /\ ports' = [ports EXCEPT ![p] = new]
      /\ net' = net /\ oops' = oops /\ crashed' = crashed /\ life' = life
  BY DEF InitializePort
<1>3. /\ ports'[p] = new
      /\ \A q \in PortName : q # p => ports'[q] = ports[q]
  BY <1>1, <1>2 DEF TypeOK
<1>4. /\ new.state = "Receiving"
      /\ new.message_queue = ports[p].message_queue
      /\ new.send_on_proxy_removal = ports[p].send_on_proxy_removal
      /\ new.node = ports[p].node
  <2>1. ports[p] \in Port
    BY <1>1 DEF TypeOK
  <2> QED BY <2>1 DEF Initialized, Port
<1> HIDE DEF new, p
<1>5. \A q \in PortName :
        /\ \A k \in Kinds : \A x \in PortName :
             Keeps(ports'[q], k, x) => Keeps(ports[q], k, x)
        /\ ports'[q].message_queue.heap \subseteq ports[q].message_queue.heap
        /\ ports'[q].node = ports[q].node
  BY <1>3, <1>4 DEF Keeps
<1>6. Status(World, {}) /\ World.ports = ports
  BY DEF Good, World
<1>7. \A q \in PortName : ~Keeps(ports'[q], "carried", p)
  <2>1. ~Claimed(World, {}, "carried", p)
    BY <1>1, <1>2, <1>6 DEF Status, PortStatus
  <2>2. \A q \in PortName : ~Keeps(ports[q], "carried", p)
    BY <1>6, <2>1 DEF Claimed, InPort
  <2> QED BY <1>1, <1>5, <2>2 DEF Kinds
<1>8. \A x \in PortName :
        \/ SamePort(ports[x], ports'[x])
        \/ /\ \/ ports'[x].state = "Absent"
              \/ /\ ports'[x].state = "Receiving"
                 /\ ports[x].state \in {"Receiving", "Uninitialized"}
           /\ \A q \in PortName : ~Keeps(ports'[q], "carried", x)
  <2> SUFFICES ASSUME NEW x \in PortName
               PROVE  \/ SamePort(ports[x], ports'[x])
                      \/ /\ ports'[x].state = "Receiving"
                         /\ ports[x].state \in {"Receiving", "Uninitialized"}
                         /\ \A q \in PortName : ~Keeps(ports'[q], "carried", x)
    OBVIOUS
  <2>1. CASE x = p
    BY <1>2, <1>3, <1>4, <1>7, <2>1
  <2>2. CASE x # p
    BY <1>3, <2>2 DEF SamePort
  <2> QED BY <2>1, <2>2
<1>9. \A x, q \in PortName : Keeps(ports'[q], "carried", x) =>
        ports'[x].node = ports'[q].node
  <2>1. \A x, q \in PortName : Keeps(ports[q], "carried", x) =>
          ports[x].node = ports[q].node
    BY <1>6 DEF Status
  <2> QED BY <1>5, <2>1 DEF Kinds
<1>10. ASSUME NEW m \in DOMAIN net PROVE Awaited(World, m)'
  BY <1>2, <1>3, StepAwaited
<1>11. Good(World, {})'
  BY <1>2, <1>5, <1>8, <1>9, <1>10, StepGood
<1>12. Resting'
  <2>1. idle' = idle \ {p} /\ idle \in SUBSET PortName
    BY DEF InitializePort, TypeOK, p
  <2> QED BY <1>3, <2>1, StepResting
<1> QED BY <1>11, <1>12

\* The ports of a message that is read.
LEMMA ReadPortFields ==
  ASSUME NEW port \in Port, NEW m
  PROVE  LET new == [port EXCEPT !.message_queue = AfterGetNextMessage(@, m)]
         IN /\ SamePort(port, new)
            /\ new.peer_node_name = port.peer_node_name
            /\ new.send_on_proxy_removal = port.send_on_proxy_removal
            /\ new.message_queue.heap = port.message_queue.heap \ {m}
  BY DEF AfterGetNextMessage, Port, SamePort

LEMMA SignalablePortFields ==
  ASSUME NEW port \in Port
  PROVE  LET new == [port EXCEPT !.message_queue = SetSignalable(@, TRUE)]
         IN /\ new.state = port.state
            /\ new.node = port.node
            /\ new.peer_node_name = port.peer_node_name
            /\ new.send_on_proxy_removal = port.send_on_proxy_removal
            /\ new.message_queue.heap = port.message_queue.heap
            /\ new.message_queue.next_sequence_num =
                 port.message_queue.next_sequence_num
  BY DEF SetSignalable, Port

\* A message is read: its ports are the embedder's.
LEMMA GetMessageGood ==
  ASSUME TypeOK, Good(World, {}), NEW p \in PortName,
         NEW m \in ports[p].message_queue.heap, GetMessage(p, m), Resting
  PROVE  Good(World, {})' /\ Resting'
<1> DEFINE read == [ports[p] EXCEPT !.message_queue = AfterGetNextMessage(@, m)]
           given(q) == [ports[q] EXCEPT !.message_queue = SetSignalable(@, TRUE)]
<1>1. /\ ports[p].state = "Receiving" /\ ports[p].message_queue.signalable
      /\ net' = net /\ oops' = oops /\ crashed' = crashed /\ life' = life
  BY DEF GetMessage, Held
<1>2. /\ ports'[p] = read
      /\ \A q \in PortName : q # p /\ q \in m.ports => ports'[q] = given(q)
      /\ \A q \in PortName : q # p /\ q \notin m.ports => ports'[q] = ports[q]
  BY DEF GetMessage
<1>3. \A q \in PortName : ports[q] \in Port
  BY DEF TypeOK
<1>4. /\ SamePort(ports[p], read)
      /\ read.peer_node_name = ports[p].peer_node_name
      /\ read.send_on_proxy_removal = ports[p].send_on_proxy_removal
      /\ read.message_queue.heap = ports[p].message_queue.heap \ {m}
  BY <1>3, ReadPortFields
<1>5. \A q \in PortName :
        /\ given(q).state = ports[q].state
        /\ given(q).node = ports[q].node
        /\ given(q).peer_node_name = ports[q].peer_node_name
        /\ given(q).send_on_proxy_removal = ports[q].send_on_proxy_removal
        /\ given(q).message_queue.heap = ports[q].message_queue.heap
  BY <1>3, SignalablePortFields
<1> HIDE DEF read, given
<1>6. Status(World, {}) /\ Exclusive(World, {}) /\ World.ports = ports
  BY DEF Good, World
<1>7. \A q \in PortName :
        /\ ports'[q].state = ports[q].state
        /\ ports'[q].node = ports[q].node
        /\ ports'[q].peer_node_name = ports[q].peer_node_name
        /\ ports'[q].send_on_proxy_removal = ports[q].send_on_proxy_removal
        /\ ports'[q].message_queue.heap =
             IF q = p THEN ports[q].message_queue.heap \ {m}
                      ELSE ports[q].message_queue.heap
  BY <1>2, <1>4, <1>5 DEF SamePort
<1>8. \A q \in PortName :
        /\ \A k \in Kinds : \A x \in PortName :
             Keeps(ports'[q], k, x) => Keeps(ports[q], k, x)
        /\ ports'[q].message_queue.heap \subseteq ports[q].message_queue.heap
  BY <1>7 DEF Keeps
<1>9. ASSUME NEW x \in PortName, x \in m.ports
      PROVE  /\ ports[x].state = "Receiving"
             /\ \A q \in PortName : ~Keeps(ports'[q], "carried", x)
  <2>1. Keeps(ports[p], "carried", x)
    BY <1>9 DEF Keeps
  <2>2. Claimed(World, {}, "carried", x)
    BY <1>6, <2>1 DEF Claimed, InPort
  <2>3. ports[x].state = "Receiving"
    BY <1>6, <2>2 DEF Status, PortStatus
  <2>4. ExclusiveClaim(World, {}, "carried", x)
    BY <1>6 DEF Exclusive, Kinds
  <2>5. Apart(ports[p])
    BY <1>6 DEF Status
  <2>6. ~Keeps(ports'[p], "carried", x)
    BY <1>7, <1>9, <2>5 DEF Keeps, Apart
  <2>7. \A q \in PortName : Keeps(ports[q], "carried", x) => q = p
    BY <1>6, <2>1, <2>4 DEF ExclusiveClaim
  <2>8. \A q \in PortName : ~Keeps(ports'[q], "carried", x)
    BY <1>8, <2>6, <2>7 DEF Kinds
  <2> QED BY <2>3, <2>8
<1>10. \A x \in PortName :
         \/ SamePort(ports[x], ports'[x])
         \/ /\ \/ ports'[x].state = "Absent"
               \/ /\ ports'[x].state = "Receiving"
                  /\ ports[x].state \in {"Receiving", "Uninitialized"}
            /\ \A q \in PortName : ~Keeps(ports'[q], "carried", x)
  <2> SUFFICES ASSUME NEW x \in PortName
               PROVE  \/ SamePort(ports[x], ports'[x])
                      \/ /\ ports'[x].state = "Receiving"
                         /\ ports[x].state \in {"Receiving", "Uninitialized"}
                         /\ \A q \in PortName : ~Keeps(ports'[q], "carried", x)
    OBVIOUS
  <2>1. CASE x = p
    BY <1>2, <1>4, <2>1
  <2>2. CASE x # p /\ x \in m.ports
    BY <1>7, <1>9, <2>2
  <2>3. CASE x # p /\ x \notin m.ports
    BY <1>2, <2>3 DEF SamePort
  <2> QED BY <2>1, <2>2, <2>3
<1>11. \A x, q \in PortName : Keeps(ports'[q], "carried", x) =>
         ports'[x].node = ports'[q].node
  <2>1. \A x, q \in PortName : Keeps(ports[q], "carried", x) =>
          ports[x].node = ports[q].node
    BY <1>6 DEF Status
  <2>2. \A x, q \in PortName : Keeps(ports'[q], "carried", x) =>
          Keeps(ports[q], "carried", x)
    BY <1>8 DEF Kinds
  <2>3. \A q \in PortName : ports'[q].node = ports[q].node
    BY <1>7
  <2> QED BY ONLY <2>1, <2>2, <2>3
<1>12. ASSUME NEW y \in DOMAIN net PROVE Awaited(World, y)'
  BY <1>1, <1>7, StepAwaited
<1>13. Good(World, {})'
  BY <1>1, <1>8, <1>10, <1>11, <1>12, StepGood
<1>14. ASSUME NEW q \in idle, q \in PortName, q \in m.ports PROVE FALSE
  <2>1. Keeps(ports[p], "carried", q)
    BY <1>14 DEF Keeps
  <2>2. Claimed(World, {}, "carried", q)
    BY <1>6, <2>1 DEF Claimed, InPort
  <2>3. ports[q].message_queue.signalable = FALSE
    BY <1>6, <1>14, <2>2 DEF Status, PortStatus
  <2>4. ports[q].message_queue.signalable
    BY DEF Resting, Waits
  <2> QED BY <2>3, <2>4
<1>15. Resting'
  <2>1. idle' = idle \ {p} /\ idle \in SUBSET PortName
    BY DEF GetMessage, TypeOK
  <2> QED BY <1>2, <1>14, <2>1, StepResting
<1> QED BY <1>13, <1>15

\* An embedder is told that there is no message.
LEMMA GetNothingGood ==
  ASSUME TypeOK, Good(World, {}), Resting, NEW p \in PortName, GetNothing(p)
  PROVE  Good(World, {})' /\ Resting'
<1>1. /\ ports' = ports /\ net' = net /\ oops' = oops /\ crashed' = crashed
      /\ life' = life
  BY DEF GetNothing
<1>2. \A x \in PortName : SamePort(ports[x], ports'[x])
  BY <1>1 DEF SamePort
<1>3. \A x, q \in PortName : Keeps(ports'[q], "carried", x) =>
        ports'[x].node = ports'[q].node
  BY <1>1 DEF Good, Status, World
<1>4. ASSUME NEW y \in DOMAIN net PROVE Awaited(World, y)'
  BY <1>1, StepAwaited
<1>5. Good(World, {})'
  BY <1>1, <1>2, <1>3, <1>4, StepGood
<1>6. \/ idle' = idle
      \/ /\ idle' = idle \cup {p}
         /\ ports[p].state = "Receiving" /\ Waits(ports[p])
  BY DEF GetNothing, Held, Waits
<1>7. Resting'
  BY <1>1, <1>6 DEF Resting, Waits
<1> QED BY <1>5, <1>7

\* A node is gone, with its ports and what was on its way to it.
LEMMA CrashGood ==
  ASSUME TypeOK, Good(World, {}), Resting, NEW n \in Nodes, Crash(n)
  PROVE  Good(World, {})' /\ Resting'
<1>1. /\ oops' = oops /\ life' = life
      /\ crashed' = crashed \cup {n}
      /\ DOMAIN net' = {m \in DOMAIN net : m.to # n}
      /\ \A m \in DOMAIN net' : net'[m] = net[m]
  BY DEF Crash
<1>2. \A p \in PortName : /\ ports[p].node = n => ports'[p] = AbsentPort
                          /\ ports[p].node # n => ports'[p] = ports[p]
  BY DEF Crash
<1>3. Status(World, {}) /\ World.ports = ports /\ World'.ports = ports'
  BY DEF Good, World
<1>4. \A q \in PortName : \A k \in Kinds : \A x \in PortName :
        Keeps(ports'[q], k, x) => ports'[q] = ports[q] /\ ports[q].node # n
  BY <1>2, AbsentKeeps
<1>5. \A q \in PortName :
        /\ \A k \in Kinds : \A x \in PortName :
             Keeps(ports'[q], k, x) => Keeps(ports[q], k, x)
        /\ ports'[q].message_queue.heap \subseteq ports[q].message_queue.heap
  BY <1>2, <1>4, AbsentKeeps
<1>6. ASSUME NEW x \in PortName, NEW q \in PortName,
             Keeps(ports'[q], "carried", x)
      PROVE  ports'[x].node = ports'[q].node /\ ports'[x] = ports[x]
  <2>1. ports'[q] = ports[q] /\ ports[q].node # n
    BY <1>4, <1>6 DEF Kinds
  <2>2. ports[x].node = ports[q].node
    BY <1>3, <1>6, <2>1 DEF Status
  <2> QED BY <1>2, <2>1, <2>2
<1>7. \A x \in PortName :
        \/ SamePort(ports[x], ports'[x])
        \/ /\ \/ ports'[x].state = "Absent"
              \/ /\ ports'[x].state = "Receiving"
                 /\ ports[x].state \in {"Receiving", "Uninitialized"}
           /\ \A q \in PortName : ~Keeps(ports'[q], "carried", x)
  <2> SUFFICES ASSUME NEW x \in PortName
               PROVE  \/ SamePort(ports[x], ports'[x])
                      \/ /\ ports'[x].state = "Absent"
                         /\ \A q \in PortName : ~Keeps(ports'[q], "carried", x)
    OBVIOUS
  <2>1. CASE ports'[x] = ports[x]
    BY <2>1 DEF SamePort
  <2>2. CASE ports'[x] # ports[x]
    BY <1>2, <1>6, <2>2, AbsentKeeps
  <2> QED BY <2>1, <2>2
<1>8. ASSUME NEW m \in DOMAIN net' PROVE Awaited(World, m)'
  <2>1. Awaited(World, m) /\ m.to # n /\ IsEnvelope(m)
    BY <1>1 DEF Good, World, TypeOK
  <2>2. m.to \notin crashed'
    BY <1>1, <2>1 DEF Awaited
  <2>3. CASE m.event.type = "PortAccepted"
    <3>1. m.event.port_name \in PortName
      BY <2>1, <2>3 DEF IsEnvelope, IsUserEvent, InternalEvent
    <3> QED BY <1>2, <1>3, <2>1, <2>2, <2>3, <3>1 DEF Awaited
  <2>4. CASE m.event.type = "User"
    <3>1. ASSUME NEW r \in DOMAIN m.event.descriptors
          PROVE  Referred(World, m.to, r, m.event.descriptors[r])'
      <4>1. Referred(World, m.to, r, m.event.descriptors[r])
        BY <2>1, <2>4 DEF Awaited
      <4> QED BY <1>1, <1>2, <1>3, <4>1 DEF Referred
    <3> QED BY <2>2, <2>4, <3>1 DEF Awaited
  <2>5. CASE m.event.type \notin {"PortAccepted", "User"}
    BY <2>2, <2>5 DEF Awaited
  <2> QED BY <2>3, <2>4, <2>5
<1>9. \A x, q \in PortName : Keeps(ports'[q], "carried", x) =>
        ports'[x].node = ports'[q].node
  BY <1>6
<1>10. Good(World, {})'
  BY <1>1, <1>5, <1>7, <1>8, <1>9, StepGood
<1>11. Resting'
  <2>1. /\ idle' = {p \in idle : ports[p].node # n}
        /\ idle \in SUBSET PortName
    BY DEF Crash, TypeOK
  <2> QED BY <1>2, <2>1, StepResting
<1> QED BY <1>10, <1>11

\* A node finds out: what it had from the lost node and for it is gone.
LEMMA LostConnectionToNodeGood ==
  ASSUME TypeOK, Good(World, {}), NEW n \in Nodes, NEW lost \in Nodes,
         LostConnectionToNode(n, lost), Resting
  PROVE  Good(World, {})' /\ Resting'
<1> DEFINE cut(p) == [ports[p] EXCEPT
                        !.peer_closed = TRUE,
                        !.last_sequence_num_to_receive =
                           ports[p].message_queue.next_sequence_num - 1]
<1>1. /\ oops' = oops /\ life' = life /\ crashed' = crashed
      /\ lost \in crashed
      /\ DOMAIN net' = {m \in DOMAIN net : ~(m.from = lost /\ m.to = n)}
      /\ \A m \in DOMAIN net' : net'[m] = net[m]
  BY DEF LostConnectionToNode
<1>2. \A p \in PortName :
        ports'[p] = IF p \in ErasedByLoss(n, lost) THEN AbsentPort
                    ELSE IF p \in ClosedByLoss(n, lost) THEN cut(p)
                    ELSE ports[p]
  BY DEF LostConnectionToNode
<1>3. \A p \in PortName :
        /\ cut(p).state = ports[p].state
        /\ cut(p).node = ports[p].node
        /\ cut(p).peer_node_name = ports[p].peer_node_name
        /\ cut(p).send_on_proxy_removal = ports[p].send_on_proxy_removal
        /\ cut(p).message_queue = ports[p].message_queue
  BY DEF TypeOK, Port
<1> HIDE DEF cut
<1>4. Status(World, {}) /\ World.ports = ports /\ World'.ports = ports'
  BY DEF Good, World
<1>5. ASSUME NEW p \in PortName
      PROVE  \/ /\ ports'[p] = AbsentPort
                /\ ports[p].state # "Receiving"
                /\ ports[p].node = n /\ ports[p].peer_node_name = lost
             \/ /\ ports'[p].state = ports[p].state
                /\ ports'[p].node = ports[p].node
                /\ ports'[p].peer_node_name = ports[p].peer_node_name
                /\ ports'[p].send_on_proxy_removal =
                     ports[p].send_on_proxy_removal
                /\ ports'[p].message_queue = ports[p].message_queue
  BY <1>2, <1>3 DEF ErasedByLoss, CutOff
<1>6. \A q \in PortName :
        /\ \A k \in Kinds : \A x \in PortName :
             Keeps(ports'[q], k, x) =>
               Keeps(ports[q], k, x) /\ ports'[q].node = ports[q].node
        /\ ports'[q].message_queue.heap \subseteq ports[q].message_queue.heap
  <2> SUFFICES ASSUME NEW q \in PortName
               PROVE  /\ \A k \in Kinds : \A x \in PortName :
                           Keeps(ports'[q], k, x) =>
                             /\ Keeps(ports[q], k, x)
                             /\ ports'[q].node = ports[q].node
                      /\ ports'[q].message_queue.heap \subseteq
                           ports[q].message_queue.heap
    OBVIOUS
  <2>1. CASE ports'[q] = AbsentPort
    BY <2>1, AbsentKeeps
  <2>2. CASE ports'[q] # AbsentPort
    BY <1>5, <2>2 DEF Keeps
  <2> QED BY <2>1, <2>2
<1>7. ASSUME NEW x \in PortName, NEW q \in PortName,
             Keeps(ports'[q], "carried", x)
      PROVE  ports'[x].node = ports'[q].node /\ ports[x].state = "Receiving"
  <2>1. Keeps(ports[q], "carried", x) /\ ports'[q].node = ports[q].node
    BY <1>6, <1>7 DEF Kinds
  <2>2. Claimed(World, {}, "carried", x)
    BY <1>4, <2>1 DEF Claimed, InPort
  <2>3. ports[x].state = "Receiving" /\ ports[x].node = ports[q].node
    BY <1>4, <2>1, <2>2 DEF Status, PortStatus
  <2> QED BY <1>5, <2>1, <2>3
<1>8. \A x \in PortName :
        \/ SamePort(ports[x], ports'[x])
        \/ /\ \/ ports'[x].state = "Absent"
              \/ /\ ports'[x].state = "Receiving"
                 /\ ports[x].state \in {"Receiving", "Uninitialized"}
           /\ \A q \in PortName : ~Keeps(ports'[q], "carried", x)
  <2> SUFFICES ASSUME NEW x \in PortName
               PROVE  \/ SamePort(ports[x], ports'[x])
                      \/ /\ ports'[x].state = "Absent"
                         /\ \A q \in PortName : ~Keeps(ports'[q], "carried", x)
    OBVIOUS
  <2>1. CASE ports'[x] = AbsentPort /\ ports[x].state # "Receiving"
    BY <1>7, <2>1, AbsentKeeps
  <2>2. CASE ~(ports'[x] = AbsentPort /\ ports[x].state # "Receiving")
    BY <1>5, <2>2 DEF SamePort
  <2> QED BY <2>1, <2>2
<1>9. ASSUME NEW m \in DOMAIN net' PROVE Awaited(World, m)'
  <2>1. /\ Awaited(World, m) /\ ~(m.from = lost /\ m.to = n)
        /\ IsEnvelope(m)
    BY <1>1 DEF Good, World, TypeOK
  <2>2. m.to \notin crashed' /\ m.to # lost
    BY <1>1, <2>1 DEF Awaited
  <2>3. CASE m.event.type = "PortAccepted"
    <3>1. m.event.port_name \in PortName
      BY <2>1, <2>3 DEF IsEnvelope, IsUserEvent, InternalEvent
    <3>2. /\ ports[m.event.port_name].state = "Buffering"
          /\ ports[m.event.port_name].node = m.to
          /\ ports[m.event.port_name].peer_node_name = m.from
      BY <1>4, <2>1, <2>3 DEF Awaited
    <3>3. /\ ports'[m.event.port_name].state = "Buffering"
          /\ ports'[m.event.port_name].node = m.to
          /\ ports'[m.event.port_name].peer_node_name = m.from
      BY <1>5, <2>1, <3>1, <3>2
    <3> QED BY <1>4, <2>2, <2>3, <3>3 DEF Awaited
  <2>4. CASE m.event.type = "User"
    <3>1. ASSUME NEW r \in DOMAIN m.event.descriptors
          PROVE  Referred(World, m.to, r, m.event.descriptors[r])'
      <4>1. Referred(World, m.to, r, m.event.descriptors[r])
        BY <2>1, <2>4 DEF Awaited
      <4> QED BY <1>1, <1>4, <1>5, <2>2, <4>1 DEF Referred
    <3> QED BY <2>2, <2>4, <3>1 DEF Awaited
  <2>5. CASE m.event.type \notin {"PortAccepted", "User"}
    BY <2>2, <2>5 DEF Awaited
  <2> QED BY <2>3, <2>4, <2>5
<1>10. \A q \in PortName :
         /\ \A k \in Kinds : \A x \in PortName :
              Keeps(ports'[q], k, x) => Keeps(ports[q], k, x)
         /\ ports'[q].message_queue.heap \subseteq ports[q].message_queue.heap
  BY <1>6
<1>11. \A x, q \in PortName : Keeps(ports'[q], "carried", x) =>
         ports'[x].node = ports'[q].node
  BY <1>7
<1>12. Good(World, {})'
  BY <1>1, <1>8, <1>9, <1>10, <1>11, StepGood
<1>13. Resting'
  <2>1. /\ idle' = idle \ ClosedByLoss(n, lost)
        /\ idle \in SUBSET PortName
    BY DEF LostConnectionToNode, NotifiedOfLoss, TypeOK
  <2>2. \A p \in idle : p \notin ErasedByLoss(n, lost)
    BY DEF Resting, ErasedByLoss
  <2> QED BY <1>2, <2>1, <2>2, StepResting
<1> QED BY <1>12, <1>13

\* The first port of an end has no name before it, and belongs to that end.
LEMMA FirstName ==
  ASSUME NEW e \in End, NEW f \in PortName
  PROVE  /\ EndOf(FirstPort(e)) = e
         /\ ~Below(f, FirstPort(e))
<1>1. e = <<e[1], e[2]>>
  BY DEF End
<1>2. f[3] \in 0 .. MaxGen[f[1]] /\ MaxGen[f[1]] \in Nat
  BY NameParts, MaxGenAssumption
<1>3. FirstPort(e)[3] = 0 /\ EndOf(FirstPort(e)) = e
  BY <1>1 DEF FirstPort, EndOf
<1> QED BY <1>2, <1>3 DEF Below

\* Ends are made that were unmade.
LEMMA CreateGood ==
  ASSUME TypeOK, Good(World, {}), Resting, NEW E \in SUBSET End,
         \A e \in E : life[e] = "unmade",
         \A e \in E : life'[e] # "unmade",
         \A e \in End \ E : life'[e] = life[e],
         net' = net, oops' = oops, crashed' = crashed, idle' = idle,
         \A e \in E :
           /\ ports'[FirstPort(e)].state \in {"Uninitialized", "Receiving"}
           /\ ports'[FirstPort(e)].message_queue.heap = {}
           /\ ports'[FirstPort(e)].send_on_proxy_removal = NoPort,
         \A q \in PortName : (\A e \in E : q # FirstPort(e)) =>
           ports'[q] = ports[q]
  PROVE  Good(World, {})' /\ Resting'
<1> DEFINE New(q) == \E e \in E : q = FirstPort(e)
<1>1. /\ World.ports = ports /\ World'.ports = ports' /\ World'.net = net
      /\ World.net = net /\ World'.oops = World.oops
      /\ Status(World, {}) /\ Exclusive(World, {}) /\ oops = FALSE
  BY DEF World, Good
<1>2. ASSUME NEW q \in PortName, EndOf(q) \in E
      PROVE  /\ Fresh(World, {}, q)
             /\ ports[q].state = "Absent"
             /\ \A k \in Kinds : ~Claimed(World, {}, k, q)
  <2>1. Fresh(World, {}, q)
    BY <1>2 DEF Fresh
  <2>2. PortStatus(World, {}, q)
    BY <1>1 DEF Status
  <2>3. ports[q].state = "Absent"
    BY <1>1, <2>1, <2>2 DEF PortStatus
  <2> QED BY <1>1, <2>1, <2>2, <2>3 DEF PortStatus, Unclaimed, Kinds
<1>3. \A e \in E : FirstPort(e) \in PortName /\ EndOf(FirstPort(e)) = e
  BY EndParts, FirstName
<1>4. \A q \in PortName : New(q) => EndOf(q) \in E
  BY <1>3
<1>5. \A q \in PortName : New(q) =>
        /\ \A k \in Kinds : \A x \in PortName : ~Keeps(ports'[q], k, x)
        /\ Apart(ports'[q])
        /\ ports'[q].state \in {"Uninitialized", "Receiving"}
  BY NoPortAssumption DEF Keeps, Apart
<1>6. \A q \in PortName : ~New(q) => ports'[q] = ports[q]
  OBVIOUS
<1>7. \A q \in PortName : New(q) => ports[q].state = "Absent"
  BY <1>2, <1>4
<1> HIDE DEF New
<1>8. \A q \in PortName : \A k \in Kinds : \A x \in PortName :
        Keeps(ports'[q], k, x) => Keeps(ports[q], k, x) /\ ~New(q)
  BY <1>5, <1>6
<1>9. \A k \in Kinds : \A x \in PortName :
        /\ InPort(World, k, x)' => InPort(World, k, x)
        /\ InNet(World, k, x)' <=> InNet(World, k, x)
  BY <1>1, <1>8 DEF InPort, InNet
<1>10. \A k \in Kinds : \A x \in PortName :
         Claimed(World, {}, k, x)' => Claimed(World, {}, k, x)
  BY <1>9 DEF Claimed
<1>11. Exclusive(World, {})'
  <2> SUFFICES ASSUME NEW k \in Kinds, NEW x \in PortName
               PROVE  ExclusiveClaim(World, {}, k, x)'
    BY DEF Exclusive
  <2>1. ExclusiveClaim(World, {}, k, x)
    BY <1>1 DEF Exclusive
  <2>2. \A q1, q2 \in PortName :
          Keeps(ports'[q1], k, x) /\ Keeps(ports'[q2], k, x) => q1 = q2
    BY <1>1, <1>8, <2>1 DEF ExclusiveClaim
  <2> QED BY <1>1, <1>9, <2>1, <2>2 DEF ExclusiveClaim
<1>12. ASSUME NEW p \in PortName PROVE PortStatus(World, {}, p)'
  <2>1. PortStatus(World, {}, p)
    BY <1>1 DEF Status
  <2>2. \A f \in PortName : Front(World, {}, f)' =>
          Front(World, {}, f) \/ New(f)
    BY <1>1, <1>6, <1>10 DEF Front, Kinds
  <2>3. Unclaimed(World, {}, p) => Unclaimed(World, {}, p)'
    BY <1>10 DEF Unclaimed, Kinds
  <2>4. CASE New(p)
    <3>1. ~Fresh(World, {}, p)'
      <4>1. PICK e \in E : p = FirstPort(e)
        BY <2>4 DEF New
      <4>2. EndOf(p) = e /\ \A f \in PortName : ~Below(f, p)
        BY <4>1, FirstName
      <4>3. life'[EndOf(p)] # "unmade"
        BY <4>2
      <4> QED BY <4>2, <4>3 DEF Fresh
    <3>2. \A k \in Kinds : ~Claimed(World, {}, k, p)'
      BY <1>2, <1>4, <1>10, <2>4
    <3> QED BY <3>1, <3>2 DEF PortStatus, Kinds
  <2>5. CASE ~New(p)
    <3>1. ports'[p] = ports[p]
      BY <1>6, <2>5
    <3>2. Fresh(World, {}, p)' => Fresh(World, {}, p)
      <4>1. CASE EndOf(p) \in E
        BY <1>2, <4>1
      <4>2. CASE EndOf(p) \notin E
        <5>1. life'[EndOf(p)] = life[EndOf(p)]
          BY <4>2, EndOfType
        <5>2. \A f \in PortName : Below(f, p) => ~New(f)
          BY <1>4, <4>2 DEF Below
        <5> QED BY <2>2, <5>1, <5>2 DEF Fresh
      <4> QED BY <4>1, <4>2
    <3>3. /\ Claimed(World, {}, "flight", p)' => Claimed(World, {}, "flight", p)
          /\ Claimed(World, {}, "removal", p)' =>
               Claimed(World, {}, "removal", p)
          /\ Claimed(World, {}, "move", p)' => Claimed(World, {}, "move", p)
          /\ Claimed(World, {}, "carried", p)' =>
               Claimed(World, {}, "carried", p)
      BY <1>10 DEF Kinds
    <3> QED BY ONLY <1>1, <2>1, <2>3, <3>1, <3>2, <3>3 DEF PortStatus
  <2> QED BY <2>4, <2>5
<1>13. \A p \in PortName : Apart(ports'[p])
  BY <1>1, <1>5, <1>6 DEF Status
<1>14. \A x, q \in PortName : Keeps(ports'[q], "carried", x) =>
         ports'[x].node = ports'[q].node
  <2> SUFFICES ASSUME NEW x \in PortName, NEW q \in PortName,
                      Keeps(ports'[q], "carried", x)
               PROVE  ports'[x].node = ports'[q].node
    OBVIOUS
  <2>1. Keeps(ports[q], "carried", x) /\ ports'[q] = ports[q]
    BY <1>6, <1>8 DEF Kinds
  <2>2. Claimed(World, {}, "carried", x)
    BY <1>1, <2>1 DEF Claimed, InPort
  <2>3. ports[x].state = "Receiving" /\ ports[x].node = ports[q].node
    BY <1>1, <2>1, <2>2 DEF Status, PortStatus
  <2>4. ports'[x] = ports[x]
    BY <1>6, <1>7, <2>3
  <2> QED BY <2>1, <2>3, <2>4
<1>15. Status(World, {})'
  BY <1>1, <1>12, <1>13, <1>14 DEF Status
<1>16. ASSUME NEW m \in DOMAIN net PROVE Awaited(World, m)'
  <2>1. \A p \in PortName : ports[p].state = "Buffering" =>
          ports'[p] = ports[p]
    BY <1>6, <1>7
  <2> QED BY <2>1, StepAwaited
<1>17. Resting'
  <2>1. idle \in SUBSET PortName
    BY DEF TypeOK
  <2>2. \A q \in idle : ports'[q] = ports[q]
    BY <1>6, <1>7, <2>1 DEF Resting
  <2> QED BY <2>2, StepResting
<1>18. Good(World, {})'
  BY <1>1, <1>11, <1>15, <1>16 DEF Good
<1> QED BY <1>17, <1>18

\* The fields of a new port.
LEMMA NewPortFields ==
  ASSUME NEW node, NEW peer_node, NEW peer_port
  PROVE  LET new == NewPort(node, kInitialSequenceNum, kInitialSequenceNum)
             ready == Initialized(new, peer_node, peer_port)
         IN /\ new.state = "Uninitialized" /\ ready.state = "Receiving"
            /\ new.message_queue.heap = {} /\ ready.message_queue.heap = {}
            /\ new.send_on_proxy_removal = NoPort
            /\ ready.send_on_proxy_removal = NoPort
  BY DEF NewPort, Initialized, NewMessageQueue

\* One end is made.
LEMMA CreateUninitializedPortGood ==
  ASSUME TypeOK, Good(World, {}), Resting, NEW e \in End,
         CreateUninitializedPort(e)
  PROVE  Good(World, {})' /\ Resting'
<1> DEFINE p == FirstPort(e)
           new == NewPort(Home[e], kInitialSequenceNum, kInitialSequenceNum)
<1>1. p \in PortName
  BY EndParts
<1>2. /\ life[e] = "unmade"
      /\ ports' = [ports EXCEPT ![p] = new]
      /\ life' = [life EXCEPT ![e] = "open"]
      /\ net' = net /\ oops' = oops /\ crashed' = crashed /\ idle' = idle
  BY DEF CreateUninitializedPort
<1>3. /\ new.state = "Uninitialized" /\ new.message_queue.heap = {}
      /\ new.send_on_proxy_removal = NoPort
  BY NewPortFields
<1> HIDE DEF new
<1>4. /\ ports'[p] = new
      /\ \A q \in PortName : q # p => ports'[q] = ports[q]
      /\ life'[e] # "unmade"
      /\ \A d \in End : d # e => life'[d] = life[d]
  BY <1>1, <1>2 DEF TypeOK
<1> DEFINE E == {e}
<1>5. /\ E \in SUBSET End
      /\ \A d \in E : life[d] = "unmade" /\ life'[d] # "unmade"
      /\ \A d \in End \ E : life'[d] = life[d]
      /\ \A d \in E :
           /\ ports'[FirstPort(d)].state \in {"Uninitialized", "Receiving"}
           /\ ports'[FirstPort(d)].message_queue.heap = {}
           /\ ports'[FirstPort(d)].send_on_proxy_removal = NoPort
      /\ \A q \in PortName : (\A d \in E : q # FirstPort(d)) =>
           ports'[q] = ports[q]
  BY <1>2, <1>3, <1>4
<1> HIDE DEF E, p
<1> QED BY <1>2, <1>5, CreateGood

\* Both ends are made on one node.
LEMMA CreatePortPairGood ==
  ASSUME TypeOK, Good(World, {}), Resting, NEW pipe \in Pipes,
         CreatePortPair(pipe)
  PROVE  Good(World, {})' /\ Resting'
<1> DEFINE e0 == <<pipe, 0>>
           e1 == <<pipe, 1>>
           new(e) == Initialized(
                       NewPort(Home[e], kInitialSequenceNum,
                               kInitialSequenceNum),
                       Home[Other(e)], FirstPort(Other(e)))
           E == {e0, e1}
<1>1. /\ e0 \in End /\ e1 \in End /\ FirstPort(e0) # FirstPort(e1)
      /\ e0 # e1
  BY DEF End, FirstPort
<1>2. FirstPort(e0) \in PortName /\ FirstPort(e1) \in PortName
  BY <1>1, EndParts
<1>3. /\ life[e0] = "unmade" /\ life[e1] = "unmade"
      /\ ports' = [ports EXCEPT ![FirstPort(e0)] = new(e0),
                                ![FirstPort(e1)] = new(e1)]
      /\ life' = [life EXCEPT ![e0] = "open", ![e1] = "open"]
      /\ net' = net /\ oops' = oops /\ crashed' = crashed /\ idle' = idle
  BY DEF CreatePortPair
<1>4. \A e \in E : /\ new(e).state = "Receiving"
                   /\ new(e).message_queue.heap = {}
                   /\ new(e).send_on_proxy_removal = NoPort
  BY NewPortFields
<1> HIDE DEF new, e0, e1
<1>5. /\ \A e \in E : ports'[FirstPort(e)] = new(e) /\ life'[e] = "open"
      /\ \A q \in PortName : q # FirstPort(e0) /\ q # FirstPort(e1) =>
           ports'[q] = ports[q]
      /\ \A d \in End : d # e0 /\ d # e1 => life'[d] = life[d]
  BY <1>1, <1>2, <1>3 DEF TypeOK
<1>6. /\ E \in SUBSET End
      /\ \A d \in E : life[d] = "unmade" /\ life'[d] # "unmade"
      /\ \A d \in End \ E : life'[d] = life[d]
      /\ \A d \in E :
           /\ ports'[FirstPort(d)].state \in {"Uninitialized", "Receiving"}
           /\ ports'[FirstPort(d)].message_queue.heap = {}
           /\ ports'[FirstPort(d)].send_on_proxy_removal = NoPort
      /\ \A q \in PortName : (\A d \in E : q # FirstPort(d)) =>
           ports'[q] = ports[q]
  BY <1>1, <1>3, <1>4, <1>5
<1> HIDE DEF E
<1> QED BY <1>3, <1>6, CreateGood

\* The initial claims: none.
LEMMA InitGood ==
  ASSUME Init
  PROVE  Good(World, {})
<1>1. /\ World.ports = ports /\ World.net = net /\ World.oops = FALSE
      /\ DOMAIN net = {}
  BY DEF Init, World, EmptyBag, SetToBag
<1>2. \A p \in PortName :
        /\ ports[p] = IF p[3] = 0 THEN InitialPort(EndOf(p)) ELSE AbsentPort
        /\ life[EndOf(p)] =
             IF p[1] \in Established THEN "open" ELSE "unmade"
  BY EndOfType DEF Init, EndOf
<1>3. \A p \in PortName :
        /\ ports[p].state \in {"Absent", "Receiving"}
        /\ ports[p].state = "Receiving" =>
             p[3] = 0 /\ p[1] \in Established
        /\ ports[p].message_queue.heap = {}
        /\ ports[p].send_on_proxy_removal = NoPort
  <2> SUFFICES ASSUME NEW p \in PortName
               PROVE  /\ ports[p].state \in {"Absent", "Receiving"}
                      /\ ports[p].state = "Receiving" =>
                           p[3] = 0 /\ p[1] \in Established
                      /\ ports[p].message_queue.heap = {}
                      /\ ports[p].send_on_proxy_removal = NoPort
    OBVIOUS
  <2>1. AbsentPort.send_on_proxy_removal = NoPort
    BY DEF AbsentPort, NewPort
  <2>2. CASE ports[p] = AbsentPort
    BY <2>1, <2>2, AbsentKeeps
  <2>3. CASE ports[p] # AbsentPort
    <3>1. p[3] = 0 /\ p[1] \in Established
          /\ ports[p] = Initialized(
               NewPort(Home[EndOf(p)], kInitialSequenceNum,
                       kInitialSequenceNum),
               Home[Other(EndOf(p))], FirstPort(Other(EndOf(p))))
      BY <1>2, <2>3 DEF InitialPort, EndOf
    <3> QED BY <3>1, NewPortFields
  <2> QED BY <2>2, <2>3
<1>4. \A q \in PortName : /\ Apart(ports[q])
                          /\ \A k \in Kinds : \A x \in PortName :
                               ~Keeps(ports[q], k, x)
  BY <1>3, NoPortAssumption DEF Apart, Keeps
<1>5. \A k \in Kinds : \A x \in PortName :
        /\ ~InPort(World, k, x) /\ ~InNet(World, k, x)
        /\ ~Claimed(World, {}, k, x)
  BY <1>1, <1>4 DEF InPort, InNet, Claimed
<1>6. Exclusive(World, {})
  BY <1>1, <1>4, <1>5 DEF Exclusive, ExclusiveClaim
<1>7. ASSUME NEW p \in PortName PROVE PortStatus(World, {}, p)
  <2>1. Fresh(World, {}, p) => ports[p].state = "Absent"
    <3> SUFFICES ASSUME ports[p].state = "Receiving"
                 PROVE  ~Fresh(World, {}, p)
      BY <1>3
    <3>1. p[3] = 0 /\ p[1] \in Established
      BY <1>3
    <3>2. life[EndOf(p)] # "unmade"
      BY <1>2, <3>1
    <3>3. \A f \in PortName : ~Below(f, p)
      <4>1. \A f \in PortName : f[3] \in Int /\ 0 <= f[3]
        <5> SUFFICES ASSUME NEW f \in PortName PROVE f[3] \in Int /\ 0 <= f[3]
          OBVIOUS
        <5>1. MaxGen[f[1]] \in Nat
          BY NameParts, MaxGenAssumption
        <5> QED BY <5>1, NameParts
      <4> QED BY <3>1, <4>1 DEF Below
    <3> QED BY <3>2, <3>3 DEF Fresh
  <2> QED BY <1>1, <1>5, <2>1 DEF PortStatus, Unclaimed, Kinds
<1>8. Status(World, {})
  <2>1. \A p \in PortName : /\ Apart(World.ports[p])
                            /\ \A q \in PortName :
                                 ~Keeps(World.ports[q], "carried", p)
    BY <1>1, <1>4 DEF Kinds
  <2> QED BY <1>7, <2>1 DEF Status
<1> QED BY <1>1, <1>6, <1>8 DEF Good

-----------------------------------------------------------------------------
\* The copies of envelopes that make the same exclusive claim: at most one.
LEMMA OneCopy ==
  ASSUME TypeOK, NEW hits \in SUBSET DOMAIN net,
         \A m \in hits : net[m] = 1,
         \A m1, m2 \in hits : m1 = m2
  PROVE  Cardinality(UNION {{m} \X (1 .. net[m]) : m \in hits}) =
           IF hits = {} THEN 0 ELSE 1
<1> DEFINE copies == UNION {{m} \X (1 .. net[m]) : m \in hits}
<1>1. CASE hits = {}
  <2>1. copies = {}
    BY <1>1
  <2> QED BY <1>1, <2>1, FS_EmptySet
<1>2. CASE hits # {}
  <2>1. PICK m \in hits : TRUE
    BY <1>2
  <2>2. hits = {m} /\ net[m] = 1
    BY <2>1
  <2>3. copies = {<<m, 1>>}
    BY <2>2
  <2>4. Cardinality({<<m, 1>>}) = 1
    BY FS_Singleton
  <2> QED BY <1>2, <2>3, <2>4
<1> QED BY <1>1, <1>2

\* A set whose members are all the same.
LEMMA OneMember ==
  ASSUME NEW S, \A x, y \in S : x = y
  PROVE  Cardinality(S) = IF S = {} THEN 0 ELSE 1
<1>1. CASE S = {}
  BY <1>1, FS_EmptySet
<1>2. CASE S # {}
  <2>1. PICK x \in S : TRUE
    BY <1>2
  <2>2. S = {x}
    BY <2>1
  <2> QED BY <1>2, <2>2, FS_Singleton
<1> QED BY <1>1, <1>2

\* At most one of the claims to remove a proxy.
LEMMA GoodOneRemoval ==
  ASSUME TypeOK, Good(World, {})
  PROVE  OneRemovalAtATime
<1> SUFFICES ASSUME NEW p \in PortName
             PROVE  Count(LAMBDA ev : ev.type = "ObserveProxy"
                                        /\ ev.proxy_port_name = p)
                    + Count(LAMBDA ev : ev.type = "ObserveProxyAck"
                                          /\ ev.port_name = p)
                    + Cardinality({q \in PortName :
                                     ports[q].send_on_proxy_removal = p}) <= 1
  BY DEF OneRemovalAtATime
<1> DEFINE asks == {m \in DOMAIN net : m.event.type = "ObserveProxy"
                                         /\ m.event.proxy_port_name = p}
           acks == {m \in DOMAIN net : m.event.type = "ObserveProxyAck"
                                         /\ m.event.port_name = p}
           later == {q \in PortName : ports[q].send_on_proxy_removal = p}
           copies(hits) == Cardinality(UNION {{m} \X (1 .. net[m]) : m \in hits})
<1>1. /\ ExclusiveClaim(World, {}, "removal", p)
      /\ World.net = net /\ World.ports = ports
  BY DEF Good, Exclusive, World, Kinds
<1>2. /\ \A m \in asks \cup acks : /\ m \in DOMAIN net
                                   /\ Claims(m.event, "removal", p)
      /\ \A m \in asks : m \notin acks
  BY DEF Claims
<1>3. \A q \in later : Keeps(ports[q], "removal", p) /\ q \in PortName
  BY DEF Keeps
<1>4. Count(LAMBDA ev : ev.type = "ObserveProxy" /\ ev.proxy_port_name = p)
        = copies(asks)
  BY DEF Count
<1>5. Count(LAMBDA ev : ev.type = "ObserveProxyAck" /\ ev.port_name = p)
        = copies(acks)
  BY DEF Count
<1>6. asks \in SUBSET DOMAIN net /\ acks \in SUBSET DOMAIN net
  OBVIOUS
<1> HIDE DEF asks, acks, later
<1>7. /\ \A m \in asks \cup acks : net[m] = 1
      /\ \A m1, m2 \in asks \cup acks : m1 = m2
      /\ \A q1, q2 \in later : q1 = q2
      /\ asks = {} \/ acks = {}
      /\ later = {} \/ asks \cup acks = {}
  BY <1>1, <1>2, <1>3 DEF ExclusiveClaim, InNet, InPort
<1>8. copies(asks) = IF asks = {} THEN 0 ELSE 1
  BY <1>6, <1>7, OneCopy
<1>9. copies(acks) = IF acks = {} THEN 0 ELSE 1
  BY <1>6, <1>7, OneCopy
<1>10. Cardinality(later) = IF later = {} THEN 0 ELSE 1
  BY <1>7, OneMember
<1> HIDE DEF copies
<1>11. copies(asks) + copies(acks) + Cardinality(later) <= 1
  BY <1>7, <1>8, <1>9, <1>10
<1> QED BY <1>4, <1>5, <1>11 DEF later

-----------------------------------------------------------------------------
(***************************************************************************)
(* The inductive invariant: the claims are exclusive and true, and the     *)
(* ports that wait are at rest.                                            *)
(***************************************************************************)
Orderly == Good(World, {}) /\ Resting

\* Every step keeps the ports orderly.
LEMMA OrderlyStep ==
  ASSUME TypeOK, Orderly, [Next]_vars
  PROVE  Orderly'
<1> SUFFICES Good(World, {})' /\ Resting'
  BY DEF Orderly
<1> USE DEF Orderly
<1>1. CASE EmbedderStep
  <2>1. ASSUME NEW e \in End, CreateUninitializedPort(e) \/ InitializePort(e)
        PROVE  Good(World, {})' /\ Resting'
    BY <2>1, CreateUninitializedPortGood, InitializePortGood
  <2>2. ASSUME NEW pipe \in Pipes, CreatePortPair(pipe)
        PROVE  Good(World, {})' /\ Resting'
    BY <2>2, CreatePortPairGood
  <2>3. ASSUME NEW p \in PortName, NEW cargo \in SUBSET CargoFor(p),
               SendMessage(p, cargo)
        PROVE  Good(World, {})' /\ Resting'
    BY <2>3, SendMessageGood
  <2>4. ASSUME NEW p \in PortName, NEW m \in ports[p].message_queue.heap,
               GetMessage(p, m)
        PROVE  Good(World, {})' /\ Resting'
    BY <2>4, GetMessageGood
  <2>5. ASSUME NEW p \in PortName, GetNothing(p) \/ ClosePort(p)
        PROVE  Good(World, {})' /\ Resting'
    BY <2>5, GetNothingGood, ClosePortGood
  <2> QED BY <1>1, <2>1, <2>2, <2>3, <2>4, <2>5 DEF EmbedderStep
<1>2. CASE FailureStep
  BY <1>2, CrashGood, LostConnectionToNodeGood DEF FailureStep
<1>3. CASE TransportStep
  BY <1>3, DeliverGood DEF TransportStep
<1>4. CASE UNCHANGED vars
  BY <1>4 DEF vars, Good, World, Exclusive, ExclusiveClaim, InNet, InPort,
              Status, PortStatus, Claimed, Unclaimed, Front, Fresh, Awaited,
              Referred, Resting, Waits
<1> QED BY <1>1, <1>2, <1>3, <1>4 DEF Next

(***************************************************************************)
(* Whatever is lost, reordered or moved, no claim on a port name is made   *)
(* twice, every claim finds its port in the state that the handlers expect *)
(* and a port that waits has nothing to say.                               *)
(***************************************************************************)
THEOREM OrderlyAlways == Spec => []Orderly
<1>1. Init => Orderly
  BY InitGood DEF Orderly, Resting, Init
<1>2. TypeOK /\ Orderly /\ [Next]_vars => Orderly'
  BY OrderlyStep
<1> QED BY <1>1, <1>2, TypeCorrect, PTL DEF Spec

(***************************************************************************)
(* No node hits an OOPS: AddPortWithName never finds a name taken          *)
(* (node.cc:729), a PortAccepted always finds a buffering port (500, 513), *)
(* an ObserveProxyAck finds a proxy or nothing (631), and a message that   *)
(* is forwarded finds its ports (865).                                     *)
(***************************************************************************)
THEOREM NeverOops == Spec => []NoOops
<1>1. Orderly => NoOops
  BY DEF Orderly, Good, World, NoOops
<1> QED BY <1>1, OrderlyAlways, PTL

(***************************************************************************)
(* Of the announcement of a proxy, an answer in flight and an answer that  *)
(* another proxy delays, at most one exists: send_on_proxy_removal is      *)
(* never overwritten while it is needed (node.cc:577-598).                 *)
(***************************************************************************)
THEOREM RemovedOnce == Spec => []OneRemovalAtATime
<1>1. TypeOK /\ Orderly => OneRemovalAtATime
  BY GoodOneRemoval DEF Orderly
<1> QED BY <1>1, TypeCorrect, OrderlyAlways, PTL

(***************************************************************************)
(* An embedder that GetMessage told to wait is notified of whatever ends   *)
(* the waiting (node.cc:489, 717, 408).                                    *)
(***************************************************************************)
THEOREM WakeupsKept == Spec => []NoLostWakeup
<1>1. Orderly => NoLostWakeup
  BY DEF Orderly, Resting, Waits, NoLostWakeup
<1> QED BY <1>1, OrderlyAlways, PTL

(***************************************************************************)
(* The ports in an unread message are there: each exists on the node of    *)
(* the port that holds the message, receives, has not been handed to an    *)
(* embedder, and is in no other message, so that GetMessageIf finds every  *)
(* port it makes signalable (node.cc:281, 286) and ClosePort closes it     *)
(* once.                                                                   *)
(***************************************************************************)
CarriedOnce ==
  \A q \in PortName : \A m \in ports[q].message_queue.heap :
    \A p \in m.ports :
      /\ ports[p].state = "Receiving"
      /\ ports[p].node = ports[q].node
      /\ ~ports[p].message_queue.signalable
      /\ \A r \in PortName : \A other \in ports[r].message_queue.heap :
           p \in other.ports => r = q /\ other = m

THEOREM PortsCarriedOnce == Spec => []CarriedOnce
<1>1. TypeOK /\ Orderly => CarriedOnce
  <2> SUFFICES ASSUME TypeOK, Orderly, NEW q \in PortName,
                      NEW m \in ports[q].message_queue.heap, NEW p \in m.ports
               PROVE  /\ ports[p].state = "Receiving"
                      /\ ports[p].node = ports[q].node
                      /\ ~ports[p].message_queue.signalable
                      /\ \A r \in PortName :
                           \A other \in ports[r].message_queue.heap :
                             p \in other.ports => r = q /\ other = m
    BY DEF CarriedOnce
  <2>1. World.ports = ports /\ Status(World, {}) /\ Exclusive(World, {})
    BY DEF World, Orderly, Good
  <2>2. p \in PortName
    BY DEF TypeOK, IsPort, Port, QueuedMessage
  <2>3. Keeps(ports[q], "carried", p)
    BY DEF Keeps
  <2>4. Claimed(World, {}, "carried", p)
    BY <2>1, <2>3 DEF Claimed, InPort
  <2>5. /\ ports[p].state = "Receiving" /\ ports[p].node = ports[q].node
        /\ ports[p].message_queue.signalable = FALSE
    BY <2>1, <2>2, <2>3, <2>4 DEF Status, PortStatus
  <2>6. ASSUME NEW r \in PortName, NEW other \in ports[r].message_queue.heap,
               p \in other.ports
        PROVE  r = q /\ other = m
    <3>1. Keeps(ports[r], "carried", p)
      BY <2>6 DEF Keeps
    <3>2. ExclusiveClaim(World, {}, "carried", p)
      BY <2>1, <2>2 DEF Exclusive, Kinds
    <3>3. r = q
      BY <2>1, <2>3, <3>1, <3>2 DEF ExclusiveClaim
    <3>4. Apart(ports[q])
      BY <2>1 DEF Status
    <3> QED BY <2>2, <2>6, <3>3, <3>4 DEF Apart
  <2> QED BY <2>5, <2>6
<1> QED BY <1>1, TypeCorrect, OrderlyAlways, PTL
=============================================================================
