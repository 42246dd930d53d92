-------------------------- MODULE PortsPipeProofs ---------------------------
(***************************************************************************)
(* The ports of all nodes are pipes (MessagePipe): what an end reads is    *)
(* what the other end sent, in order and once, whatever moves, is          *)
(* reordered or lost; and while no node is lost, an end is told of its     *)
(* peer's closure only after it, and after everything was read.            *)
(*                                                                         *)
(* The invariant is Truth: a port that is an end of a pipe counts what its *)
(* embedder sent and read; a message has the number its sender gave it;    *)
(* ports and descriptors refer to ends of their own pipe; and who says     *)
(* that an end closed, or waits for the last message of one, has the right *)
(* number, which stays right because whoever is that end knows it will     *)
(* not be heard any more (Finished, Knows).  A handler works on a world,   *)
(* so Truth is about a world, the events known to be in flight or in hand, *)
(* and the counts of sent messages; every handler has a lemma that what it *)
(* leaves is true.                                                         *)
(***************************************************************************)
EXTENDS PortsProofs

-----------------------------------------------------------------------------
(* The invariant.                                                          *)

\* The events that are in flight in a world.
Events(w) == {m.event : m \in DOMAIN w.net}

\* An end is closed, or is being closed by the handler that runs.
IsClosed(w, e) == life[e] = "closed" \/ e \in w.shut

\* A port that is an end of a pipe (and not on the way to one).
AtEnd(port) == port.state \in {"Uninitialized", "Receiving"}

\* What end e of a pipe, a port or the descriptor of one, was told of its
\* peer's closure.
Heard(w, s, e, x) ==
  /\ x.peer_closed => /\ IsClosed(w, Other(e))
                      /\ x.last_sequence_num_to_receive = s[Other(e)]
  /\ e \in eof => x.peer_closed

\* An end counts what its embedder sent and read.
Counts(w, s, e, x, next) ==
  /\ life[e] = "open"
  /\ e \notin w.shut
  /\ x.next_sequence_num_to_send = s[e] + 1
  /\ next = got[e] + 1
  /\ crashed = {} => Heard(w, s, e, x)

\* Whoever is end e, now or in one of the events, knows of the closure.
Knows(w, E, e) ==
  /\ \A p \in PortName :
       EndOf(p) = e /\ AtEnd(w.ports[p]) => w.ports[p].peer_closed
  /\ \A ev \in E : ev.type = "User" =>
       \A r \in DOMAIN ev.descriptors :
         EndOf(r) = e => ev.descriptors[r].peer_closed

\* End e has sent all that it will ever send.
Finished(w, E, s, e, last) ==
  /\ last = s[e]
  /\ life[e] # "unmade"
  /\ IsClosed(w, e) \/ IsClosed(w, Other(e))
  /\ Knows(w, E, e)

\* A message for end e is one that the other end sent, under its number.
Written(s, e, m) == m.body = m.sequence_num /\ m.sequence_num <= s[Other(e)]

\* What is true of a port of end e.
PortTrue(w, E, s, e, port) ==
  /\ AtEnd(port) =>
       /\ Counts(w, s, e, port, port.message_queue.next_sequence_num)
       /\ crashed = {} /\ port.remove_proxy_on_last_message =>
            port.peer_closed
  /\ port.state = "Uninitialized" => port.peer_node_name = NoNode
  /\ port.state = "Receiving" =>
       /\ port.peer_port_name \in PortName
       /\ EndOf(port.peer_port_name) = Other(e)
  /\ port.state \in {"Buffering", "Proxying"} =>
       /\ port.peer_port_name \in PortName
       /\ EndOf(port.peer_port_name) = e
  /\ /\ crashed = {}
     /\ port.state = "Buffering"
     /\ port.remove_proxy_on_last_message
     => Finished(w, E, s, Other(e), port.last_sequence_num_to_receive)
  /\ \A m \in port.message_queue.heap : Written(s, e, m)

\* What the descriptor of port r says.
DescriptorTrue(w, s, r, d) ==
  /\ Counts(w, s, EndOf(r), d, d.next_sequence_num_to_receive)
  /\ d.peer_port_name \in PortName
  /\ EndOf(d.peer_port_name) = Other(EndOf(r))

\* What an event says.
EventTrue(w, E, s, ev) ==
  /\ ev.type = "User" =>
       /\ Written(s, EndOf(ev.port_name), ev)
       /\ \A r \in DOMAIN ev.descriptors :
            DescriptorTrue(w, s, r, ev.descriptors[r])
  /\ ev.type = "ObserveProxy" =>
       EndOf(ev.proxy_to_port_name) = EndOf(ev.proxy_port_name)
  /\ ev.type = "ObserveClosure" /\ crashed = {} =>
       Finished(w, E, s, Other(EndOf(ev.port_name)), ev.last_sequence_num)

\* What is in flight, or in hand, is true.
Truth(w, E, s) ==
  /\ Events(w) \subseteq E
  /\ \A p \in PortName : PortTrue(w, E, s, EndOf(p), w.ports[p])
  /\ \A ev \in E : EventTrue(w, E, s, ev)
  /\ \A e \in w.shut : life[e] = "open"
  /\ crashed = {} => \A e \in eof : /\ IsClosed(w, Other(e))
                                    /\ got[e] = s[Other(e)]

-----------------------------------------------------------------------------
(* The handlers.                                                           *)

\* The other end of the other end.
LEMMA OtherOther ==
  ASSUME NEW e \in End
  PROVE  Other(Other(e)) = e /\ Other(e) # e
  BY DEF End, Other

\* Less is known of, so less is said.
LEMMA TruthLess ==
  ASSUME NEW w, NEW E, NEW s, Truth(w, E, s), NEW F \in SUBSET E,
         Events(w) \subseteq F
  PROVE  Truth(w, F, s)
<1>1. ASSUME NEW e, NEW last, Finished(w, E, s, e, last)
      PROVE  Finished(w, F, s, e, last)
  BY <1>1 DEF Finished, Knows
<1>2. \A p \in PortName : PortTrue(w, F, s, EndOf(p), w.ports[p])
  BY <1>1 DEF Truth, PortTrue
<1>3. \A ev \in F : EventTrue(w, F, s, ev)
  BY <1>1 DEF Truth, EventTrue
<1> QED BY <1>2, <1>3 DEF Truth

(***************************************************************************)
(* What a handler has to keep, when it goes from world w to v and from the *)
(* events E to F: an end that knows of a closure goes on to know, no end   *)
(* is left that is being closed, and what is new is true.                  *)
(***************************************************************************)
LEMMA TruthStep ==
  ASSUME NEW w, NEW E, NEW s, Truth(w, E, s), NEW v, NEW F,
         Events(v) \subseteq F,
         w.shut \subseteq v.shut,
         \A e \in v.shut : life[e] = "open",
         \A e : Knows(w, E, e) => Knows(v, F, e),
         \A p \in PortName :
           \/ PortTrue(v, F, s, EndOf(p), v.ports[p])
           \/ /\ v.ports[p] = w.ports[p]
              /\ AtEnd(w.ports[p]) => EndOf(p) \notin v.shut,
         \A ev \in F :
           \/ EventTrue(v, F, s, ev)
           \/ /\ ev \in E
              /\ ev.type = "User" =>
                   \A r \in DOMAIN ev.descriptors : EndOf(r) \notin v.shut
  PROVE  Truth(v, F, s)
<1>1. \A e : IsClosed(w, e) => IsClosed(v, e)
  BY DEF IsClosed
<1>2. ASSUME NEW e, NEW last, Finished(w, E, s, e, last)
      PROVE  Finished(v, F, s, e, last)
  BY <1>1, <1>2 DEF Finished
<1>3. ASSUME NEW e, NEW x, NEW next, Counts(w, s, e, x, next), e \notin v.shut
      PROVE  Counts(v, s, e, x, next)
  BY <1>1, <1>3 DEF Counts, Heard
<1>4. \A p \in PortName : PortTrue(v, F, s, EndOf(p), v.ports[p])
  <2> SUFFICES ASSUME NEW p \in PortName, v.ports[p] = w.ports[p],
                      AtEnd(w.ports[p]) => EndOf(p) \notin v.shut
               PROVE  PortTrue(v, F, s, EndOf(p), v.ports[p])
    OBVIOUS
  <2>1. PortTrue(w, E, s, EndOf(p), w.ports[p])
    BY DEF Truth
  <2> QED BY <1>2, <1>3, <2>1 DEF PortTrue
<1>5. \A ev \in F : EventTrue(v, F, s, ev)
  <2> SUFFICES ASSUME NEW ev \in F, ev \in E,
                      ev.type = "User" =>
                        \A r \in DOMAIN ev.descriptors :
                          EndOf(r) \notin v.shut
               PROVE  EventTrue(v, F, s, ev)
    OBVIOUS
  <2>1. EventTrue(w, E, s, ev)
    BY DEF Truth
  <2> QED BY <1>2, <1>3, <2>1 DEF EventTrue, DescriptorTrue
<1> QED BY <1>1, <1>4, <1>5 DEF Truth

\* A handler that closes no end.
LEMMA TruthKeep ==
  ASSUME NEW w, NEW E, NEW s, Truth(w, E, s), NEW v, NEW F,
         Events(v) \subseteq F,
         v.shut = w.shut,
         \A e : Knows(w, E, e) => Knows(v, F, e),
         \A p \in PortName :
           \/ PortTrue(v, F, s, EndOf(p), v.ports[p])
           \/ v.ports[p] = w.ports[p],
         \A ev \in F : EventTrue(v, F, s, ev) \/ ev \in E
  PROVE  Truth(v, F, s)
<1>1. \A e \in v.shut : life[e] = "open"
  BY DEF Truth
<1>2. \A p \in PortName :
        AtEnd(w.ports[p]) => EndOf(p) \notin v.shut
  BY DEF Truth, PortTrue, Counts
<1>3. \A ev \in E : ev.type = "User" =>
        \A r \in DOMAIN ev.descriptors : EndOf(r) \notin v.shut
  BY DEF Truth, EventTrue, DescriptorTrue, Counts
<1> QED BY <1>1, <1>2, <1>3, TruthStep

\* An event that says what is true is sent, or is not.
LEMMA TruthSay ==
  ASSUME NEW w, NEW E, NEW s, Truth(w, E, s), NEW v, NEW ev,
         v.ports = w.ports, v.shut = w.shut,
         Events(v) \subseteq E \cup {ev},
         ev \in E \/ (ev.type # "User" /\ EventTrue(w, E, s, ev))
  PROVE  Truth(v, E \cup {ev}, s)
<1>1. ASSUME NEW e, Knows(w, E, e)
      PROVE  Knows(v, E \cup {ev}, e)
  BY <1>1 DEF Knows
<1>2. CASE ev \in E
  <2>1. E \cup {ev} = E
    BY <1>2
  <2> QED BY <1>1, <2>1, TruthKeep
<1>3. CASE ev.type # "User" /\ EventTrue(w, E, s, ev)
  <2>1. EventTrue(v, E \cup {ev}, s, ev)
    BY <1>1, <1>3 DEF EventTrue, Finished, IsClosed
  <2> QED BY <1>1, <2>1, TruthKeep
<1> QED BY <1>2, <1>3

\* NodeDelegate::ForwardMessage.
LEMMA ForwardAllEvents ==
  ASSUME NEW w, IsWorld(w), NEW n, NEW to, NEW S
  PROVE  LET v == ForwardAll(w, n, to, S)
         IN /\ v.ports = w.ports /\ v.shut = w.shut
            /\ Events(v) \subseteq Events(w) \cup S
<1>1. CASE to \notin Nodes \ crashed
  BY <1>1 DEF ForwardAll, Events
<1>2. CASE to \in Nodes \ crashed
  <2> DEFINE bag == w.net
             T == {Envelope(n, to, e) : e \in S}
             v == ForwardAll(w, n, to, S)
  <2>1. v = [w EXCEPT !.net = bag (+) SetToBag(T)]
    BY <1>2 DEF ForwardAll
  <2>2. IsABag(bag)
    BY DEF IsWorld, IsNet
  <2>3. v.net = bag (+) SetToBag(T) /\ v.ports = w.ports /\ v.shut = w.shut
    BY <2>1 DEF IsWorld
  <2>4. \A m \in T : m.event \in S
    BY DEF Envelope
  <2> HIDE DEF bag, T, v
  <2>5. DOMAIN v.net = DOMAIN bag \cup T
    BY <2>2, <2>3, PlusBag
  <2>6. Events(v) \subseteq Events(w) \cup S
    BY <2>4, <2>5 DEF Events, bag
  <2> QED BY <2>3, <2>6 DEF v
<1> QED BY <1>1, <1>2

\* ForwardMessage of an event that says what is true.
LEMMA TruthForward ==
  ASSUME NEW w, IsWorld(w), NEW E, NEW s, Truth(w, E, s),
         NEW n, NEW to, NEW ev,
         ev \in E \/ (ev.type # "User" /\ EventTrue(w, E, s, ev))
  PROVE  Truth(ForwardMessage(w, n, to, ev), E \cup {ev}, s)
<1> DEFINE v == ForwardMessage(w, n, to, ev)
<1>1. /\ v.ports = w.ports /\ v.shut = w.shut
      /\ Events(v) \subseteq Events(w) \cup {ev}
  BY ForwardAllEvents DEF ForwardMessage
<1>2. Events(v) \subseteq E \cup {ev}
  BY <1>1 DEF Truth
<1> HIDE DEF v
<1>3. Truth(v, E \cup {ev}, s)
  BY <1>1, <1>2, TruthSay
<1> QED BY <1>3 DEF v

\* One port changes.
LEMMA TruthPort ==
  ASSUME NEW w, IsWorld(w), NEW E, NEW s, Truth(w, E, s), NEW p \in PortName,
         NEW port, PortTrue(w, E, s, EndOf(p), port),
         AtEnd(port) => /\ AtEnd(w.ports[p])
                        /\ w.ports[p].peer_closed => port.peer_closed
  PROVE  Truth([w EXCEPT !.ports[p] = port], E, s)
<1> DEFINE v == [w EXCEPT !.ports[p] = port]
<1>1. /\ v.ports[p] = port /\ v.shut = w.shut /\ v.net = w.net
      /\ \A q \in PortName : q # p => v.ports[q] = w.ports[q]
  BY DEF IsWorld
<1> HIDE DEF v
<1>2. Events(v) \subseteq E
  BY <1>1 DEF Truth, Events
<1>3. ASSUME NEW e, Knows(w, E, e)
      PROVE  Knows(v, E, e)
  BY <1>1, <1>3 DEF Knows
<1>4. PortTrue(v, E, s, EndOf(p), port)
  BY <1>1, <1>3 DEF PortTrue, Counts, Heard, IsClosed, Finished
<1>5. Truth(v, E, s)
  BY <1>1, <1>2, <1>3, <1>4, TruthKeep
<1> QED BY <1>5 DEF v

\* A name that is not in use says nothing.
LEMMA AbsentTrue ==
  ASSUME NEW w, NEW E, NEW s, NEW e
  PROVE  PortTrue(w, E, s, e, AbsentPort) /\ ~AtEnd(AbsentPort)
  BY DEF PortTrue, AtEnd, AbsentPort, NewPort, NewMessageQueue

\* A port is erased.
LEMMA TruthErase ==
  ASSUME NEW w, IsWorld(w), NEW E, NEW s, Truth(w, E, s), NEW p \in PortName
  PROVE  Truth(ErasePort(w, p), E, s)
<1>1. ErasePort(w, p) = [w EXCEPT !.ports[p] = AbsentPort]
  BY DEF ErasePort
<1> QED BY <1>1, AbsentTrue, TruthPort

\* An answer to a proxy, and PortAccepted, say nothing about messages.
LEMMA AnswerTrue ==
  ASSUME NEW w, NEW E, NEW s, NEW p, NEW last
  PROVE  /\ ObserveProxyAckEvent(p, last).type # "User"
         /\ EventTrue(w, E, s, ObserveProxyAckEvent(p, last))
         /\ PortAcceptedEvent(p).type # "User"
         /\ EventTrue(w, E, s, PortAcceptedEvent(p))
  BY DEF EventTrue, ObserveProxyAckEvent, PortAcceptedEvent

\* MaybeRemoveProxy_Locked.
LEMMA TruthMaybeRemoveProxy ==
  ASSUME NEW w, IsWorld(w), NEW E, NEW s, Truth(w, E, s), NEW n,
         NEW p \in PortName
  PROVE  \E F : /\ E \subseteq F
                /\ Truth(MaybeRemoveProxy(w, n, p), F, s)
<1> DEFINE ack == ObserveProxyAckEvent(w.ports[p].send_on_proxy_removal,
                                       kInvalidSequenceNum)
           gone == ErasePort(w, p)
<1>1. Truth(gone, E, s) /\ IsWorld(gone)
  BY TruthErase, ErasePortType
<1>2. ack.type # "User" /\ EventTrue(gone, E, s, ack)
  BY AnswerTrue
<1>3. \/ MaybeRemoveProxy(w, n, p) = w
      \/ MaybeRemoveProxy(w, n, p) = gone
      \/ MaybeRemoveProxy(w, n, p) =
           ForwardMessage(gone, n, w.ports[p].ack_node, ack)
  BY DEF MaybeRemoveProxy
<1> HIDE DEF ack, gone
<1>4. Truth(ForwardMessage(gone, n, w.ports[p].ack_node, ack), E \cup {ack}, s)
  BY <1>1, <1>2, TruthForward
<1> QED BY <1>1, <1>3, <1>4

\* InitiateProxyRemoval_Locked: a proxy forwards to its own end.
LEMMA TruthInitiateProxyRemoval ==
  ASSUME NEW w, IsWorld(w), NEW E, NEW s, Truth(w, E, s), NEW n,
         NEW p \in PortName, w.ports[p].state \in {"Buffering", "Proxying"}
  PROVE  \E F : Truth(InitiateProxyRemoval(w, n, p), F, s)
<1> DEFINE port == w.ports[p]
           ask == ObserveProxyEvent(port.peer_port_name, n, p,
                                    port.peer_node_name, port.peer_port_name)
<1>1. PortTrue(w, E, s, EndOf(p), port)
  BY DEF Truth
<1>2. EndOf(port.peer_port_name) = EndOf(p)
  BY <1>1 DEF PortTrue
<1>3. ask.type # "User" /\ EventTrue(w, E, s, ask)
  BY <1>2 DEF EventTrue, ObserveProxyEvent
<1>4. InitiateProxyRemoval(w, n, p) =
        ForwardMessage(w, n, port.peer_node_name, ask)
  BY DEF InitiateProxyRemoval
<1> HIDE DEF ask
<1>5. Truth(ForwardMessage(w, n, port.peer_node_name, ask), E \cup {ask}, s)
  BY <1>3, TruthForward
<1> QED BY <1>4, <1>5

\* A closure is sent on: by a port that is being sent, or forwards, in the
\* direction of its own end, and by an end towards its peer.
LEMMA TruthForwardClosure ==
  ASSUME NEW w, IsWorld(w), NEW E, NEW s, Truth(w, E, s), NEW n, NEW port,
         NEW last, NEW e,
         port.peer_node_name # NoNode =>
           /\ EndOf(port.peer_port_name) = e
           /\ crashed = {} => Finished(w, E, s, Other(e), last)
  PROVE  \E F : Truth(ForwardClosure(w, n, port, last), F, s)
<1> DEFINE ev == ObserveClosureEvent(port.peer_port_name, last)
<1>1. ForwardClosure(w, n, port, last) =
        ForwardMessage(w, n, port.peer_node_name, ev)
  BY DEF ForwardClosure
<1>2. CASE port.peer_node_name = NoNode
  <2>1. ForwardClosure(w, n, port, last) = w
    BY <1>2, NodesAssumption DEF ForwardClosure, ForwardMessage, ForwardAll
  <2> QED BY <2>1
<1>3. CASE port.peer_node_name # NoNode
  <2>1. ev.type # "User" /\ EventTrue(w, E, s, ev)
    BY <1>3 DEF EventTrue, ObserveClosureEvent
  <2> HIDE DEF ev
  <2>2. Truth(ForwardMessage(w, n, port.peer_node_name, ev), E \cup {ev}, s)
    BY <2>1, TruthForward
  <2> QED BY <1>1, <2>2
<1> QED BY <1>2, <1>3

\* Nobody is a closed end any more.
LEMMA ClosedKnows ==
  ASSUME NEW w, NEW E, NEW s, Truth(w, E, s), NEW e, IsClosed(w, e)
  PROVE  Knows(w, E, e) /\ life[e] # "unmade"
<1>1. ASSUME NEW x, NEW next, Counts(w, s, e, x, next)
      PROVE  FALSE
  BY <1>1 DEF Counts, IsClosed
<1>2. \A p \in PortName : EndOf(p) = e => ~AtEnd(w.ports[p])
  BY <1>1 DEF Truth, PortTrue
<1>3. \A ev \in E : ev.type = "User" =>
        \A r \in DOMAIN ev.descriptors : EndOf(r) # e
  BY <1>1 DEF Truth, EventTrue, DescriptorTrue
<1>4. life[e] # "unmade"
  BY DEF Truth, IsClosed
<1> QED BY <1>2, <1>3, <1>4 DEF Knows

\* An end that knows of its peer's closure knows the last message.
LEMMA ClosureFinished ==
  ASSUME NEW w, NEW E, NEW s, Truth(w, E, s), NEW p \in PortName,
         AtEnd(w.ports[p]), w.ports[p].peer_closed, crashed = {}
  PROVE  Finished(w, E, s, Other(EndOf(p)),
                  w.ports[p].last_sequence_num_to_receive)
<1>1. PortTrue(w, E, s, EndOf(p), w.ports[p])
  BY DEF Truth
<1>2. /\ IsClosed(w, Other(EndOf(p)))
      /\ w.ports[p].last_sequence_num_to_receive = s[Other(EndOf(p))]
  BY <1>1 DEF PortTrue, Counts, Heard
<1> QED BY <1>2, ClosedKnows DEF Finished

\* The fields of a port that is sent.
LEMMA SentPortFields ==
  ASSUME NEW port, IsPort(port), NEW p, NEW to
  PROVE  LET new == WillSendPort(port, p, to)
         IN /\ new.state = "Buffering"
            /\ new.peer_port_name = GenerateRandomPortName(p)
            /\ new.message_queue = port.message_queue
            /\ new.last_sequence_num_to_receive =
                 port.last_sequence_num_to_receive
            /\ new.remove_proxy_on_last_message =>
                 port.remove_proxy_on_last_message \/ port.peer_closed
  BY DEF WillSendPort, IsPort, Port

\* A port in ev is one of the ports Q of world w, which is sent.
Describes(w, Q, ev) ==
  \A r \in DOMAIN ev.descriptors :
    \E q \in Q : /\ r = GenerateRandomPortName(q)
                 /\ EndOf(r) = EndOf(q)
                 /\ ev.descriptors[r] = PortDescriptor(w.ports[q], q)

\* WillSendMessage_Locked: the ports Q leave in the messages U.
LEMMA TruthSend ==
  ASSUME NEW w, IsWorld(w), NEW E, NEW s, Truth(w, E, s),
         NEW Q \in SUBSET PortName, NEW to, NEW U, NEW v,
         \A q \in Q : /\ w.ports[q].state = "Receiving"
                      /\ GenerateRandomPortName(q) \in PortName
                      /\ EndOf(GenerateRandomPortName(q)) = EndOf(q),
         v.shut = w.shut, Events(v) \subseteq E \cup U,
         \A q \in Q : v.ports[q] = WillSendPort(w.ports[q], q, to),
         \A q \in PortName \ Q : v.ports[q] = w.ports[q],
         \A ev \in U : /\ ev.type = "User"
                       /\ Written(s, EndOf(ev.port_name), ev)
                       /\ Describes(w, Q, ev)
  PROVE  Truth(v, E \cup U, s)
<1> DEFINE F == E \cup U
<1>1. \A p \in PortName : PortTrue(w, E, s, EndOf(p), w.ports[p])
  BY DEF Truth
<1>2. \A q \in Q : v.ports[q].state = "Buffering"
  BY SentPortFields DEF IsWorld
<1>3. ASSUME NEW e, Knows(w, E, e)
      PROVE  Knows(v, F, e)
  <2>1. \A p \in PortName :
          EndOf(p) = e /\ AtEnd(v.ports[p]) => v.ports[p].peer_closed
    BY <1>2, <1>3 DEF Knows, AtEnd
  <2>2. ASSUME NEW ev \in U, NEW r \in DOMAIN ev.descriptors, EndOf(r) = e
        PROVE  ev.descriptors[r].peer_closed
    <3>1. PICK q \in Q : /\ EndOf(r) = EndOf(q)
                         /\ ev.descriptors[r] = PortDescriptor(w.ports[q], q)
      BY <2>2 DEF Describes
    <3>2. ev.descriptors[r].peer_closed = w.ports[q].peer_closed
      BY <3>1 DEF PortDescriptor
    <3>3. AtEnd(w.ports[q]) /\ q \in PortName
      BY DEF AtEnd
    <3> QED BY <1>3, <2>2, <3>1, <3>2, <3>3 DEF Knows
  <2> QED BY <1>3, <2>1, <2>2 DEF Knows
<1>4. ASSUME NEW e, NEW last, Finished(w, E, s, e, last)
      PROVE  Finished(v, F, s, e, last)
  BY <1>3, <1>4 DEF Finished, IsClosed
<1>5. ASSUME NEW q \in Q
      PROVE  PortTrue(v, F, s, EndOf(q), v.ports[q])
  <2> DEFINE port == w.ports[q]
             new == v.ports[q]
  <2>1. /\ new.state = "Buffering"
        /\ new.peer_port_name = GenerateRandomPortName(q)
        /\ new.message_queue = port.message_queue
        /\ new.last_sequence_num_to_receive =
             port.last_sequence_num_to_receive
        /\ new.remove_proxy_on_last_message =>
             port.remove_proxy_on_last_message \/ port.peer_closed
    BY SentPortFields DEF IsWorld
  <2>2. AtEnd(port) /\ PortTrue(w, E, s, EndOf(q), port)
    BY <1>1 DEF AtEnd
  <2>3. ASSUME crashed = {}, new.remove_proxy_on_last_message
        PROVE  Finished(v, F, s, Other(EndOf(q)),
                        new.last_sequence_num_to_receive)
    <3>1. port.peer_closed
      BY <2>1, <2>2, <2>3 DEF PortTrue
    <3> QED BY <1>4, <2>1, <2>2, <2>3, <3>1, ClosureFinished
  <2>4. \A m \in new.message_queue.heap : Written(s, EndOf(q), m)
    BY <2>1, <2>2 DEF PortTrue
  <2> HIDE DEF new, port, F
  <2> QED BY <2>1, <2>3, <2>4 DEF PortTrue, AtEnd, new
<1>6. ASSUME NEW ev \in U
      PROVE  EventTrue(v, F, s, ev)
  <2>1. ASSUME NEW r \in DOMAIN ev.descriptors
        PROVE  DescriptorTrue(v, s, r, ev.descriptors[r])
    <3>1. PICK q \in Q : /\ EndOf(r) = EndOf(q)
                         /\ ev.descriptors[r] = PortDescriptor(w.ports[q], q)
      BY DEF Describes
    <3> DEFINE port == w.ports[q]
               d == ev.descriptors[r]
    <3>2. /\ d.next_sequence_num_to_send = port.next_sequence_num_to_send
          /\ d.next_sequence_num_to_receive =
               port.message_queue.next_sequence_num
          /\ d.last_sequence_num_to_receive =
               port.last_sequence_num_to_receive
          /\ d.peer_closed = port.peer_closed
          /\ d.peer_port_name = port.peer_port_name
      BY <3>1 DEF PortDescriptor
    <3>3. /\ Counts(w, s, EndOf(q), port, port.message_queue.next_sequence_num)
          /\ port.peer_port_name \in PortName
          /\ EndOf(port.peer_port_name) = Other(EndOf(q))
      BY <1>1 DEF PortTrue, AtEnd
    <3> HIDE DEF port, d
    <3>4. Counts(v, s, EndOf(r), d, d.next_sequence_num_to_receive)
      BY <3>1, <3>2, <3>3 DEF Counts, Heard, IsClosed
    <3> QED BY <3>1, <3>2, <3>3, <3>4 DEF DescriptorTrue, d
  <2> QED BY <2>1 DEF EventTrue
<1> HIDE DEF F
<1>7. Truth(v, F, s)
  <2>1. Events(v) \subseteq F
    BY DEF F
  <2>2. \A ev \in F : EventTrue(v, F, s, ev) \/ ev \in E
    BY <1>6 DEF F
  <2>3. \A p \in PortName : \/ PortTrue(v, F, s, EndOf(p), v.ports[p])
                            \/ v.ports[p] = w.ports[p]
    BY <1>5
  <2> QED BY <1>3, <2>1, <2>2, <2>3, TruthKeep
<1> QED BY <1>7 DEF F

\* The world changes in what is not about messages.
LEMMA TruthSame ==
  ASSUME NEW w, NEW E, NEW s, Truth(w, E, s), NEW v,
         v.ports = w.ports, v.shut = w.shut, Events(v) \subseteq E
  PROVE  Truth(v, E, s)
<1>1. \A e : Knows(w, E, e) => Knows(v, E, e)
  BY DEF Knows
<1> QED BY <1>1, TruthKeep

\* The event made of message m describes the ports in it.
LEMMA UserEventDescribes ==
  ASSUME NEW w, NEW port, NEW m, NEW Q \in SUBSET PortName, m.ports \subseteq Q,
         \A q \in Q : EndOf(GenerateRandomPortName(q)) = EndOf(q)
  PROVE  LET event == UserEvent(w, port, m)
         IN /\ event.type = "User"
            /\ event.port_name = port.peer_port_name
            /\ event.sequence_num = m.sequence_num
            /\ event.body = m.body
            /\ Describes(w, Q, event)
<1> DEFINE event == UserEvent(w, port, m)
<1>1. /\ event.type = "User"
      /\ event.port_name = port.peer_port_name
      /\ event.sequence_num = m.sequence_num
      /\ event.body = m.body
      /\ DOMAIN event.descriptors = {GenerateRandomPortName(q) : q \in m.ports}
      /\ \A r \in DOMAIN event.descriptors : event.descriptors[r] =
           PortDescriptor(w.ports[Predecessor(r)], Predecessor(r))
  BY DEF UserEvent
<1> HIDE DEF event
<1>2. ASSUME NEW r \in DOMAIN event.descriptors
      PROVE  \E q \in Q : /\ r = GenerateRandomPortName(q)
                          /\ EndOf(r) = EndOf(q)
                          /\ event.descriptors[r] =
                               PortDescriptor(w.ports[q], q)
  <2>1. PICK q \in m.ports : r = GenerateRandomPortName(q)
    BY <1>1
  <2>2. Predecessor(r) = q /\ q \in Q
    BY <2>1, PredecessorOf
  <2>3. event.descriptors[r] = PortDescriptor(w.ports[q], q)
    BY <1>1, <2>2
  <2> QED BY <2>1, <2>2, <2>3
<1>3. Describes(w, Q, event)
  BY <1>2 DEF Describes
<1> QED BY <1>1, <1>3 DEF event

\* A port that forwarded keeps what it knows.
LEMMA ForwardedPortFields ==
  ASSUME NEW port, IsPort(port), NEW S, NEW fails
  PROVE  LET new == AfterForwarding(port, S, fails)
         IN /\ new.state = port.state
            /\ new.peer_node_name = port.peer_node_name
            /\ new.peer_port_name = port.peer_port_name
            /\ new.last_sequence_num_to_receive =
                 port.last_sequence_num_to_receive
            /\ new.message_queue.heap = port.message_queue.heap \ S
  BY DEF AfterForwarding, WithoutPopped, IsPort, Port

\* ForwardMessages_Locked, at a proxy.
LEMMA TruthForwardMessages ==
  ASSUME NEW w, IsWorld(w), NEW E, NEW s, Truth(w, E, s), NEW n,
         NEW p \in PortName, w.ports[p].state = "Proxying",
         NamesLeft(w.ports[p].message_queue.heap)
  PROVE  LET v == ForwardMessages(w, n, p)
         IN /\ \E F : E \subseteq F /\ Truth(v, F, s)
            /\ v.ports[p].state = "Proxying"
            /\ v.ports[p].peer_node_name = w.ports[p].peer_node_name
            /\ v.ports[p].peer_port_name = w.ports[p].peer_port_name
            /\ v.ports[p].last_sequence_num_to_receive =
                 w.ports[p].last_sequence_num_to_receive
<1> DEFINE port == w.ports[p]
           popped == Popped(w, p)
           good == {m \in popped : Sendable(w, port, m)}
           Q == {q \in PortName : \E m \in good : q \in m.ports}
           fails == ForwardFails(w, p)
           gone == \E m \in popped : \E q \in m.ports :
                     w.ports[q].state = "Absent"
           sent1 == WillSendMessages(w, port, good)
           moved == [sent1 EXCEPT !.ports[p] =
                       AfterForwarding(sent1.ports[p], popped, fails)]
           after == [sent1 EXCEPT
                       !.ports[p] = AfterForwarding(@, popped, fails),
                       !.oops = @ \/ gone]
           U == {UserEvent(w, port, m) : m \in good}
           F == E \cup U
<1>1. /\ IsPort(port)
      /\ popped \subseteq port.message_queue.heap
      /\ Cardinality(popped) \in Nat
      /\ \A m \in port.message_queue.heap : m.ports \subseteq PortName
      /\ port.message_queue.heap \subseteq QueuedMessage
  BY PoppedType DEF IsWorld, QueuedMessage, Port
<1>2. \A q \in Q : /\ w.ports[q].state = "Receiving"
                   /\ GenerateRandomPortName(q) \in PortName
                   /\ EndOf(GenerateRandomPortName(q)) = EndOf(q)
  <2> SUFFICES ASSUME NEW q \in Q
               PROVE  /\ w.ports[q].state = "Receiving"
                      /\ GenerateRandomPortName(q) \in PortName
                      /\ EndOf(GenerateRandomPortName(q)) = EndOf(q)
    OBVIOUS
  <2>1. PICK m \in good : q \in m.ports
    OBVIOUS
  <2>2. w.ports[q].state = "Receiving" /\ q[3] < MaxGen[q[1]]
    BY <1>1, <2>1 DEF Sendable, NamesLeft
  <2>3. GenerateRandomPortName(q) \in PortName
    BY <2>2, NextName
  <2> QED BY <2>2, <2>3, BelowNext
<1>3. good \in SUBSET QueuedMessage /\ NamesLeft(good)
      /\ \A m \in good : Sendable(w, port, m) /\ m.ports \subseteq Q
  BY <1>1 DEF NamesLeft
<1>4. IsWorld(sent1)
  BY <1>1, <1>3, WillSendMessagesType
<1>5. /\ sent1.net = w.net /\ sent1.shut = w.shut
      /\ \A q \in PortName : sent1.ports[q] =
           IF q \in Q THEN WillSendPort(w.ports[q], q, port.peer_node_name)
                      ELSE w.ports[q]
  BY DEF WillSendMessages, IsWorld
<1>6. PortTrue(w, E, s, EndOf(p), port)
  BY DEF Truth
<1>7. \A ev \in U : /\ ev.type = "User"
                    /\ Written(s, EndOf(ev.port_name), ev)
                    /\ Describes(w, Q, ev)
  <2> SUFFICES ASSUME NEW m \in good
               PROVE  LET ev == UserEvent(w, port, m)
                      IN /\ ev.type = "User"
                         /\ Written(s, EndOf(ev.port_name), ev)
                         /\ Describes(w, Q, ev)
    OBVIOUS
  <2> DEFINE ev == UserEvent(w, port, m)
  <2>1. m.ports \subseteq Q /\ m \in port.message_queue.heap
    BY <1>1, <1>3
  <2>2. Written(s, EndOf(p), m) /\ EndOf(port.peer_port_name) = EndOf(p)
    BY <1>6, <2>1 DEF PortTrue
  <2> HIDE DEF Q, port, good
  <2>3. /\ ev.type = "User" /\ ev.port_name = port.peer_port_name
        /\ ev.sequence_num = m.sequence_num /\ ev.body = m.body
        /\ Describes(w, Q, ev)
    <3>1. Q \in SUBSET PortName
      BY DEF Q
    <3> QED BY <1>2, <2>1, <3>1, UserEventDescribes
  <2> QED BY <2>2, <2>3 DEF Written
<1> HIDE DEF Q, sent1, U, good
<1>8. Truth(sent1, F, s)
  <2>1. Events(sent1) \subseteq E \cup U
    BY <1>5 DEF Events, Truth
  <2>2. Q \in SUBSET PortName
    BY DEF Q
  <2>3. /\ \A q \in Q : sent1.ports[q] =
             WillSendPort(w.ports[q], q, port.peer_node_name)
        /\ \A q \in PortName \ Q : sent1.ports[q] = w.ports[q]
    BY <1>5, <2>2
  <2> DEFINE to == port.peer_node_name
  <2> HIDE DEF to
  <2>4. \A q \in Q : sent1.ports[q] = WillSendPort(w.ports[q], q, to)
    BY <2>3 DEF to
  <2> QED BY <1>2, <1>5, <1>7, <2>1, <2>2, <2>3, <2>4, TruthSend
<1>9. p \notin Q /\ sent1.ports[p] = port
  BY <1>2, <1>5
<1> HIDE DEF F, fails, popped
<1>10. /\ IsPort(AfterForwarding(port, popped, fails))
       /\ moved.ports[p] = AfterForwarding(port, popped, fails)
       /\ moved.net = w.net /\ moved.shut = w.shut
  BY <1>1, <1>4, <1>5, <1>9, AfterForwardingType DEF IsWorld
<1> DEFINE new == AfterForwarding(port, popped, fails)
<1>11. /\ new.state = "Proxying"
       /\ new.peer_node_name = port.peer_node_name
       /\ new.peer_port_name = port.peer_port_name
       /\ new.last_sequence_num_to_receive = port.last_sequence_num_to_receive
       /\ new.message_queue.heap \subseteq port.message_queue.heap
  BY <1>1, ForwardedPortFields
<1> HIDE DEF new
<1>12. PortTrue(sent1, F, s, EndOf(p), new) /\ ~AtEnd(new)
  <2>1. PortTrue(sent1, F, s, EndOf(p), port)
    BY <1>8, <1>9 DEF Truth
  <2> QED BY <1>11, <2>1 DEF PortTrue, AtEnd
<1>13. moved = [sent1 EXCEPT !.ports[p] = new]
  BY <1>9 DEF new
<1>14. IsWorld(moved) /\ Truth(moved, F, s)
  <2>1. IsPort(new)
    BY <1>10 DEF new
  <2> HIDE DEF moved
  <2> QED BY <1>4, <1>8, <1>12, <1>13, <2>1, WithPort, TruthPort
<1>15. after = [moved EXCEPT !.oops = @ \/ gone]
  <2> HIDE DEF gone
  <2>1. moved.oops = sent1.oops
    BY <1>4 DEF IsWorld
  <2> QED BY <2>1, Zenon
<1> HIDE DEF gone
<1>16. IsWorld(after)
  <2>1. moved.oops \in BOOLEAN
    BY <1>14 DEF IsWorld
  <2> HIDE DEF moved, after
  <2>2. (moved.oops \/ gone) \in BOOLEAN
    BY <2>1
  <2> QED BY <1>14, <1>15, <2>2, OopsType
<1>17. after.ports = moved.ports /\ after.net = moved.net
       /\ after.shut = moved.shut
  <2> DEFINE o == moved.oops \/ gone
  <2>1. after = [moved EXCEPT !.oops = o]
    BY <1>15
  <2> HIDE DEF o, after, moved
  <2> QED BY <1>14, <2>1 DEF IsWorld
<1>18. ForwardMessages(w, n, p) =
         ForwardAll(after, n, port.peer_node_name, U)
  BY DEF ForwardMessages, popped, fails, gone, U, good, sent1
<1> HIDE DEF moved, after
<1>19. Truth(after, F, s)
  BY <1>14, <1>17, TruthSame DEF Events, Truth
<1> DEFINE v == ForwardAll(after, n, port.peer_node_name, U)
<1>20. /\ v.ports = after.ports /\ v.shut = after.shut
       /\ Events(v) \subseteq Events(after) \cup U
  BY <1>16, ForwardAllEvents
<1> HIDE DEF v
<1>21. Truth(v, F, s)
  <2>1. Events(v) \subseteq F
    BY <1>19, <1>20 DEF Truth, F
  <2> QED BY <1>19, <1>20, <2>1, TruthSame
<1>22. v.ports[p] = new
  BY <1>10, <1>17, <1>20 DEF new
<1>23. E \subseteq F
  BY DEF F
<1>24. ForwardMessages(w, n, p) = v
  BY <1>18 DEF v
<1> HIDE DEF port
<1>25. \E G : E \subseteq G /\ Truth(v, G, s)
  BY <1>21, <1>23
<1> QED BY <1>11, <1>22, <1>24, <1>25 DEF port

\* A handler that hits an OOPS does nothing else.
LEMMA TruthOops ==
  ASSUME NEW w, IsWorld(w), NEW E, NEW s, Truth(w, E, s)
  PROVE  Truth([w EXCEPT !.oops = TRUE], E, s)
<1> DEFINE v == [w EXCEPT !.oops = TRUE]
<1>1. v.ports = w.ports /\ v.shut = w.shut /\ v.net = w.net
  BY DEF IsWorld
<1> HIDE DEF v
<1>2. Events(v) \subseteq E
  BY <1>1 DEF Events, Truth
<1>3. Truth(v, E, s)
  BY <1>1, <1>2, TruthSame
<1> QED BY <1>3 DEF v

\* PortStatusChanged.
LEMMA TruthNotified ==
  ASSUME NEW w, IsWorld(w), NEW E, NEW s, Truth(w, E, s), NEW p
  PROVE  Truth(PortStatusChanged(w, p), E, s)
<1> DEFINE v == PortStatusChanged(w, p)
<1>1. v.ports = w.ports /\ v.shut = w.shut /\ v.net = w.net
  BY DEF IsWorld, PortStatusChanged
<1> HIDE DEF v
<1>2. Events(v) \subseteq E
  BY <1>1 DEF Events, Truth
<1>3. Truth(v, E, s)
  BY <1>1, <1>2, TruthSame
<1> QED BY <1>3 DEF v

\* A proxy forwards what it can.
LEMMA TruthForwardAsProxy ==
  ASSUME NEW w, IsWorld(w), NEW E, NEW s, Truth(w, E, s), NEW n \in Nodes,
         NEW p \in PortName, w.ports[p].state = "Proxying",
         NamesLeft(w.ports[p].message_queue.heap)
  PROVE  \E F : Truth(ForwardAsProxy(w, n, p), F, s)
<1> DEFINE v == ForwardMessages(w, n, p)
<1>1. IsWorld(v)
  BY ForwardMessagesType
<1>2. PICK F : Truth(v, F, s)
  BY TruthForwardMessages
<1>3. ForwardAsProxy(w, n, p) \in {v, MaybeRemoveProxy(v, n, p)}
  BY DEF ForwardAsProxy
<1> HIDE DEF v
<1>4. \E G : Truth(MaybeRemoveProxy(v, n, p), G, s)
  BY <1>1, <1>2, TruthMaybeRemoveProxy
<1> QED BY <1>2, <1>3, <1>4

\* OnPortAccepted.
LEMMA TruthOnPortAccepted ==
  ASSUME NEW w, IsWorld(w), NEW E, NEW s, Truth(w, E, s), NEW n \in Nodes,
         NEW p \in PortName, NamesLeft(w.ports[p].message_queue.heap)
  PROVE  \E F : Truth(OnPortAccepted(w, n, p), F, s)
<1>1. CASE ~Exists(w, n, p) \/ w.ports[p].state # "Buffering"
  <2>1. OnPortAccepted(w, n, p) = [w EXCEPT !.oops = TRUE]
    BY <1>1 DEF OnPortAccepted
  <2> QED BY <2>1, TruthOops
<1>2. CASE Exists(w, n, p) /\ w.ports[p].state = "Buffering"
  <2> DEFINE port == w.ports[p]
             new == [port EXCEPT !.state = "Proxying"]
             proxying == StartProxying(w, p)
             forwarded == ForwardMessages(proxying, n, p)
             ev == ObserveClosureEvent(port.peer_port_name,
                                       port.last_sequence_num_to_receive)
             G == IF port.remove_proxy_on_last_message THEN E \cup {ev} ELSE E
  <2>1. PortTrue(w, E, s, EndOf(p), port) /\ IsPort(port)
    BY DEF Truth, IsWorld
  <2>2. EndOf(port.peer_port_name) = EndOf(p)
    BY <1>2, <2>1 DEF PortTrue
  <2>3. Truth(w, G, s)
    <3>1. CASE port.remove_proxy_on_last_message
      <4>1. ev.type # "User"
        BY DEF ObserveClosureEvent
      <4>2. EventTrue(w, E, s, ev)
        BY <1>2, <2>1, <2>2, <3>1 DEF PortTrue, EventTrue, ObserveClosureEvent
      <4>3. Events(w) \subseteq E \cup {ev}
        BY DEF Truth
      <4> HIDE DEF ev
      <4>4. Truth(w, E \cup {ev}, s)
        BY <4>1, <4>2, <4>3, TruthSay
      <4> QED BY <3>1, <4>4
    <3>2. CASE ~port.remove_proxy_on_last_message
      BY <3>2
    <3> QED BY <3>1, <3>2
  <2> HIDE DEF G, ev
  <2>4. /\ IsPort(new)
        /\ new.state = "Proxying"
        /\ new.message_queue = port.message_queue
        /\ new.peer_node_name = port.peer_node_name
        /\ new.peer_port_name = port.peer_port_name
        /\ new.last_sequence_num_to_receive =
             port.last_sequence_num_to_receive
    BY <1>2, <2>1 DEF IsPort, Port, States, HasPeerName
  <2>5. proxying = [w EXCEPT !.ports[p] = new]
    BY DEF StartProxying
  <2> HIDE DEF new, proxying
  <2>6. IsWorld(proxying) /\ proxying.ports[p] = new
    <3>1. IsWorld(proxying) /\ proxying.ports = [w.ports EXCEPT ![p] = new]
      BY <2>4, <2>5, WithPort
    <3> QED BY <3>1 DEF IsWorld
  <2>7. PortTrue(w, G, s, EndOf(p), new) /\ ~AtEnd(new)
    <3>1. PortTrue(w, G, s, EndOf(p), port)
      BY <2>3 DEF Truth
    <3> QED BY <1>2, <2>4, <3>1 DEF PortTrue, AtEnd
  <2>8. Truth(proxying, G, s)
    BY <2>3, <2>5, <2>7, TruthPort
  <2>9. NamesLeft(proxying.ports[p].message_queue.heap)
    BY <2>4, <2>6
  <2>10. /\ \E F : G \subseteq F /\ Truth(forwarded, F, s)
         /\ forwarded.ports[p].state = "Proxying"
         /\ forwarded.ports[p].peer_node_name = port.peer_node_name
         /\ forwarded.ports[p].peer_port_name = port.peer_port_name
         /\ forwarded.ports[p].last_sequence_num_to_receive =
              port.last_sequence_num_to_receive
    BY <2>4, <2>6, <2>8, <2>9, TruthForwardMessages
  <2>11. IsWorld(forwarded)
    BY <2>6, <2>9, ForwardMessagesType
  <2>12. OnPortAccepted(w, n, p) =
           IF ForwardFails(proxying, p)
           THEN forwarded
           ELSE IF port.remove_proxy_on_last_message
           THEN RemoveAtOnce(forwarded, n, p)
           ELSE InitiateProxyRemoval(forwarded, n, p)
    BY <1>2 DEF OnPortAccepted, proxying
  <2> HIDE DEF forwarded
  <2>13. PICK F : G \subseteq F /\ Truth(forwarded, F, s)
    BY <2>10
  <2>14. \E H : Truth(InitiateProxyRemoval(forwarded, n, p), H, s)
    BY <2>10, <2>11, <2>13, TruthInitiateProxyRemoval
  <2>15. ASSUME port.remove_proxy_on_last_message
         PROVE  \E H : Truth(RemoveAtOnce(forwarded, n, p), H, s)
    <3> DEFINE rest == MaybeRemoveProxy(forwarded, n, p)
    <3>1. PICK H : F \subseteq H /\ Truth(rest, H, s)
      BY <2>11, <2>13, TruthMaybeRemoveProxy
    <3>2. IsWorld(rest)
      BY <2>11, MaybeRemoveProxyType
    <3>3. ev \in H
      BY <2>13, <2>15, <3>1 DEF G
    <3>4. RemoveAtOnce(forwarded, n, p) =
            ForwardMessage(rest, n, port.peer_node_name, ev)
      BY <2>10 DEF RemoveAtOnce, ForwardClosure, ev
    <3> HIDE DEF rest
    <3> QED BY <3>1, <3>2, <3>3, <3>4, TruthForward
  <2> QED BY <2>12, <2>13, <2>14, <2>15
<1> QED BY <1>1, <1>2

\* Two ports that agree on what Truth is about.
SameTruth(port, new) ==
  /\ new.state = port.state
  /\ new.peer_node_name = port.peer_node_name
  /\ new.peer_port_name = port.peer_port_name
  /\ new.message_queue = port.message_queue
  /\ new.next_sequence_num_to_send = port.next_sequence_num_to_send
  /\ new.last_sequence_num_to_receive = port.last_sequence_num_to_receive
  /\ new.remove_proxy_on_last_message = port.remove_proxy_on_last_message
  /\ new.peer_closed = port.peer_closed

\* A port changes in what is not about messages.
LEMMA TruthQuiet ==
  ASSUME NEW w, NEW E, NEW s, NEW e, NEW port, PortTrue(w, E, s, e, port),
         NEW new, SameTruth(port, new)
  PROVE  /\ PortTrue(w, E, s, e, new)
         /\ AtEnd(new) => AtEnd(port) /\ (port.peer_closed => new.peer_closed)
  BY DEF PortTrue, SameTruth, AtEnd, Counts, Heard

\* OnObserveProxy.
LEMMA TruthOnObserveProxy ==
  ASSUME NEW w, IsWorld(w), NEW E, NEW s, Truth(w, E, s), NEW n \in Nodes,
         NEW event \in InternalEvent, event.type = "ObserveProxy", event \in E
  PROVE  \E F : Truth(OnObserveProxy(w, n, event), F, s)
<1> DEFINE p == event.port_name
           port == w.ports[p]
           again == [event EXCEPT !.port_name = port.peer_port_name]
<1>1. /\ p \in PortName
      /\ event.proxy_to_node_name \in Nodes
      /\ event.proxy_to_port_name \in PortName
      /\ event.proxy_node_name \in Nodes
      /\ event.proxy_port_name \in PortName
  BY ObserveProxyFields
<1>2. IsPort(port) /\ PortTrue(w, E, s, EndOf(p), port)
  BY <1>1 DEF IsWorld, Truth
<1>3. EndOf(event.proxy_to_port_name) = EndOf(event.proxy_port_name)
  BY DEF Truth, EventTrue
<1>4. \E F : Truth(ForwardMessage(w, n, port.peer_node_name, again), F, s)
  <2>1. /\ again.type = "ObserveProxy"
        /\ again.proxy_to_port_name = event.proxy_to_port_name
        /\ again.proxy_port_name = event.proxy_port_name
    BY ObserveProxyFields
  <2> HIDE DEF again
  <2>2. again.type # "User" /\ EventTrue(w, E, s, again)
    BY <1>3, <2>1 DEF EventTrue
  <2> QED BY <2>2, TruthForward
<1>5. ASSUME port.state = "Receiving",
             port.peer_port_name = event.proxy_port_name
      PROVE  \E F : Truth(SkipProxy(w, n, event), F, s)
  <2> DEFINE new == [port EXCEPT !.peer_node_name = event.proxy_to_node_name,
                                 !.peer_port_name = event.proxy_to_port_name]
             skipped ==
               [w EXCEPT !.ports[p].peer_node_name = event.proxy_to_node_name,
                         !.ports[p].peer_port_name = event.proxy_to_port_name]
             ack == ObserveProxyAckEvent(event.proxy_port_name,
                                         port.next_sequence_num_to_send - 1)
  <2>1. skipped = [w EXCEPT !.ports[p] = new]
    BY <1>1, <1>2 DEF IsWorld, IsPort, Port
  <2>2. /\ IsPort(new)
        /\ new.peer_port_name = event.proxy_to_port_name
        /\ new.state = port.state
        /\ new.message_queue = port.message_queue
        /\ new.next_sequence_num_to_send = port.next_sequence_num_to_send
        /\ new.last_sequence_num_to_receive = port.last_sequence_num_to_receive
        /\ new.remove_proxy_on_last_message = port.remove_proxy_on_last_message
        /\ new.peer_closed = port.peer_closed
    <3> HIDE DEF port
    <3> QED BY <1>1, <1>2 DEF IsPort, Port, HasPeerName
  <2>3. EndOf(new.peer_port_name) = EndOf(port.peer_port_name)
    BY <1>3, <1>5, <2>2
  <2> HIDE DEF new, skipped, port
  <2>4. /\ PortTrue(w, E, s, EndOf(p), new)
        /\ AtEnd(port)
        /\ port.peer_closed => new.peer_closed
    BY <1>1, <1>2, <1>5, <2>2, <2>3 DEF PortTrue, AtEnd, Counts, Heard
  <2>5. Truth(skipped, E, s) /\ IsWorld(skipped)
    BY <1>1, <2>1, <2>2, <2>4, TruthPort, WithPort DEF port
  <2>6. ack.type # "User" /\ EventTrue(skipped, E, s, ack)
    BY AnswerTrue
  <2> HIDE DEF ack
  <2>7. \E F : Truth(ForwardMessage(skipped, n, event.proxy_node_name, ack),
                     F, s)
    BY <2>5, <2>6, TruthForward
  <2> QED BY <2>7 DEF SkipProxy, skipped, ack, port
<1>6. Truth(DelayAck(w, n, event), E, s)
  <2> DEFINE new == [port EXCEPT
                       !.send_on_proxy_removal = event.proxy_port_name,
                       !.ack_node = event.proxy_node_name]
  <2>1. DelayAck(w, n, event) = [w EXCEPT !.ports[p] = new]
    BY <1>1, <1>2 DEF DelayAck, IsWorld, IsPort, Port
  <2>2. SameTruth(port, new)
    <3> HIDE DEF port
    <3> QED BY <1>2 DEF IsPort, Port, SameTruth
  <2> HIDE DEF new
  <2>3. /\ PortTrue(w, E, s, EndOf(p), new)
        /\ AtEnd(new) => /\ AtEnd(port)
                         /\ port.peer_closed => new.peer_closed
    BY <1>2, <2>2, TruthQuiet
  <2> QED BY <1>1, <2>1, <2>3, TruthPort
<1> QED BY <1>4, <1>5, <1>6 DEF OnObserveProxy, again

\* OnObserveProxyAck.
LEMMA TruthOnObserveProxyAck ==
  ASSUME NEW w, IsWorld(w), NEW E, NEW s, Truth(w, E, s), NEW n \in Nodes,
         NEW event \in InternalEvent, event.type = "ObserveProxyAck"
  PROVE  \E F : Truth(OnObserveProxyAck(w, n, event), F, s)
<1> DEFINE p == event.port_name
           last == event.last_sequence_num
           port == w.ports[p]
           new == [port EXCEPT !.remove_proxy_on_last_message = TRUE,
                               !.last_sequence_num_to_receive = last]
           expects == [w EXCEPT !.ports[p].remove_proxy_on_last_message = TRUE,
                                !.ports[p].last_sequence_num_to_receive = last]
<1>1. p \in PortName /\ last \in Int
  BY LastFields
<1>2. IsPort(port) /\ PortTrue(w, E, s, EndOf(p), port)
  BY <1>1 DEF IsWorld, Truth
<1>3. ASSUME port.state = "Proxying"
      PROVE  \E F : Truth(ExpectLast(w, n, p, last), F, s)
  <2>1. expects = [w EXCEPT !.ports[p] = new]
    BY <1>1, <1>2 DEF IsWorld, IsPort, Port
  <2>2. /\ IsPort(new)
        /\ new.state = port.state
        /\ new.message_queue = port.message_queue
        /\ new.peer_port_name = port.peer_port_name
    <3> HIDE DEF port, last
    <3> QED BY <1>1, <1>2 DEF IsPort, Port, HasPeerName
  <2> HIDE DEF new, expects
  <2>3. PortTrue(w, E, s, EndOf(p), new) /\ ~AtEnd(new)
    BY <1>2, <1>3, <2>2 DEF PortTrue, AtEnd
  <2>4. Truth(expects, E, s) /\ IsWorld(expects)
    BY <1>1, <2>1, <2>2, <2>3, TruthPort, WithPort
  <2> QED BY <1>1, <2>4, TruthMaybeRemoveProxy DEF ExpectLast, expects
<1>4. ASSUME port.state = "Proxying"
      PROVE  \E F : Truth(InitiateProxyRemoval(w, n, p), F, s)
  BY <1>1, <1>4, TruthInitiateProxyRemoval
<1>5. Truth([w EXCEPT !.oops = TRUE], E, s)
  BY TruthOops
<1> QED BY <1>3, <1>4, <1>5 DEF OnObserveProxyAck

\* An end of a pipe that exists is the only one: no other port is that end,
\* and no user message in flight carries it.
LEMMA EndAlone ==
  ASSUME NEW w, IsWorld(w), NEW hand, Good(w, hand), NEW p \in PortName,
         AtEnd(w.ports[p])
  PROVE  /\ \A q \in PortName :
              EndOf(q) = EndOf(p) /\ AtEnd(w.ports[q]) => q = p
         /\ \A ev \in Events(w) : ev.type = "User" =>
              \A r \in DOMAIN ev.descriptors : EndOf(r) # EndOf(p)
<1>1. \A q \in PortName : EndOf(q) = EndOf(p) =>
        q = p \/ Below(q, p) \/ Below(p, q)
  <2> SUFFICES ASSUME NEW q \in PortName, EndOf(q) = EndOf(p), q # p
               PROVE  q[3] < p[3] \/ p[3] < q[3]
    BY DEF Below
  <2>1. q[1] = p[1] /\ q[2] = p[2]
    BY DEF EndOf
  <2>2. q[3] # p[3]
    BY <2>1, NameParts
  <2>3. p[3] \in Int /\ q[3] \in Int
    BY NameParts, MaxGenAssumption
  <2> QED BY <2>2, <2>3
<1>2. \A q \in PortName : PortStatus(w, hand, q)
  BY DEF Good, Status
<1>3. \A q \in PortName : AtEnd(w.ports[q]) => Front(w, hand, q)
  BY DEF AtEnd, Front
<1>4. \A f, r \in PortName : Below(f, r) /\ Front(w, hand, f) =>
        /\ w.ports[r].state = "Absent"
        /\ ~Claimed(w, hand, "flight", r)
  BY <1>2 DEF PortStatus, Fresh
<1>5. \A q \in PortName :
        EndOf(q) = EndOf(p) /\ AtEnd(w.ports[q]) => q = p
  BY <1>1, <1>3, <1>4 DEF AtEnd
<1>6. ASSUME NEW ev \in Events(w), ev.type = "User",
             NEW r \in DOMAIN ev.descriptors, EndOf(r) = EndOf(p)
      PROVE  FALSE
  <2>1. PICK m \in DOMAIN w.net : ev = m.event
    BY DEF Events
  <2>2. IsEnvelope(m)
    BY DEF IsWorld, IsNet
  <2>3. r \in PortName
    BY <1>6, <2>1, <2>2 DEF IsEnvelope, IsUserEvent, InternalEvent
  <2>4. Claims(ev, "flight", r)
    BY <1>6 DEF Claims
  <2>5. Claimed(w, hand, "flight", r)
    BY <2>1, <2>4 DEF Claimed, InNet
  <2>6. Front(w, hand, r)
    BY <2>5 DEF Front
  <2>7. w.ports[r].state = "Absent"
    BY <1>2, <2>3, <2>5 DEF PortStatus
  <2> QED BY <1>1, <1>3, <1>4, <1>6, <2>3, <2>5, <2>6, <2>7 DEF AtEnd
<1> QED BY <1>5, <1>6

\* OnObserveClosure.
LEMMA TruthOnObserveClosure ==
  ASSUME NEW w, IsWorld(w), NEW E, NEW s \in [End -> Nat], Truth(w, E, s),
         NEW hand, Good(w, hand), NEW n \in Nodes,
         NEW event \in InternalEvent, event.type = "ObserveClosure",
         event \in E, E \subseteq Events(w) \cup {event}
  PROVE  \E F : Truth(OnObserveClosure(w, n, event), F, s)
<1> DEFINE p == event.port_name
           e == EndOf(p)
           last == event.last_sequence_num
           port == w.ports[p]
           flag == port.remove_proxy_on_last_message \/ port.state # "Receiving"
           new == [port EXCEPT !.peer_closed = TRUE,
                               !.last_sequence_num_to_receive = last,
                               !.remove_proxy_on_last_message = flag]
           closed == PeerClosed(w, p, last)
           on == ObserveClosureEvent(port.peer_port_name, last)
           G == E \cup {on}
<1>1. p \in PortName /\ last \in Int
  BY LastFields
<1>2. IsPort(port) /\ PortTrue(w, E, s, e, port)
  BY <1>1 DEF IsWorld, Truth
<1>3. closed = [w EXCEPT !.ports[p] = new]
  BY <1>1, <1>2 DEF PeerClosed, IsWorld, IsPort, Port
<1>4. flag \in BOOLEAN
  OBVIOUS
<1>5. e \in End /\ Other(e) \in End /\ Other(Other(e)) = e
  BY <1>1, EndOfType, EndParts, OtherOther
<1>6. flag = (port.remove_proxy_on_last_message \/ port.state # "Receiving")
  OBVIOUS
<1> HIDE DEF flag
<1>7. /\ IsPort(new)
      /\ new.state = port.state
      /\ new.message_queue = port.message_queue
      /\ new.peer_node_name = port.peer_node_name
      /\ new.peer_port_name = port.peer_port_name
      /\ new.next_sequence_num_to_send = port.next_sequence_num_to_send
      /\ new.last_sequence_num_to_receive = last
      /\ new.peer_closed = TRUE
  <2> HIDE DEF port, last
  <2> QED BY <1>1, <1>2, <1>4 DEF IsPort, Port, HasPeerName
<1> HIDE DEF new, closed
<1>8. crashed = {} => Finished(w, E, s, Other(e), last)
  BY DEF Truth, EventTrue
<1>9. ASSUME AtEnd(port), crashed = {}
      PROVE  IsClosed(w, Other(e))
  <2>1. ~IsClosed(w, e)
    BY <1>2, <1>9 DEF PortTrue, Counts, IsClosed
  <2> QED BY <1>5, <1>8, <1>9, <2>1 DEF Finished
<1>10. PortTrue(w, E, s, e, new)
  <2>1. AtEnd(new) => AtEnd(port)
    BY <1>7 DEF AtEnd
  <2>2. AtEnd(port) =>
          Counts(w, s, e, new, new.message_queue.next_sequence_num)
    <3>1. crashed = {} => last = s[Other(e)]
      BY <1>8 DEF Finished
    <3>2. AtEnd(port) => 
            Counts(w, s, e, port, port.message_queue.next_sequence_num)
      BY <1>2 DEF PortTrue
    <3> HIDE DEF port, e, last
    <3> QED BY <1>7, <1>9, <3>1, <3>2 DEF Counts, Heard
  <2> HIDE DEF port, e, last
  <2> QED BY <1>2, <1>7, <1>8, <2>1, <2>2 DEF PortTrue
<1>11. AtEnd(new) => AtEnd(port) /\ (port.peer_closed => new.peer_closed)
  BY <1>7 DEF AtEnd
<1>12. IsWorld(closed) /\ Truth(closed, E, s)
  BY <1>1, <1>3, <1>7, <1>10, <1>11, TruthPort, WithPort
<1>13. closed.ports[p] = new /\ closed.shut = w.shut
       /\ \A q \in PortName : q # p => closed.ports[q] = w.ports[q]
  BY <1>1, <1>3 DEF IsWorld
<1>14. ASSUME port.state = "Receiving"
       PROVE  \E F : Truth(PortStatusChanged(
                 ForwardClosure(closed, n, port,
                                port.next_sequence_num_to_send - 1), p), F, s)
  <2> DEFINE mine == port.next_sequence_num_to_send - 1
             told == ForwardClosure(closed, n, port, mine)
  <2>1. AtEnd(port) /\ EndOf(port.peer_port_name) = Other(e)
    BY <1>2, <1>14 DEF AtEnd, PortTrue
  <2>2. mine = s[e] /\ life[e] = "open" /\ mine \in Int
    <3>1. port.next_sequence_num_to_send = s[e] + 1 /\ life[e] = "open"
      BY <1>2, <2>1 DEF PortTrue, Counts
    <3>2. s[e] \in Nat
      BY <1>5
    <3> HIDE DEF port, e
    <3> QED BY <3>1, <3>2
  <2>3. Knows(closed, E, e)
    <3>1. /\ \A q \in PortName : EndOf(q) = e /\ AtEnd(w.ports[q]) => q = p
          /\ \A ev \in Events(w) : ev.type = "User" =>
               \A r \in DOMAIN ev.descriptors : EndOf(r) # e
      BY <1>1, <2>1, EndAlone
    <3>2. \A ev \in E : ev.type = "User" =>
            \A r \in DOMAIN ev.descriptors : EndOf(r) # e
      BY <3>1
    <3> QED BY <1>7, <1>13, <3>1, <3>2 DEF Knows
  <2>4. crashed = {} => Finished(closed, E, s, e, mine)
    <3>1. crashed = {} => IsClosed(closed, Other(e))
      BY <1>9, <1>13, <2>1 DEF IsClosed
    <3> QED BY <2>2, <2>3, <3>1 DEF Finished
  <2> HIDE DEF mine
  <2>5. \E F : Truth(told, F, s)
    <3> DEFINE f == Other(e)
    <3>1. Other(f) = e /\ EndOf(port.peer_port_name) = f
      BY <1>5, <2>1
    <3> HIDE DEF f, e, port
    <3> QED BY <1>12, <2>4, <3>1, TruthForwardClosure
  <2>6. IsWorld(told)
    BY <1>2, <1>12, <2>2, ForwardClosureType
  <2> HIDE DEF told
  <2>7. \E F : Truth(PortStatusChanged(told, p), F, s)
    BY <2>5, <2>6, TruthNotified
  <2> QED BY <2>7 DEF told, mine
<1>15. ASSUME port.state \in {"Buffering", "Proxying"}
       PROVE  /\ \E F : Truth(ForwardClosure(closed, n, port, last), F, s)
              /\ \E F : Truth(ForwardClosure(MaybeRemoveProxy(closed, n, p),
                                             n, port, last), F, s)
  <2>1. EndOf(port.peer_port_name) = e
    BY <1>2, <1>15 DEF PortTrue
  <2>2. on.type # "User" /\ EventTrue(closed, E, s, on)
    <3>1. crashed = {} => Finished(closed, E, s, Other(e), last)
      <4>1. EventTrue(closed, E, s, event)
        BY <1>12 DEF Truth
      <4> QED BY <4>1 DEF EventTrue
    <3> QED BY <2>1, <3>1 DEF EventTrue, ObserveClosureEvent
  <2>3. Events(closed) \subseteq G
    BY <1>12 DEF Truth
  <2> DEFINE rest == MaybeRemoveProxy(closed, n, p)
  <2>4. \A x : ForwardClosure(x, n, port, last) =
                 ForwardMessage(x, n, port.peer_node_name, on)
    BY DEF ForwardClosure
  <2> HIDE DEF on, port
  <2>5. Truth(closed, G, s)
    BY <1>12, <2>2, <2>3, TruthSay
  <2> HIDE DEF G
  <2>6. PICK F : G \subseteq F /\ Truth(rest, F, s)
    BY <1>1, <1>12, <2>5, TruthMaybeRemoveProxy
  <2>7. on \in G /\ on \in F
    BY <2>6 DEF G
  <2>8. IsWorld(rest)
    BY <1>1, <1>12, MaybeRemoveProxyType
  <2> HIDE DEF rest
  <2>9. /\ \E H : Truth(ForwardMessage(closed, n, port.peer_node_name, on),
                        H, s)
        /\ \E H : Truth(ForwardMessage(rest, n, port.peer_node_name, on),
                        H, s)
    BY <1>12, <2>5, <2>6, <2>7, <2>8, TruthForward
  <2> QED BY <2>4, <2>9 DEF rest
<1>16. ASSUME port.state = "Uninitialized"
       PROVE  \E F : Truth(ForwardClosure(closed, n, port, last), F, s)
  <2>1. port.peer_node_name = NoNode
    BY <1>2, <1>16 DEF PortTrue
  <2> HIDE DEF port, e, last
  <2> QED BY <1>12, <2>1, TruthForwardClosure
<1>17. port.state \in {"Absent", "Uninitialized", "Receiving", "Buffering",
                       "Proxying"}
  BY <1>2 DEF IsPort, Port, States
<1>18. Exists(w, n, p) => port.state # "Absent"
  BY DEF Exists
<1> HIDE DEF port
<1> QED
  BY <1>14, <1>15, <1>16, <1>17, <1>18 DEF OnObserveClosure, port, closed

\* Ends are closed: their ports go, and their peers are told.
LEMMA TruthShut ==
  ASSUME NEW w, IsWorld(w), NEW s \in [End -> Nat], Truth(w, Events(w), s),
         NEW hand, Good(w, hand), NEW closing \in SUBSET PortName,
         \A q \in closing : AtEnd(w.ports[q]), NEW v, NEW C,
         \A q \in closing : v.ports[q] = AbsentPort,
         \A q \in PortName \ closing : v.ports[q] = w.ports[q],
         v.shut = w.shut \cup {EndOf(q) : q \in closing},
         Events(v) \subseteq Events(w) \cup C,
         \A ev \in C : \E q \in closing :
           /\ w.ports[q].state = "Receiving"
           /\ ev = ObserveClosureEvent(w.ports[q].peer_port_name,
                     w.ports[q].next_sequence_num_to_send - 1)
  PROVE  Truth(v, Events(w) \cup C, s)
<1> DEFINE E == Events(w)
           F == E \cup C
<1>1. \A p \in PortName : PortTrue(w, E, s, EndOf(p), w.ports[p])
  BY DEF Truth
<1>2. \A q \in closing :
        Counts(w, s, EndOf(q), w.ports[q],
               w.ports[q].message_queue.next_sequence_num)
  BY <1>1 DEF PortTrue
<1>3. \A e \in v.shut : life[e] = "open"
  BY <1>2 DEF Truth, Counts
<1>4. \A ev \in C : ev.type = "ObserveClosure"
  BY DEF ObserveClosureEvent
<1>5. ASSUME NEW e, Knows(w, E, e)
      PROVE  Knows(v, F, e)
  BY <1>4, <1>5, AbsentTrue DEF Knows
<1>6. ASSUME NEW p \in PortName, p \notin closing, AtEnd(w.ports[p])
      PROVE  EndOf(p) \notin v.shut
  <2>1. EndOf(p) \notin w.shut
    BY <1>1, <1>6 DEF PortTrue, Counts
  <2>2. \A q \in closing : EndOf(p) # EndOf(q)
    BY <1>6, EndAlone
  <2> QED BY <2>1, <2>2
<1>7. ASSUME NEW ev \in E, ev.type = "User", NEW r \in DOMAIN ev.descriptors
      PROVE  EndOf(r) \notin v.shut
  <2>1. EndOf(r) \notin w.shut
    BY <1>7 DEF Truth, EventTrue, DescriptorTrue, Counts
  <2>2. \A q \in closing : EndOf(r) # EndOf(q)
    BY <1>7, EndAlone
  <2> QED BY <2>1, <2>2
<1>8. ASSUME NEW q \in closing
      PROVE  Knows(v, F, EndOf(q))
  <2>1. \A p \in PortName : EndOf(p) = EndOf(q) => ~AtEnd(v.ports[p])
    BY <1>6, AbsentTrue
  <2>2. \A ev \in E : ev.type = "User" =>
          \A r \in DOMAIN ev.descriptors : EndOf(r) # EndOf(q)
    BY <1>7
  <2> QED BY <1>4, <2>1, <2>2 DEF Knows
<1>9. ASSUME NEW ev \in C
      PROVE  EventTrue(v, F, s, ev)
  <2>1. PICK q \in closing :
          /\ w.ports[q].state = "Receiving"
          /\ ev = ObserveClosureEvent(w.ports[q].peer_port_name,
                    w.ports[q].next_sequence_num_to_send - 1)
    OBVIOUS
  <2> DEFINE e == EndOf(q)
             port == w.ports[q]
  <2>2. e \in End /\ Other(Other(e)) = e /\ s[e] \in Nat
    BY EndOfType, OtherOther
  <2>3. /\ EndOf(port.peer_port_name) = Other(e)
        /\ port.next_sequence_num_to_send = s[e] + 1
        /\ life[e] = "open"
    BY <1>1, <1>2, <2>1 DEF PortTrue, Counts
  <2>4. IsClosed(v, e)
    BY DEF IsClosed
  <2>5. Knows(v, F, e)
    BY <1>8
  <2>6. /\ ev.port_name = port.peer_port_name
        /\ ev.last_sequence_num = port.next_sequence_num_to_send - 1
    BY <2>1 DEF ObserveClosureEvent
  <2> HIDE DEF e, port
  <2>7. ev.last_sequence_num = s[e]
    BY <2>2, <2>3, <2>6
  <2>8. Finished(v, F, s, Other(EndOf(ev.port_name)), ev.last_sequence_num)
    BY <2>2, <2>3, <2>4, <2>5, <2>6, <2>7 DEF Finished
  <2> QED BY <1>4, <2>8 DEF EventTrue
<1>10. \A p \in PortName :
         \/ PortTrue(v, F, s, EndOf(p), v.ports[p])
         \/ /\ v.ports[p] = w.ports[p]
            /\ AtEnd(w.ports[p]) => EndOf(p) \notin v.shut
  BY <1>6, AbsentTrue
<1>11. \A ev \in F :
         \/ EventTrue(v, F, s, ev)
         \/ /\ ev \in E
            /\ ev.type = "User" =>
                 \A r \in DOMAIN ev.descriptors : EndOf(r) \notin v.shut
  BY <1>7, <1>9
<1>12. w.shut \subseteq v.shut /\ Events(v) \subseteq F
  OBVIOUS
<1> HIDE DEF E, F
<1>13. Truth(v, F, s)
  <2>1. Truth(w, E, s)
    BY DEF E
  <2> QED BY <1>3, <1>5, <1>10, <1>11, <1>12, <2>1, TruthStep
<1> QED BY <1>13 DEF E, F

\* Close every port of a set of ends.
LEMMA TruthCloseAll ==
  ASSUME NEW w, IsWorld(w), NEW s \in [End -> Nat], Truth(w, Events(w), s),
         NEW hand, Good(w, hand), NEW n, NEW closing \in SUBSET PortName,
         \A q \in closing : w.ports[q].state = "Receiving"
  PROVE  \E F : Truth(CloseAll(w, n, closing), F, s)
<1> DEFINE v == CloseAll(w, n, closing)
           told == {q \in closing :
                      w.ports[q].peer_node_name \in Nodes \ crashed}
           S == {ClosureOf(w, n, q) : q \in told}
           bag == w.net
           f == [q \in PortName |-> IF q \in closing THEN AbsentPort
                                                     ELSE w.ports[q]]
           C == {m.event : m \in S}
<1>1. v = [w EXCEPT !.ports = f, !.net = bag (+) SetToBag(S),
                    !.shut = w.shut \cup {EndOf(q) : q \in closing}]
  BY DEF CloseAll
<1>2. IsABag(bag)
  BY DEF IsWorld, IsNet
<1>3. \A ev \in C : \E q \in closing :
        ev = ObserveClosureEvent(w.ports[q].peer_port_name,
               w.ports[q].next_sequence_num_to_send - 1)
  BY DEF ClosureOf, Envelope
<1>4. /\ \A q \in closing : f[q] = AbsentPort
      /\ \A q \in PortName \ closing : f[q] = w.ports[q]
  OBVIOUS
<1> HIDE DEF S, f, bag, v
<1>5. /\ v.ports = f /\ v.net = bag (+) SetToBag(S)
      /\ v.shut = w.shut \cup {EndOf(q) : q \in closing}
  BY <1>1 DEF IsWorld
<1>6. DOMAIN v.net = DOMAIN bag \cup S
  BY <1>2, <1>5, PlusBag
<1>7. Events(v) \subseteq Events(w) \cup C
  BY <1>6 DEF Events, bag
<1>8. \A q \in closing : AtEnd(w.ports[q])
  BY DEF AtEnd
<1> HIDE DEF C
<1>9. Truth(v, Events(w) \cup C, s)
  <2>1. \A ev \in C : \E q \in closing :
          /\ w.ports[q].state = "Receiving"
          /\ ev = ObserveClosureEvent(w.ports[q].peer_port_name,
                    w.ports[q].next_sequence_num_to_send - 1)
    BY <1>3
  <2>2. /\ \A q \in closing : v.ports[q] = AbsentPort
        /\ \A q \in PortName \ closing : v.ports[q] = w.ports[q]
    BY <1>4, <1>5
  <2> QED BY <1>5, <1>7, <1>8, <2>1, <2>2, TruthShut
<1> QED BY <1>9 DEF v

\* ClosePort.
LEMMA TruthDoClosePort ==
  ASSUME NEW w, IsWorld(w), NEW s \in [End -> Nat], Truth(w, Events(w), s),
         Good(w, {}), NEW n, NEW p \in PortName,
         \/ w.ports[p].state = "Uninitialized"
         \/ /\ w.ports[p].state = "Receiving"
            /\ w.ports[p].message_queue.signalable
  PROVE  \E F : Truth(DoClosePort(w, n, p), F, s)
<1>1. CASE w.ports[p].state = "Uninitialized"
  <2> DEFINE v == [ErasePort(w, p) EXCEPT !.shut = @ \cup {EndOf(p)}]
             one == {p}
             none == {}
  <2>1. DoClosePort(w, n, p) = v
    BY <1>1 DEF DoClosePort
  <2>2. /\ v.ports[p] = AbsentPort
        /\ \A q \in PortName : q # p => v.ports[q] = w.ports[q]
        /\ v.net = w.net
        /\ v.shut = w.shut \cup {EndOf(p)}
    BY DEF ErasePort, IsWorld
  <2> HIDE DEF v
  <2>3. Events(v) \subseteq Events(w) \cup none
    BY <2>2 DEF Events
  <2>4. /\ one \in SUBSET PortName
        /\ \A q \in one : AtEnd(w.ports[q]) /\ v.ports[q] = AbsentPort
        /\ \A q \in PortName \ one : v.ports[q] = w.ports[q]
        /\ v.shut = w.shut \cup {EndOf(q) : q \in one}
    BY <1>1, <2>2 DEF AtEnd
  <2>5. \A ev \in none : \E q \in one :
          /\ w.ports[q].state = "Receiving"
          /\ ev = ObserveClosureEvent(w.ports[q].peer_port_name,
                    w.ports[q].next_sequence_num_to_send - 1)
    OBVIOUS
  <2> HIDE DEF one, none
  <2>6. Truth(v, Events(w) \cup none, s)
    BY <2>3, <2>4, <2>5, TruthShut
  <2> QED BY <2>1, <2>6
<1>2. CASE w.ports[p].state = "Receiving"
  <2>1. ~Claimed(w, {}, "carried", p)
    <3>1. PortStatus(w, {}, p)
      BY DEF Good, Status
    <3> QED BY <1>2, <3>1 DEF PortStatus
  <2>2. /\ ClosedWith(w, p) \in SUBSET PortName
        /\ \A r \in ClosedWith(w, p) : w.ports[r].state = "Receiving"
    BY <1>2, <2>1, ClosedWithCarriers
  <2>3. DoClosePort(w, n, p) = CloseAll(w, n, ClosedWith(w, p))
    BY <1>2 DEF DoClosePort
  <2> QED BY <2>2, <2>3, TruthCloseAll
<1> QED BY <1>1, <1>2

\* The port is what the descriptor says.
MadeFrom(port, d) ==
  /\ port.state = "Receiving"
  /\ port.peer_port_name = d.peer_port_name
  /\ port.message_queue.heap = {}
  /\ port.message_queue.next_sequence_num = d.next_sequence_num_to_receive
  /\ port.next_sequence_num_to_send = d.next_sequence_num_to_send
  /\ port.last_sequence_num_to_receive = d.last_sequence_num_to_receive
  /\ port.remove_proxy_on_last_message = FALSE
  /\ port.peer_closed = d.peer_closed

\* The port that AcceptPort makes of a descriptor.
LEMMA AcceptedPortFields ==
  ASSUME NEW n, NEW d
  PROVE  MadeFrom(AcceptedPort(n, d), d)
  BY DEF MadeFrom, AcceptedPort, SetSignalable, Initialized, NewPort,
         NewMessageQueue

\* AcceptPort, for the ports in a message: they are what it says they are.
LEMMA TruthAcceptPorts ==
  ASSUME NEW w, IsWorld(w), NEW E, NEW s, Truth(w, E, s), NEW n, NEW event,
         IsUserEvent(event), event \in E
  PROVE  \E F : Truth(AcceptPorts(w, n, event.descriptors), F, s)
<1> DEFINE d == event.descriptors
           new == DOMAIN d
           v == AcceptPorts(w, n, d)
           accepted(r) == Envelope(n, d[r].referring_node_name,
                                   PortAcceptedEvent(d[r].referring_port_name))
           told == {r \in new : d[r].referring_node_name \in Nodes \ crashed}
           f == [q \in PortName |-> IF q \in new THEN AcceptedPort(n, d[q])
                                                 ELSE w.ports[q]]
           S == {accepted(r) : r \in told}
           twice == \E q \in new : w.ports[q].state # "Absent"
           bag == w.net
           A == {m.event : m \in S}
           F == E \cup A
<1>1. new \in SUBSET PortName /\ event.type = "User"
  BY DEF IsUserEvent
<1>2. \A r \in new : DescriptorTrue(w, s, r, d[r])
  BY <1>1 DEF Truth, EventTrue
<1>3. v = [w EXCEPT !.ports = f, !.net = bag (+) SetToBag(S),
                    !.oops = @ \/ twice]
  BY DEF AcceptPorts
<1>4. \A ev \in A : EventTrue(v, F, s, ev) /\ ev.type # "User"
  <2> SUFFICES ASSUME NEW r \in told
               PROVE  LET ev == accepted(r).event
                      IN EventTrue(v, F, s, ev) /\ ev.type # "User"
    OBVIOUS
  <2>1. accepted(r).event = PortAcceptedEvent(d[r].referring_port_name)
    BY DEF Envelope
  <2> HIDE DEF v, F, accepted
  <2> QED BY <2>1, AnswerTrue
<1>5. /\ \A r \in new : f[r] = AcceptedPort(n, d[r])
      /\ \A q \in PortName \ new : f[q] = w.ports[q]
  BY <1>1
<1>6. IsABag(bag)
  BY DEF IsWorld, IsNet
<1> HIDE DEF S, f, bag, v, twice
<1>7. v.ports = f /\ v.net = bag (+) SetToBag(S) /\ v.shut = w.shut
  <2> DEFINE o == w.oops \/ twice
  <2>1. v = [w EXCEPT !.ports = f, !.net = bag (+) SetToBag(S), !.oops = o]
    BY <1>3
  <2> HIDE DEF o
  <2> QED BY <2>1 DEF IsWorld
<1>8. DOMAIN v.net = DOMAIN bag \cup S
  BY <1>6, <1>7, PlusBag
<1>9. Events(v) \subseteq F
  BY <1>8 DEF Events, bag, Truth
<1> HIDE DEF A, new, d
<1>10. ASSUME NEW e, Knows(w, E, e)
       PROVE  Knows(v, F, e)
  <2>1. \A r \in new : EndOf(r) = e => d[r].peer_closed
    BY <1>1, <1>10 DEF Knows, d, new
  <2>2. ASSUME NEW p \in PortName, EndOf(p) = e, AtEnd(v.ports[p])
        PROVE  v.ports[p].peer_closed
    <3>1. CASE p \in new
      <4>1. v.ports[p] = AcceptedPort(n, d[p])
        BY <1>5, <1>7, <3>1
      <4>2. MadeFrom(v.ports[p], d[p])
        BY <4>1, AcceptedPortFields
      <4> QED BY <2>1, <2>2, <3>1, <4>2 DEF MadeFrom
    <3>2. CASE p \notin new
      BY <1>5, <1>7, <1>10, <2>2, <3>2 DEF Knows
    <3> QED BY <3>1, <3>2
  <2> QED BY <1>4, <1>10, <2>2 DEF Knows
<1>11. ASSUME NEW r \in new
       PROVE  PortTrue(v, F, s, EndOf(r), v.ports[r])
  <2> DEFINE port == v.ports[r]
             x == d[r]
             e == EndOf(r)
  <2>1. port = AcceptedPort(n, x)
    BY <1>5, <1>7
  <2>2. MadeFrom(port, x)
    BY <2>1, AcceptedPortFields
  <2>3. /\ Counts(w, s, e, x, x.next_sequence_num_to_receive)
        /\ x.peer_port_name \in PortName
        /\ EndOf(x.peer_port_name) = Other(e)
    BY <1>2 DEF DescriptorTrue
  <2> HIDE DEF port, x, e
  <2>4. Counts(v, s, e, port, port.message_queue.next_sequence_num)
    BY <1>7, <2>2, <2>3 DEF Counts, Heard, IsClosed, MadeFrom
  <2>5. PortTrue(v, F, s, e, port)
    BY <2>2, <2>3, <2>4 DEF PortTrue, MadeFrom
  <2> QED BY <2>5 DEF port, e
<1>12. \A ev \in F : EventTrue(v, F, s, ev) \/ ev \in E
  BY <1>4
<1>13. \A p \in PortName : \/ PortTrue(v, F, s, EndOf(p), v.ports[p])
                           \/ v.ports[p] = w.ports[p]
  BY <1>5, <1>7, <1>11
<1> HIDE DEF F
<1>14. Truth(v, F, s)
  BY <1>7, <1>9, <1>10, <1>12, <1>13, TruthKeep
<1> QED BY <1>14 DEF v, d

\* OnUserMessage.
LEMMA TruthOnUserMessage ==
  ASSUME NEW w, IsWorld(w), NEW E, NEW s \in [End -> Nat], Truth(w, E, s),
         NEW hand, Good(w, hand), NEW n \in Nodes, NEW event, event \in E,
         IsUserEvent(event), event.type = "User", MaySendOn(w, event),
         \A k \in Kinds : \A p \in PortName : Claims(event, k, p) =>
           <<k, p>> \in hand,
         \A r \in DOMAIN event.descriptors :
           Referred(w, n, r, event.descriptors[r])
  PROVE  \E F : Truth(OnUserMessage(w, n, event), F, s)
<1> DEFINE p == event.port_name
           m == Queued(event)
           R == DOMAIN event.descriptors
           bound == AcceptPorts(w, n, event.descriptors)
           new == [bound.ports[p] EXCEPT !.message_queue =
                     AfterAcceptMessage(@, m)]
           queued == [bound EXCEPT !.ports[p] = new]
<1>1. p \in PortName /\ R \in SUBSET PortName /\ m.ports = R
  BY DEF IsUserEvent, Queued
<1>2. IsWorld(bound)
  BY <1>1, AcceptPortsType
<1>3. /\ Good(bound, Arriving(R))
      /\ \A r \in R : bound.ports[r] = AcceptedPort(n, event.descriptors[r])
      /\ \A q \in PortName \ R : bound.ports[q] = w.ports[q]
      /\ \A r \in R : w.ports[r].state = "Absent"
  BY GoodAcceptPorts
<1>4. PICK F : Truth(bound, F, s)
  BY TruthAcceptPorts
<1> HIDE DEF bound
<1>5. Truth(bound, Events(bound), s)
  <2>1. Events(bound) \subseteq F
    BY <1>4 DEF Truth
  <2> QED BY <1>4, <2>1, TruthLess
<1>6. \A r \in R : bound.ports[r].state = "Receiving"
  <2>1. \A r \in R : MadeFrom(bound.ports[r], event.descriptors[r])
    BY <1>3, AcceptedPortFields
  <2> QED BY <2>1 DEF MadeFrom
<1>7. \E H : Truth(Refuse(bound, n, m), H, s)
  BY <1>1, <1>2, <1>3, <1>5, <1>6, TruthCloseAll DEF Refuse
<1>8. queued = [bound EXCEPT !.ports[p].message_queue =
                                AfterAcceptMessage(@, m)]
  OBVIOUS
<1>9. Written(s, EndOf(p), m)
  <2>1. Written(s, EndOf(p), event)
    BY DEF Truth, EventTrue
  <2> QED BY <2>1 DEF Written, Queued
<1>10. ASSUME Exists(w, n, p)
       PROVE  /\ Truth(queued, F, s)
              /\ IsWorld(queued)
              /\ queued.ports[p].state = w.ports[p].state
              /\ queued.ports[p].message_queue.heap =
                   w.ports[p].message_queue.heap \cup {m}
  <2> DEFINE port == bound.ports[p]
  <2>1. port = w.ports[p]
    BY <1>1, <1>3, <1>10 DEF Exists
  <2>2. IsPort(port) /\ PortTrue(bound, F, s, EndOf(p), port)
    BY <1>1, <1>2, <1>4 DEF IsWorld, Truth
  <2>3. /\ IsPort(new)
        /\ new.message_queue.heap = port.message_queue.heap \cup {m}
    BY <2>2, QueuedPortType
  <2>4. /\ new.state = port.state
        /\ new.peer_node_name = port.peer_node_name
        /\ new.peer_port_name = port.peer_port_name
        /\ new.message_queue.next_sequence_num =
             port.message_queue.next_sequence_num
        /\ new.next_sequence_num_to_send = port.next_sequence_num_to_send
        /\ new.last_sequence_num_to_receive = port.last_sequence_num_to_receive
        /\ new.remove_proxy_on_last_message = port.remove_proxy_on_last_message
        /\ new.peer_closed = port.peer_closed
    <3> HIDE DEF m
    <3> QED BY <2>2 DEF IsPort, Port, AfterAcceptMessage
  <2> HIDE DEF new, port, m
  <2>5. /\ PortTrue(bound, F, s, EndOf(p), new)
        /\ AtEnd(new) => AtEnd(port) /\ (port.peer_closed => new.peer_closed)
    BY <1>9, <2>2, <2>3, <2>4 DEF PortTrue, AtEnd, Counts, Heard
  <2>6. Truth(queued, F, s) /\ IsWorld(queued)
    BY <1>1, <1>2, <1>4, <2>3, <2>5, TruthPort, WithPort DEF port
  <2>7. queued.ports[p] = new
    BY <1>1, <1>2, OnePort
  <2> QED BY <2>1, <2>3, <2>4, <2>6, <2>7
<1> HIDE DEF queued
<1>11. ASSUME Exists(w, n, p), w.ports[p].state = "Proxying"
       PROVE  \E H : Truth(ForwardAsProxy(queued, n, p), H, s)
  <2>1. NamesLeft(queued.ports[p].message_queue.heap)
    BY <1>10, <1>11 DEF MaySendOn
  <2> QED BY <1>1, <1>10, <1>11, <2>1, TruthForwardAsProxy
<1>12. ASSUME Exists(w, n, p)
       PROVE  \E H : Truth(PortStatusChanged(queued, p), H, s)
  BY <1>10, <1>12, TruthNotified
<1> DEFINE after == OnUserMessage(w, n, event)
<1>13. \/ after = Refuse(bound, n, m)
       \/ /\ Exists(w, n, p)
          /\ \/ after = queued
             \/ /\ after = ForwardAsProxy(queued, n, p)
                /\ w.ports[p].state = "Proxying"
             \/ after = PortStatusChanged(queued, p)
  BY <1>8 DEF OnUserMessage, bound
<1> HIDE DEF after, m
<1>14. \E H : Truth(after, H, s)
  BY <1>7, <1>10, <1>11, <1>12, <1>13
<1> QED BY <1>14 DEF after

\* AcceptMessage.
LEMMA TruthAcceptMessage ==
  ASSUME NEW w, IsWorld(w), NEW E, NEW s \in [End -> Nat], Truth(w, E, s),
         NEW n \in Nodes, NEW event, event \in E,
         E \subseteq Events(w) \cup {event},
         IsUserEvent(event) \/ event \in InternalEvent, MaySendOn(w, event),
         Good(w, HandOf(event)),
         event.type = "User" =>
           \A r \in DOMAIN event.descriptors :
             Referred(w, n, r, event.descriptors[r])
  PROVE  \E F : Truth(AcceptMessage(w, n, event), F, s)
<1>1. CASE IsUserEvent(event)
  <2>1. event.type = "User"
    BY <1>1 DEF IsUserEvent
  <2>2. \A k \in Kinds : \A p \in PortName : Claims(event, k, p) =>
          <<k, p>> \in HandOf(event)
    BY DEF HandOf
  <2> DEFINE hand == HandOf(event)
  <2> HIDE DEF hand
  <2>3. Good(w, hand) /\ \A k \in Kinds : \A p \in PortName :
          Claims(event, k, p) => <<k, p>> \in hand
    BY <2>2 DEF hand
  <2>4. \E F : Truth(OnUserMessage(w, n, event), F, s)
    BY <1>1, <2>1, <2>3, TruthOnUserMessage
  <2> QED BY <2>1, <2>4 DEF AcceptMessage
<1>2. CASE event \in InternalEvent
  <2>1. /\ event.type \in {"PortAccepted", "ObserveProxy", "ObserveProxyAck",
                           "ObserveClosure"}
        /\ event.port_name \in PortName
    BY <1>2 DEF InternalEvent
  <2>2. CASE event.type = "PortAccepted"
    <3>1. NamesLeft(w.ports[event.port_name].message_queue.heap)
      BY <2>2 DEF MaySendOn
    <3>2. \E F : Truth(OnPortAccepted(w, n, event.port_name), F, s)
      BY <2>1, <3>1, TruthOnPortAccepted
    <3> QED BY <2>2, <3>2 DEF AcceptMessage
  <2>3. CASE event.type = "ObserveProxy"
    BY <1>2, <2>3, TruthOnObserveProxy DEF AcceptMessage
  <2>4. CASE event.type = "ObserveProxyAck"
    BY <1>2, <2>4, TruthOnObserveProxyAck DEF AcceptMessage
  <2>5. CASE event.type = "ObserveClosure"
    BY <1>2, <2>5, TruthOnObserveClosure DEF AcceptMessage
  <2> QED BY <2>1, <2>2, <2>3, <2>4, <2>5
<1> QED BY <1>1, <1>2

-----------------------------------------------------------------------------
(* The actions.                                                            *)

\* The ends that events are about.
LEMMA EventEnds ==
  ASSUME NEW w, IsWorld(w), NEW ev \in Events(w)
  PROVE  /\ ev.type = "User" =>
              /\ EndOf(ev.port_name) \in End
              /\ \A r \in DOMAIN ev.descriptors : EndOf(r) \in End
         /\ EndOf(ev.port_name) \in End
<1>1. IsUserEvent(ev) \/ ev \in InternalEvent
  BY DEF IsWorld, IsNet, Events, IsEnvelope
<1>2. ev.port_name \in PortName
  BY <1>1 DEF IsUserEvent, InternalEvent
<1>3. ev.type = "User" => \A r \in DOMAIN ev.descriptors : r \in PortName
  BY <1>1 DEF IsUserEvent, InternalEvent
<1> QED BY <1>2, <1>3, EndOfType

\* The other end is one.
LEMMA OtherEnd ==
  ASSUME NEW e \in End
  PROVE  Other(e) \in End
<1>1. e[1] \in Pipes /\ e[2] \in {0, 1} /\ 1 - e[2] \in {0, 1}
  BY DEF End
<1> QED BY <1>1 DEF End, Other

\* Only open ends are closed, in a step that makes none.
Closes ==
  \A e \in End : life'[e] # life[e] => life[e] = "open" /\ life'[e] = "closed"

\* What is true for the handler is true when it is done.
LEMMA TruthBecome ==
  ASSUME TypeOK, NEW w, IsWorld(w), NEW F, Truth(w, F, sent'),
         Become(w), crashed' = crashed, got' = got, eof' = eof
  PROVE  Truth(World, Events(World), sent)' /\ Closes
<1> DEFINE E == Events(w)
<1>1. Truth(w, E, sent')
  BY TruthLess DEF Truth
<1>2. /\ World'.ports = w.ports /\ World'.net = w.net /\ World'.shut = {}
      /\ Events(World)' = E
  BY DEF Become, World, Events
<1>3. \A e \in End : life'[e] = IF e \in w.shut THEN "closed" ELSE life[e]
  BY DEF Become
<1>4. \A e \in End : IsClosed(World, e)' <=> IsClosed(w, e)
  BY <1>2, <1>3 DEF IsClosed
<1>5. ASSUME NEW e \in End, NEW x, NEW next, Counts(w, sent', e, x, next)
      PROVE  Counts(World, sent, e, x, next)'
  BY <1>2, <1>3, <1>4, <1>5, OtherEnd DEF Counts, Heard
<1>6. ASSUME NEW e \in End, NEW last, Finished(w, E, sent', e, last)
      PROVE  Finished(World, Events(World), sent, e, last)'
  <2>1. Knows(World, Events(World), e)' <=> Knows(w, E, e)
    BY <1>2 DEF Knows
  <2> QED BY <1>2, <1>3, <1>4, <1>6, <2>1, OtherEnd DEF Finished
<1>7. ASSUME NEW p \in PortName
      PROVE  PortTrue(World, Events(World), sent, EndOf(p), World.ports[p])'
  <2>1. PortTrue(w, E, sent', EndOf(p), w.ports[p])
    BY <1>1 DEF Truth
  <2>2. EndOf(p) \in End /\ Other(EndOf(p)) \in End
    BY EndOfType, OtherEnd
  <2> HIDE DEF E
  <2> QED BY <1>2, <1>5, <1>6, <2>1, <2>2 DEF PortTrue, AtEnd, Written
<1>8. ASSUME NEW ev \in E
      PROVE  EventTrue(World, Events(World), sent, ev)'
  <2>1. EventTrue(w, E, sent', ev)
    BY <1>1 DEF Truth
  <2>2. /\ EndOf(ev.port_name) \in End /\ Other(EndOf(ev.port_name)) \in End
        /\ ev.type = "User" => \A r \in DOMAIN ev.descriptors : EndOf(r) \in End
    BY EventEnds, OtherEnd
  <2> HIDE DEF E
  <2> QED BY <1>2, <1>5, <1>6, <2>1, <2>2
          DEF EventTrue, DescriptorTrue, Written
<1>9. crashed' = {} => \A e \in eof' : /\ IsClosed(World, Other(e))'
                                       /\ got'[e] = sent'[Other(e)]
  BY <1>1, <1>4, OtherEnd DEF Truth, TypeOK
<1>10. Closes
  BY <1>1, <1>3 DEF Closes, Truth
<1> HIDE DEF E
<1> QED BY <1>2, <1>7, <1>8, <1>9, <1>10 DEF Truth

\* What is left when one envelope is taken.
LEMMA MinusBagRest ==
  ASSUME NEW bag, IsABag(bag), NEW m \in DOMAIN bag
  PROVE  LET less == bag (-) SetToBag({m})
         IN /\ DOMAIN less \subseteq DOMAIN bag
            /\ \A x \in DOMAIN bag : x # m => x \in DOMAIN less
  BY DEF IsABag, SetToBag, (-)

\* An event is delivered.
LEMMA DeliverTruth ==
  ASSUME TypeOK, Good(World, {}), Truth(World, Events(World), sent),
         NEW envelope \in DOMAIN net, Deliver(envelope)
  PROVE  Truth(World, Events(World), sent)' /\ Closes
<1> DEFINE event == envelope.event
           to == envelope.to
           w == [World EXCEPT !.net = net (-) SetToBag({envelope})]
           E == Events(World)
<1>1. /\ to \in Nodes
      /\ IsUserEvent(event) \/ event \in InternalEvent
  BY DEF TypeOK, IsEnvelope
<1>2. /\ IsWorld(w) /\ w.ports = World.ports /\ w.oops = World.oops
      /\ w.shut = World.shut
      /\ w.net = World.net (-) SetToBag({envelope})
  <2>1. IsNet(net (-) SetToBag({envelope}))
    BY NetMinus DEF TypeOK, IsNet
  <2>2. IsWorld(w)
    BY <2>1, WorldType, WithNet
  <2> QED BY <2>2 DEF World
<1>3. MaySendOn(w, event)
  <2>1. NamesLeft(MayForward(event))
    BY DEF Deliver
  <2>2. w.ports = ports
    BY <1>2 DEF World
  <2> HIDE DEF w
  <2> QED BY <2>1, <2>2 DEF MaySendOn, MayForward
<1>4. /\ Become(AcceptMessage(w, to, event)) /\ crashed' = crashed
      /\ got' = got /\ eof' = eof /\ sent' = sent
  BY DEF Deliver, World
<1> HIDE DEF w
<1>5. Good(w, HandOf(event)) /\ Awaited(w, envelope)
  <2>1. envelope \in DOMAIN World.net
    BY DEF World
  <2> QED BY <1>2, <2>1, WorldType, GoodTake
<1>6. event.type = "User" =>
        \A r \in DOMAIN event.descriptors :
          Referred(w, to, r, event.descriptors[r])
  BY <1>5 DEF Awaited
<1>7. /\ DOMAIN w.net \subseteq DOMAIN net
      /\ \A m \in DOMAIN net : m # envelope => m \in DOMAIN w.net
  <2> DEFINE bag == net
  <2>1. IsABag(bag) /\ w.net = bag (-) SetToBag({envelope})
    BY <1>2 DEF TypeOK, World
  <2> HIDE DEF bag
  <2>2. envelope \in DOMAIN bag
    BY DEF bag
  <2>3. /\ DOMAIN w.net \subseteq DOMAIN bag
        /\ \A m \in DOMAIN bag : m # envelope => m \in DOMAIN w.net
    BY <2>1, <2>2, MinusBagRest
  <2> QED BY <2>3 DEF bag
<1>8. /\ Events(w) \subseteq E /\ event \in E
      /\ E \subseteq Events(w) \cup {event}
  BY <1>7 DEF Events, World
<1>9. Truth(w, E, sent)
  BY <1>2, <1>8, TruthSame
<1> HIDE DEF event, to, E
<1> DEFINE after == AcceptMessage(w, to, event)
<1>10. sent \in [End -> Nat]
  BY DEF TypeOK
<1>11. \E F : Truth(after, F, sent)
  BY <1>1, <1>2, <1>3, <1>5, <1>6, <1>8, <1>9, <1>10, TruthAcceptMessage
<1>12. IsWorld(after)
  BY <1>1, <1>2, <1>3, AcceptMessageType
<1> HIDE DEF after
<1>13. Become(after) /\ \E F : Truth(after, F, sent')
  BY <1>4, <1>11 DEF after
<1> QED BY <1>4, <1>12, <1>13, TruthBecome

\* A port is closed.
LEMMA ClosePortTruth ==
  ASSUME TypeOK, Good(World, {}), Truth(World, Events(World), sent),
         NEW p \in PortName, ClosePort(p)
  PROVE  Truth(World, Events(World), sent)' /\ Closes
<1>1. \/ World.ports[p].state = "Uninitialized"
      \/ /\ World.ports[p].state = "Receiving"
         /\ World.ports[p].message_queue.signalable
  BY DEF ClosePort, Held, World
<1> DEFINE after == DoClosePort(World, ports[p].node, p)
<1>2. sent \in [End -> Nat] /\ ports[p].node \in Nodes
  BY DEF ClosePort, Held, TypeOK, IsPort
<1>3. \E F : Truth(after, F, sent)
  BY <1>1, <1>2, WorldType, TruthDoClosePort
<1>4. IsWorld(after)
  BY <1>2, WorldType, DoClosePortType
<1>5. /\ Become(after) /\ crashed' = crashed /\ got' = got /\ eof' = eof
      /\ sent' = sent
  BY DEF ClosePort
<1> HIDE DEF after
<1>6. \E F : Truth(after, F, sent')
  BY <1>3, <1>5
<1> QED BY <1>4, <1>5, <1>6, TruthBecome

\* An end that does not know of a closure counts one message more.
LEMMA TruthCount ==
  ASSUME NEW w, IsWorld(w), NEW s \in [End -> Nat], NEW t \in [End -> Nat],
         Truth(w, Events(w), s), NEW hand, Good(w, hand), NEW p \in PortName,
         AtEnd(w.ports[p]), ~w.ports[p].peer_closed, eof \subseteq End,
         t[EndOf(p)] = s[EndOf(p)] + 1,
         \A e \in End : e # EndOf(p) => t[e] = s[e], NEW v,
         v.ports[p] = [w.ports[p] EXCEPT !.next_sequence_num_to_send = @ + 1],
         \A q \in PortName : q # p => v.ports[q] = w.ports[q],
         v.net = w.net, v.shut = w.shut
  PROVE  Truth(v, Events(w), t)
<1> DEFINE E == Events(w)
           a == EndOf(p)
           old == w.ports[p]
           new == v.ports[p]
<1>1. a \in End /\ s[a] \in Nat /\ \A e \in End : s[e] \in Nat /\ s[e] <= t[e]
  <2>1. a \in End /\ \A e \in End : s[e] \in Nat
    BY EndOfType
  <2> HIDE DEF a
  <2>2. \A e \in End : e # a => t[e] = s[e]
    BY DEF a
  <2>3. t[a] = s[a] + 1
    BY DEF a
  <2> QED BY <2>1, <2>2, <2>3
<1>2. PortTrue(w, E, s, a, old) /\ old \in Port /\ IsPort(old)
  BY DEF Truth, IsWorld, IsPort
<1>3. life[a] = "open" /\ a \notin w.shut /\ ~IsClosed(w, a)
  BY <1>2 DEF PortTrue, Counts, IsClosed
<1>4. crashed = {} => a \notin eof
  BY <1>2 DEF PortTrue, Counts, Heard
<1>5. /\ new.state = old.state
      /\ new.peer_node_name = old.peer_node_name
      /\ new.peer_port_name = old.peer_port_name
      /\ new.message_queue = old.message_queue
      /\ new.next_sequence_num_to_send = old.next_sequence_num_to_send + 1
      /\ new.last_sequence_num_to_receive = old.last_sequence_num_to_receive
      /\ new.remove_proxy_on_last_message = old.remove_proxy_on_last_message
      /\ new.peer_closed = old.peer_closed
  BY <1>2 DEF Port
<1>6. \A e : IsClosed(v, e) <=> IsClosed(w, e)
  BY DEF IsClosed
<1>7. \A e : Knows(w, E, e) => Knows(v, E, e) /\ e # a
  <2>1. \A e : Knows(w, E, e) => e # a
    BY DEF Knows
  <2> QED BY <1>5, <2>1 DEF Knows, AtEnd
<1>8. ASSUME NEW e \in End, NEW last, Finished(w, E, s, e, last)
      PROVE  Finished(v, E, t, e, last)
  <2>1. t[e] = s[e]
    BY <1>7, <1>8 DEF Finished
  <2> QED BY <1>6, <1>7, <1>8, <2>1 DEF Finished
<1>9. ASSUME NEW e \in End, e # a, NEW x, NEW next, Counts(w, s, e, x, next)
      PROVE  Counts(v, t, e, x, next)
  <2>1. t[e] = s[e]
    BY <1>9
  <2>2. IsClosed(w, Other(e)) => t[Other(e)] = s[Other(e)]
    BY <1>3, OtherEnd
  <2> QED BY <1>6, <1>9, <2>1, <2>2 DEF Counts, Heard
<1>10. ASSUME NEW e \in End, NEW m, m.sequence_num \in Int, Written(s, e, m)
       PROVE  Written(t, e, m)
  <2>1. Other(e) \in End
    BY OtherEnd
  <2>2. s[Other(e)] \in Nat /\ t[Other(e)] \in Nat /\ s[Other(e)] <= t[Other(e)]
    BY <1>1, <2>1
  <2> QED BY <1>10, <2>2 DEF Written
<1>11. Counts(v, t, a, new, new.message_queue.next_sequence_num)
  <2>1. /\ life[a] = "open"
        /\ old.next_sequence_num_to_send = s[a] + 1
        /\ old.message_queue.next_sequence_num = got[a] + 1
    BY <1>2 DEF PortTrue, Counts
  <2>2. new.next_sequence_num_to_send = t[a] + 1
    BY <1>1, <1>5, <2>1 DEF a
  <2>3. crashed = {} => Heard(v, t, a, new)
    BY <1>4, <1>5 DEF Heard
  <2> HIDE DEF a, new
  <2> QED BY <1>3, <1>5, <2>1, <2>2, <2>3 DEF Counts
<1>12. ASSUME NEW q \in PortName
       PROVE  PortTrue(v, E, t, EndOf(q), v.ports[q])
  <2>1. PortTrue(w, E, s, EndOf(q), w.ports[q])
    BY DEF Truth
  <2>2. EndOf(q) \in End /\ Other(EndOf(q)) \in End
    BY EndOfType, OtherEnd
  <2>3. \A m \in w.ports[q].message_queue.heap : Written(t, EndOf(q), m)
    <3>1. \A m \in w.ports[q].message_queue.heap : m.sequence_num \in Int
      BY DEF IsWorld, IsPort, Port, QueuedMessage
    <3> QED BY <1>10, <2>1, <2>2, <3>1 DEF PortTrue
  <2>4. CASE q = p
    <3>1. PortTrue(w, E, s, a, old) /\ AtEnd(old)
      BY <1>2
    <3>2. \A m \in new.message_queue.heap : Written(t, a, m)
      BY <1>5, <2>3, <2>4
    <3> HIDE DEF a, old, new
    <3>3. PortTrue(v, E, t, a, new)
      BY <1>5, <1>11, <3>1, <3>2 DEF PortTrue, AtEnd
    <3> QED BY <2>4, <3>3 DEF a, new
  <2>5. CASE q # p
    <3>1. v.ports[q] = w.ports[q] /\ (AtEnd(w.ports[q]) => EndOf(q) # a)
      BY <2>5, EndAlone
    <3> HIDE DEF a, E
    <3> QED BY <1>8, <1>9, <2>1, <2>2, <2>3, <3>1 DEF PortTrue
  <2> QED BY <2>4, <2>5
<1>13. ASSUME NEW ev \in E
       PROVE  EventTrue(v, E, t, ev)
  <2>1. EventTrue(w, E, s, ev)
    BY DEF Truth
  <2>2. /\ EndOf(ev.port_name) \in End /\ Other(EndOf(ev.port_name)) \in End
        /\ ev.type = "User" => \A r \in DOMAIN ev.descriptors : EndOf(r) \in End
    BY EventEnds, OtherEnd
  <2>3. ev.type = "User" => \A r \in DOMAIN ev.descriptors : EndOf(r) # a
    BY EndAlone
  <2>4. ev.type = "User" => ev.sequence_num \in Int
    BY DEF IsWorld, IsNet, Events, IsEnvelope, IsUserEvent, InternalEvent
  <2>5. ev.type = "User" => Written(t, EndOf(ev.port_name), ev)
    BY <1>10, <2>1, <2>2, <2>4 DEF EventTrue
  <2> HIDE DEF a, E
  <2> QED BY <1>8, <1>9, <2>1, <2>2, <2>3, <2>5 DEF EventTrue, DescriptorTrue
<1>14. crashed = {} => \A e \in eof \cap End :
         IsClosed(v, Other(e)) /\ got[e] = t[Other(e)]
  BY <1>3, <1>6, OtherEnd DEF Truth
<1>15. crashed = {} => \A e \in eof :
         IsClosed(v, Other(e)) /\ got[e] = t[Other(e)]
  BY <1>14
<1>16. Events(v) = E /\ \A e \in v.shut : life[e] = "open"
  BY DEF Events, Truth
<1> HIDE DEF a, E
<1>17. Truth(v, E, t)
  BY <1>12, <1>13, <1>15, <1>16 DEF Truth
<1> QED BY <1>17 DEF E

\* A message is sent, and accepted at once by a peer on the same node.
LEMMA SendMessageTruth ==
  ASSUME TypeOK, Good(World, {}), Truth(World, Events(World), sent),
         NEW p \in PortName, NEW cargo \in SUBSET CargoFor(p),
         SendMessage(p, cargo)
  PROVE  Truth(World, Events(World), sent)' /\ Closes
<1> DEFINE port == ports[p]
           e == EndOf(p)
           n == port.node
           to == port.peer_node_name
           m == Outgoing(p, cargo)
           event == UserEvent(World, port, m)
           w == Numbered(p, cargo)
           u == [World EXCEPT !.ports[p] =
                   [port EXCEPT !.next_sequence_num_to_send = @ + 1]]
           E == Events(World)
           accepted == AcceptMessage(w, n, event)
           forwarded == ForwardMessage(w, n, to, event)
<1>1. /\ IsPort(port) /\ n \in Nodes /\ port \in Port /\ e \in End
      /\ port.state = "Receiving" /\ ~port.peer_closed
  BY EndOfType DEF SendMessage, Held, TypeOK, IsPort
<1>2. /\ Good(w, Leaving(cargo))
      /\ IsWorld(w)
      /\ \A q \in PortName :
           /\ w.ports[q].message_queue = ports[q].message_queue
           /\ w.ports[q].state \in {ports[q].state, "Buffering"}
      /\ \A q \in cargo : /\ w.ports[q].state = "Buffering"
                          /\ w.ports[q].node = World.ports[q].node
                          /\ w.ports[q].peer_node_name = to
  BY NumberedGood DEF World
<1>3. /\ cargo \in SUBSET PortName /\ p \notin cargo
      /\ m.ports = cargo /\ NamesLeft({m})
      /\ \A q \in cargo : ports[q].state = "Receiving"
  BY DEF CargoFor, Outgoing, SendMessage, Held
<1>4. m \in QueuedMessage
  BY <1>3, NumberedType
<1>5. /\ Become(IF to = n THEN accepted ELSE forwarded)
      /\ crashed' = crashed /\ got' = got /\ eof' = eof
      /\ sent' = [sent EXCEPT ![e] = @ + 1]
      /\ to = n => NamesLeft(MayForward(event))
  BY DEF SendMessage, Outgoing, Numbered
<1>6. \A q \in cargo : /\ GenerateRandomPortName(q) \in PortName
                       /\ EndOf(GenerateRandomPortName(q)) = EndOf(q)
  <2> SUFFICES ASSUME NEW q \in cargo
               PROVE  /\ GenerateRandomPortName(q) \in PortName
                      /\ EndOf(GenerateRandomPortName(q)) = EndOf(q)
    OBVIOUS
  <2>1. q \in PortName /\ q[3] < MaxGen[q[1]]
    BY <1>3 DEF NamesLeft
  <2> QED BY <2>1, NextName DEF GenerateRandomPortName, EndOf
<1>7. /\ sent \in [End -> Nat] /\ sent' \in [End -> Nat] /\ sent[e] \in Nat
      /\ sent'[e] = sent[e] + 1
      /\ \A x \in End : x # e => sent'[x] = sent[x]
      /\ eof \subseteq End
  <2>1. sent \in [End -> Nat] /\ eof \subseteq End
    BY DEF TypeOK
  <2> HIDE DEF e
  <2> QED BY <1>1, <1>5, <2>1
<1>8. /\ IsWorld(World) /\ World.ports = ports
      /\ u.ports[p] = [port EXCEPT !.next_sequence_num_to_send = @ + 1]
      /\ \A q \in PortName : q # p => u.ports[q] = ports[q]
      /\ u.net = World.net /\ u.shut = World.shut
  BY WorldType DEF World, TypeOK
<1>9. Truth(u, E, sent')
  <2>1. AtEnd(World.ports[p]) /\ ~World.ports[p].peer_closed
    BY <1>1, <1>8 DEF AtEnd
  <2>2. u.ports[p] = [World.ports[p] EXCEPT !.next_sequence_num_to_send = @ + 1]
        /\ \A q \in PortName : q # p => u.ports[q] = World.ports[q]
    BY <1>8
  <2>3. /\ sent'[EndOf(p)] = sent[EndOf(p)] + 1
        /\ \A x \in End : x # EndOf(p) => sent'[x] = sent[x]
    BY <1>7
  <2> HIDE DEF u, E
  <2>4. Truth(u, Events(World), sent')
    BY <1>7, <1>8, <2>1, <2>2, <2>3, TruthCount
  <2> QED BY <2>4 DEF E
<1>10. IsWorld(u)
  <2>1. IsPort([port EXCEPT !.next_sequence_num_to_send = @ + 1])
    <3>1. port.next_sequence_num_to_send + 1 \in Int
      BY <1>1 DEF Port
    <3> HIDE DEF port
    <3> QED BY <1>1, <3>1 DEF IsPort, Port, HasPeerName
  <2> QED BY <1>8, <2>1, WithPort
<1>11. /\ w.net = net /\ w.shut = {}
       /\ \A q \in cargo : w.ports[q] = WillSendPort(u.ports[q], q, to)
       /\ \A q \in PortName \ cargo : w.ports[q] = u.ports[q]
  <2>1. w.shut = {}
    BY DEF Numbered, WillSendMessages, World
  <2>2. /\ w.net = net
        /\ \A q \in cargo : w.ports[q] = WillSendPort(ports[q], q, to)
        /\ w.ports[p] = [port EXCEPT !.next_sequence_num_to_send = @ + 1]
        /\ \A q \in PortName \ cargo : q # p => w.ports[q] = ports[q]
    BY <1>3, NumberedFields
  <2> HIDE DEF w, u, to, port
  <2> QED BY <1>3, <1>8, <2>1, <2>2
<1>12. /\ event.type = "User"
       /\ event.port_name = port.peer_port_name
       /\ event.sequence_num = m.sequence_num
       /\ event.body = m.body
       /\ Describes(World, cargo, event)
  <2> HIDE DEF m, port
  <2> QED BY <1>3, <1>6, UserEventDescribes
<1>13. /\ m.sequence_num = port.next_sequence_num_to_send
       /\ m.body = sent[e] + 1
  BY DEF Outgoing
<1>14. /\ port.next_sequence_num_to_send = sent[e] + 1
       /\ EndOf(port.peer_port_name) = Other(e)
  BY <1>1, <1>8 DEF Truth, PortTrue, Counts, AtEnd
<1>15. Written(sent', EndOf(event.port_name), event)
  <2>1. Other(Other(e)) = e
    BY <1>1, OtherOther
  <2>2. event.sequence_num = sent[e] + 1 /\ event.body = sent[e] + 1
    BY <1>12, <1>13, <1>14
  <2>3. EndOf(event.port_name) = Other(e)
    BY <1>12, <1>14
  <2> HIDE DEF event, e
  <2> QED BY <1>7, <2>1, <2>2, <2>3 DEF Written
<1>16. Describes(u, cargo, event)
  <2>1. \A q \in cargo : u.ports[q] = World.ports[q]
    BY <1>3, <1>8
  <2> HIDE DEF u, event
  <2> QED BY <1>12, <2>1 DEF Describes
<1> DEFINE U == {event}
<1>17. Truth(w, E \cup U, sent')
  <2>1. \A q \in cargo : u.ports[q].state = "Receiving"
    BY <1>3, <1>8
  <2>2. Events(w) \subseteq E \cup U /\ w.shut = u.shut
    BY <1>8, <1>11 DEF Events, World
  <2>3. \A ev \in U : /\ ev.type = "User"
                      /\ Written(sent', EndOf(ev.port_name), ev)
                      /\ Describes(u, cargo, ev)
    BY <1>12, <1>15, <1>16
  <2> HIDE DEF w, u, event, U, E, to
  <2> QED BY <1>3, <1>6, <1>9, <1>10, <1>11, <2>1, <2>2, <2>3, TruthSend
<1>18. to \in Nodes => IsUserEvent(event)
  <2> HIDE DEF m, port
  <2> QED BY <1>1, <1>3, <1>4, WorldType, UserEventType DEF port
<1>19. HandOf(event) = Leaving(cargo)
  <2>1. \A k \in Kinds : \A x \in PortName :
          Claims(event, k, x) <=> <<k, x>> \in Leaving(cargo)
    BY <1>3, UserEventClaims
  <2> HIDE DEF event
  <2>2. HandOf(event) \subseteq Leaving(cargo)
    BY <2>1 DEF HandOf
  <2>3. Leaving(cargo) \subseteq HandOf(event)
    BY <2>1 DEF HandOf, Leaving
  <2> QED BY <2>2, <2>3
<1>20. \A r \in DOMAIN event.descriptors :
         Referred(w, to, r, event.descriptors[r])
  <2> HIDE DEF w, m
  <2> QED BY <1>2, <1>3, UserEventReferred
<1>21. Events(w) = E
  BY <1>11 DEF Events, World
<1> HIDE DEF w, m, event, n, to, u, E
<1>22. ASSUME to = n
       PROVE  IsWorld(accepted) /\ \E F : Truth(accepted, F, sent')
  <2>1. IsUserEvent(event)
    BY <1>1, <1>18, <1>22
  <2>2. event.port_name \in PortName
    BY <2>1 DEF IsUserEvent
  <2>3. MaySendOn(w, event)
    BY <1>2, <1>5, <1>12, <1>22, <2>2 DEF MaySendOn, MayForward
  <2>4. \A r \in DOMAIN event.descriptors :
          Referred(w, n, r, event.descriptors[r])
    BY <1>20, <1>22
  <2>5. IsWorld(accepted)
    BY <1>1, <1>2, <2>1, <2>3, AcceptMessageType
  <2> DEFINE known == E \cup U
  <2>6. event \in known /\ known \subseteq Events(w) \cup {event}
    BY <1>21
  <2>7. Truth(w, known, sent') /\ Good(w, HandOf(event))
    BY <1>2, <1>17, <1>19
  <2> HIDE DEF known
  <2>8. \E F : Truth(accepted, F, sent')
    BY <1>1, <1>2, <1>7, <2>1, <2>3, <2>4, <2>6, <2>7, TruthAcceptMessage
  <2> QED BY <2>5, <2>8
<1>23. IsWorld(forwarded) /\ \E F : Truth(forwarded, F, sent')
  <2>1. IsWorld(forwarded)
    BY <1>1, <1>2, <1>18, ForwardMessageType
  <2>2. event \in E \cup U
    OBVIOUS
  <2>3. Truth(forwarded, (E \cup U) \cup {event}, sent')
    BY <1>2, <1>17, <2>2, TruthForward
  <2> QED BY <2>1, <2>3
<1> HIDE DEF accepted, forwarded
<1> DEFINE after == IF to = n THEN accepted ELSE forwarded
<1>24. IsWorld(after) /\ \E F : Truth(after, F, sent')
  BY <1>22, <1>23
<1>25. Become(after)
  BY <1>5
<1> HIDE DEF after
<1> QED BY <1>5, <1>24, <1>25, TruthBecome

\* Two ports that differ at most in whether their embedder is told.
Alike(port, new) ==
  /\ new.state = port.state
  /\ new.peer_node_name = port.peer_node_name
  /\ new.peer_port_name = port.peer_port_name
  /\ new.message_queue.heap = port.message_queue.heap
  /\ new.message_queue.next_sequence_num = port.message_queue.next_sequence_num
  /\ new.next_sequence_num_to_send = port.next_sequence_num_to_send
  /\ new.last_sequence_num_to_receive = port.last_sequence_num_to_receive
  /\ new.remove_proxy_on_last_message = port.remove_proxy_on_last_message
  /\ new.peer_closed = port.peer_closed

(***************************************************************************)
(* What a step that is no handler has to keep: an end that knows of a      *)
(* closure goes on to know, and what is new is true.                       *)
(***************************************************************************)
LEMMA TruthNext ==
  ASSUME TypeOK, Truth(World, Events(World), sent), sent' = sent,
         DOMAIN net' \subseteq DOMAIN net,
         crashed' = {} => crashed = {},
         \A e \in End : life[e] # "unmade" => life'[e] = life[e],
         \A e \in End : life'[e] = "closed" => life[e] = "closed",
         crashed' = {} => \A p \in PortName :
           \/ AtEnd(ports'[p]) => /\ AtEnd(ports[p])
                                  /\ ports[p].peer_closed =>
                                       ports'[p].peer_closed
           \/ life[EndOf(p)] = "unmade",
         \A p \in PortName :
           \/ PortTrue(World, Events(World), sent, EndOf(p), ports[p])'
           \/ /\ ports'[p] = ports[p] \/ Alike(ports[p], ports'[p])
              /\ AtEnd(ports[p]) => /\ got'[EndOf(p)] = got[EndOf(p)]
                                    /\ EndOf(p) \in eof' => EndOf(p) \in eof,
         \A ev \in Events(World) : ev.type = "User" =>
           \A r \in DOMAIN ev.descriptors :
             /\ got'[EndOf(r)] = got[EndOf(r)]
             /\ EndOf(r) \in eof' => EndOf(r) \in eof,
         crashed' = {} => \A e \in eof' : /\ life'[Other(e)] = "closed"
                                          /\ got'[e] = sent[Other(e)]
  PROVE  Truth(World, Events(World), sent)'
<1> DEFINE E == Events(World)
           F == Events(World)'
<1>1. /\ World.ports = ports /\ World'.ports = ports'
      /\ World.shut = {} /\ World'.shut = {}
      /\ F \subseteq E
  BY DEF World, Events
<1>2. \A e \in End : IsClosed(World, e)' <=> IsClosed(World, e)
  BY <1>1 DEF IsClosed
<1>3. ASSUME NEW e \in End, NEW x, NEW next, Counts(World, sent, e, x, next),
             got'[e] = got[e], e \in eof' => e \in eof
      PROVE  Counts(World, sent, e, x, next)'
  BY <1>1, <1>2, <1>3, OtherEnd DEF Counts, Heard
<1>4. ASSUME NEW e \in End, NEW last, Finished(World, E, sent, e, last),
             crashed' = {}
      PROVE  Finished(World, Events(World), sent, e, last)'
  <2>1. life[e] # "unmade" /\ Knows(World, E, e)
    BY <1>4 DEF Finished
  <2>2. ASSUME NEW p \in PortName, EndOf(p) = e, AtEnd(ports'[p])
        PROVE  ports'[p].peer_closed
    BY <1>1, <1>4, <2>1, <2>2 DEF Knows
  <2>3. Knows(World, Events(World), e)'
    BY <1>1, <2>1, <2>2 DEF Knows
  <2> QED BY <1>1, <1>2, <1>4, <2>1, <2>3, OtherEnd DEF Finished
<1>5. ASSUME NEW p \in PortName
      PROVE  PortTrue(World, Events(World), sent, EndOf(p), World.ports[p])'
  <2>1. PortTrue(World, E, sent, EndOf(p), ports[p])
    BY <1>1 DEF Truth
  <2>2. EndOf(p) \in End /\ Other(EndOf(p)) \in End
    BY EndOfType, OtherEnd
  <2>3. CASE PortTrue(World, Events(World), sent, EndOf(p), ports[p])'
    BY <1>1, <2>3
  <2>4. CASE /\ ports'[p] = ports[p] \/ Alike(ports[p], ports'[p])
             /\ AtEnd(ports[p]) => /\ got'[EndOf(p)] = got[EndOf(p)]
                                   /\ EndOf(p) \in eof' => EndOf(p) \in eof
    <3>1. Alike(ports[p], ports'[p])
      BY <2>4 DEF Alike
    <3>2. PortTrue(World, E, sent, EndOf(p), ports'[p])
      BY <2>1, <3>1 DEF PortTrue, AtEnd, Counts, Heard, Alike
    <3>3. AtEnd(ports'[p]) => /\ got'[EndOf(p)] = got[EndOf(p)]
                              /\ EndOf(p) \in eof' => EndOf(p) \in eof
      BY <2>4, <3>1 DEF AtEnd, Alike
    <3> HIDE DEF E
    <3> QED BY <1>1, <1>3, <1>4, <2>2, <3>2, <3>3 DEF PortTrue, AtEnd, Written
  <2> QED BY <2>3, <2>4
<1>6. ASSUME NEW ev \in F
      PROVE  EventTrue(World, Events(World), sent, ev)'
  <2>1. ev \in E /\ EventTrue(World, E, sent, ev)
    BY <1>1 DEF Truth
  <2>2. /\ EndOf(ev.port_name) \in End /\ Other(EndOf(ev.port_name)) \in End
        /\ ev.type = "User" => \A r \in DOMAIN ev.descriptors : EndOf(r) \in End
    BY <2>1, WorldType, EventEnds, OtherEnd
  <2> HIDE DEF E, F
  <2>3. ev.type = "User" => \A r \in DOMAIN ev.descriptors :
          /\ got'[EndOf(r)] = got[EndOf(r)]
          /\ EndOf(r) \in eof' => EndOf(r) \in eof
    BY <2>1 DEF E
  <2> QED BY <1>1, <1>3, <1>4, <2>1, <2>2, <2>3
          DEF EventTrue, DescriptorTrue, Written
<1>7. crashed' = {} => \A e \in eof' : /\ IsClosed(World, Other(e))'
                                       /\ got'[e] = sent'[Other(e)]
  BY DEF IsClosed
<1> QED BY <1>1, <1>5, <1>6, <1>7 DEF Truth

\* A port is initialized.
LEMMA InitializePortTruth ==
  ASSUME TypeOK, Truth(World, Events(World), sent), NEW e \in End,
         InitializePort(e)
  PROVE  Truth(World, Events(World), sent)'
<1> DEFINE p == FirstPort(e)
           peer == FirstPort(Other(e))
           new == Initialized(ports[p], Home[Other(e)], peer)
<1>1. /\ p \in PortName /\ EndOf(p) = e
      /\ peer \in PortName /\ EndOf(peer) = Other(e)
  BY EndParts, FirstName, OtherEnd
<1>2. /\ ports[p].state = "Uninitialized"
      /\ ports' = [ports EXCEPT ![p] = new]
      /\ net' = net /\ crashed' = crashed /\ life' = life /\ sent' = sent
      /\ got' = got /\ eof' = eof
  BY DEF InitializePort
<1>3. /\ ports'[p] = new
      /\ \A q \in PortName : q # p => ports'[q] = ports[q]
  BY <1>1, <1>2 DEF TypeOK
<1>4. /\ new.state = "Receiving"
      /\ new.peer_port_name = peer
      /\ new.message_queue = ports[p].message_queue
      /\ new.next_sequence_num_to_send = ports[p].next_sequence_num_to_send
      /\ new.last_sequence_num_to_receive =
           ports[p].last_sequence_num_to_receive
      /\ new.remove_proxy_on_last_message =
           ports[p].remove_proxy_on_last_message
      /\ new.peer_closed = ports[p].peer_closed
  <2>1. ports[p] \in Port
    BY <1>1 DEF TypeOK
  <2> QED BY <2>1 DEF Initialized, Port
<1>5. PortTrue(World, Events(World), sent, e, ports[p])
  BY <1>1 DEF Truth, World
<1>6. World'.shut = {} /\ World.shut = {}
  BY DEF World
<1> HIDE DEF new, p, peer
<1>7. ASSUME NEW x, x = new
      PROVE  PortTrue(World, Events(World), sent, e, x)'
  BY <1>1, <1>2, <1>4, <1>5, <1>6, <1>7
     DEF PortTrue, AtEnd, Counts, Heard, IsClosed, Written
<1>8. PortTrue(World, Events(World), sent, EndOf(p), ports[p])'
  BY <1>1, <1>3, <1>7
<1>9. crashed' = {} => \A x \in eof' : /\ life'[Other(x)] = "closed"
                                       /\ got'[x] = sent[Other(x)]
  BY <1>2, <1>6 DEF Truth, IsClosed
<1>10. \A q \in PortName : AtEnd(ports'[q]) =>
         AtEnd(ports[q]) /\ (ports[q].peer_closed => ports'[q].peer_closed)
  BY <1>2, <1>3, <1>4 DEF AtEnd
<1>11. \A q \in PortName :
         \/ PortTrue(World, Events(World), sent, EndOf(q), ports[q])'
         \/ ports'[q] = ports[q]
  BY <1>3, <1>8
<1> QED BY <1>2, <1>9, <1>10, <1>11, TruthNext

\* An end that is not made yet has done nothing.
Unborn ==
  \A e \in End : life[e] = "unmade" =>
    sent[e] = 0 /\ got[e] = 0 /\ e \notin eof

\* A port that is made is an end at which nothing has happened.
NewEnd(port, e) ==
  /\ AtEnd(port)
  /\ port.next_sequence_num_to_send = 1
  /\ port.message_queue.next_sequence_num = 1
  /\ port.message_queue.heap = {}
  /\ port.remove_proxy_on_last_message = FALSE
  /\ port.peer_closed = FALSE
  /\ port.state = "Uninitialized" => port.peer_node_name = NoNode
  /\ port.state = "Receiving" => port.peer_port_name = FirstPort(Other(e))

\* Ends are made that were unmade.
LEMMA CreateTruth ==
  ASSUME TypeOK, Truth(World, Events(World), sent), Unborn,
         NEW D \in SUBSET End,
         \A e \in D : life[e] = "unmade" /\ life'[e] = "open",
         \A e \in End \ D : life'[e] = life[e],
         net' = net, crashed' = crashed, sent' = sent, got' = got, eof' = eof,
         \A e \in D : NewEnd(ports'[FirstPort(e)], e),
         \A q \in PortName : (\A e \in D : q # FirstPort(e)) =>
           ports'[q] = ports[q]
  PROVE  Truth(World, Events(World), sent)' /\ Unborn'
<1>1. \A e \in D : FirstPort(e) \in PortName /\ EndOf(FirstPort(e)) = e
  BY EndParts, FirstName
<1>2. ASSUME NEW e \in D
      PROVE  PortTrue(World, Events(World), sent, e, ports[FirstPort(e)])'
  <2> DEFINE port == ports'[FirstPort(e)]
  <2>1. NewEnd(port, e)
    OBVIOUS
  <2>2. /\ life'[e] = "open" /\ sent'[e] = 0 /\ got'[e] = 0 /\ e \notin eof'
        /\ World'.shut = {}
    BY DEF Unborn, World
  <2>3. /\ FirstPort(Other(e)) \in PortName
        /\ EndOf(FirstPort(Other(e))) = Other(e)
    BY OtherEnd, EndParts, FirstName
  <2> HIDE DEF port
  <2>4. \A x : x = port =>
          PortTrue(World, Events(World), sent, e, x)'
    BY <2>1, <2>2, <2>3 DEF NewEnd, PortTrue, AtEnd, Counts, Heard
  <2> QED BY <2>4 DEF port
<1>3. ASSUME NEW p \in PortName
      PROVE  \/ PortTrue(World, Events(World), sent, EndOf(p), ports[p])'
             \/ ports'[p] = ports[p]
  <2>1. CASE \E e \in D : p = FirstPort(e)
    BY <1>1, <1>2, <2>1
  <2> QED BY <2>1
<1>4. \A p \in PortName :
        ports'[p] = ports[p] \/ life[EndOf(p)] = "unmade"
  BY <1>1
<1>5. \A e \in End : /\ life[e] # "unmade" => life'[e] = life[e]
                     /\ life'[e] = "closed" => life[e] = "closed"
                     /\ life'[e] = "unmade" => life[e] = "unmade"
  <2> SUFFICES ASSUME NEW e \in End
               PROVE  /\ life[e] # "unmade" => life'[e] = life[e]
                      /\ life'[e] = "closed" => life[e] = "closed"
                      /\ life'[e] = "unmade" => life[e] = "unmade"
    OBVIOUS
  <2>1. CASE e \in D
    BY <2>1
  <2> QED BY <2>1
<1>6. crashed' = {} => \A x \in eof' : /\ life'[Other(x)] = "closed"
                                       /\ got'[x] = sent[Other(x)]
  <2>1. World.shut = {} /\ eof \subseteq End
    BY DEF World, TypeOK
  <2> QED BY <1>5, <2>1, OtherEnd DEF Truth, IsClosed
<1>7. Unborn'
  BY <1>5 DEF Unborn
<1>8. Truth(World, Events(World), sent)'
  BY <1>3, <1>4, <1>5, <1>6, TruthNext
<1> QED BY <1>7, <1>8

\* The fields of a port that is made.
LEMMA MadePortFields ==
  ASSUME NEW e, NEW node, NEW peer_node
  PROVE  LET new == NewPort(node, kInitialSequenceNum, kInitialSequenceNum)
         IN /\ NewEnd(new, e)
            /\ NewEnd(Initialized(new, peer_node, FirstPort(Other(e))), e)
  BY DEF NewPort, Initialized, NewMessageQueue, NewEnd, AtEnd,
         kInitialSequenceNum

\* One end is made.
LEMMA CreateUninitializedPortTruth ==
  ASSUME TypeOK, Truth(World, Events(World), sent), Unborn, NEW e \in End,
         CreateUninitializedPort(e)
  PROVE  Truth(World, Events(World), sent)' /\ Unborn'
<1> DEFINE p == FirstPort(e)
           new == NewPort(Home[e], kInitialSequenceNum, kInitialSequenceNum)
           D == {e}
<1>1. p \in PortName
  BY EndParts
<1>2. /\ life[e] = "unmade"
      /\ ports' = [ports EXCEPT ![p] = new]
      /\ life' = [life EXCEPT ![e] = "open"]
      /\ net' = net /\ crashed' = crashed /\ sent' = sent /\ got' = got
      /\ eof' = eof
  BY DEF CreateUninitializedPort
<1>3. NewEnd(new, e)
  BY MadePortFields
<1> HIDE DEF new
<1>4. ports'[p] = new /\ \A q \in PortName : q # p => ports'[q] = ports[q]
  BY <1>1, <1>2 DEF TypeOK
<1>5. life'[e] = "open" /\ \A x \in End : x # e => life'[x] = life[x]
  BY <1>2 DEF TypeOK
<1>6. /\ D \in SUBSET End
      /\ \A x \in D : life[x] = "unmade" /\ life'[x] = "open"
      /\ \A x \in End \ D : life'[x] = life[x]
      /\ \A x \in D : NewEnd(ports'[FirstPort(x)], x)
      /\ \A q \in PortName : (\A x \in D : q # FirstPort(x)) =>
           ports'[q] = ports[q]
  BY <1>2, <1>3, <1>4, <1>5
<1> HIDE DEF D
<1> QED BY <1>2, <1>6, CreateTruth

\* Two ends are made.
LEMMA CreatePortPairTruth ==
  ASSUME TypeOK, Truth(World, Events(World), sent), Unborn, NEW pipe \in Pipes,
         CreatePortPair(pipe)
  PROVE  Truth(World, Events(World), sent)' /\ Unborn'
<1> DEFINE e0 == <<pipe, 0>>
           e1 == <<pipe, 1>>
           new(e) == Initialized(
                       NewPort(Home[e], kInitialSequenceNum,
                               kInitialSequenceNum),
                       Home[Other(e)], FirstPort(Other(e)))
           D == {e0, e1}
<1>1. /\ e0 \in End /\ e1 \in End /\ e0 # e1
      /\ FirstPort(e0) \in PortName /\ FirstPort(e1) \in PortName
      /\ FirstPort(e0) # FirstPort(e1)
  <2>1. e0 \in End /\ e1 \in End
    BY DEF End
  <2>2. FirstPort(e0) # FirstPort(e1)
    BY DEF FirstPort
  <2> HIDE DEF e0, e1
  <2>3. FirstPort(e0) \in PortName /\ FirstPort(e1) \in PortName
    BY <2>1, EndParts
  <2> QED BY <2>1, <2>2, <2>3 DEF e0, e1
<1>2. /\ life[e0] = "unmade" /\ life[e1] = "unmade"
      /\ ports' = [ports EXCEPT ![FirstPort(e0)] = new(e0),
                                ![FirstPort(e1)] = new(e1)]
      /\ life' = [life EXCEPT ![e0] = "open", ![e1] = "open"]
      /\ net' = net /\ crashed' = crashed /\ sent' = sent /\ got' = got
      /\ eof' = eof
  BY DEF CreatePortPair
<1>3. NewEnd(new(e0), e0) /\ NewEnd(new(e1), e1)
  BY MadePortFields
<1> HIDE DEF new, e0, e1
<1>4. /\ ports'[FirstPort(e0)] = new(e0) /\ ports'[FirstPort(e1)] = new(e1)
      /\ \A q \in PortName : q # FirstPort(e0) /\ q # FirstPort(e1) =>
           ports'[q] = ports[q]
  BY <1>1, <1>2 DEF TypeOK
<1>5. /\ life'[e0] = "open" /\ life'[e1] = "open"
      /\ \A x \in End : x # e0 /\ x # e1 => life'[x] = life[x]
  BY <1>1, <1>2 DEF TypeOK
<1>6. /\ D \in SUBSET End
      /\ \A x \in D : life[x] = "unmade" /\ life'[x] = "open"
      /\ \A x \in End \ D : life'[x] = life[x]
      /\ \A x \in D : NewEnd(ports'[FirstPort(x)], x)
      /\ \A q \in PortName : (\A x \in D : q # FirstPort(x)) =>
           ports'[q] = ports[q]
  BY <1>1, <1>2, <1>3, <1>4, <1>5
<1> HIDE DEF D
<1> QED BY <1>2, <1>6, CreateTruth

\* A port that is read from, in what Truth is about.
LEMMA ReadFields ==
  ASSUME NEW port \in Port, NEW m
  PROVE  LET new == [port EXCEPT !.message_queue = AfterGetNextMessage(@, m)]
         IN /\ new.state = port.state
            /\ new.peer_node_name = port.peer_node_name
            /\ new.peer_port_name = port.peer_port_name
            /\ new.message_queue.heap = port.message_queue.heap \ {m}
            /\ new.message_queue.next_sequence_num =
                 port.message_queue.next_sequence_num + 1
            /\ new.next_sequence_num_to_send = port.next_sequence_num_to_send
            /\ new.last_sequence_num_to_receive =
                 port.last_sequence_num_to_receive
            /\ new.remove_proxy_on_last_message =
                 port.remove_proxy_on_last_message
            /\ new.peer_closed = port.peer_closed
  BY DEF AfterGetNextMessage, Port

\* A port that its embedder may be told about.
LEMMA SignalableAlike ==
  ASSUME NEW port \in Port
  PROVE  Alike(port, [port EXCEPT !.message_queue = SetSignalable(@, TRUE)])
  BY DEF SetSignalable, Port, Alike

(***************************************************************************)
(* What is read: the message after the last one that was read, under the   *)
(* number its sender gave it, and never after the end of the pipe was      *)
(* reported (while no node is lost).                                       *)
(***************************************************************************)
LEMMA GetMessageReads ==
  ASSUME TypeOK, Truth(World, Events(World), sent), NEW p \in PortName,
         NEW m \in ports[p].message_queue.heap, GetMessage(p, m)
  PROVE  /\ EndOf(p) \in End
         /\ life[EndOf(p)] = "open"
         /\ m.body = got[EndOf(p)] + 1
         /\ m.body <= sent[Other(EndOf(p))]
         /\ got' = [got EXCEPT ![EndOf(p)] = @ + 1]
         /\ crashed = {} => EndOf(p) \notin eof
<1> DEFINE e == EndOf(p)
           port == ports[p]
<1>1. /\ port.state = "Receiving"
      /\ CanAcceptMoreMessages(port)
      /\ m \in NextMessages(port.message_queue)
      /\ got' = [got EXCEPT ![e] = m.body]
  BY DEF GetMessage, Held
<1>2. PortTrue(World, Events(World), sent, e, port)
  BY DEF Truth, World
<1>3. Written(sent, e, m)
  BY <1>2 DEF PortTrue
<1>4. Counts(World, sent, e, port, port.message_queue.next_sequence_num)
  BY <1>1, <1>2 DEF PortTrue, AtEnd
<1>5. m.sequence_num = got[e] + 1
  BY <1>1, <1>4 DEF NextMessages, Counts
<1>6. e \in End /\ got \in [End -> Nat] /\ got[e] \in Nat
  BY EndOfType DEF TypeOK
<1>7. m.body = got[e] + 1 /\ m.body <= sent[Other(e)]
  BY <1>3, <1>5 DEF Written
<1>8. ASSUME crashed = {}, e \in eof PROVE FALSE
  <2>1. port.peer_closed /\ port.last_sequence_num_to_receive = sent[Other(e)]
    BY <1>4, <1>8 DEF Counts, Heard
  <2>2. got[e] = sent[Other(e)]
    BY <1>8 DEF Truth
  <2>3. port.message_queue.next_sequence_num - 1 = got[e]
    BY <1>4, <1>6 DEF Counts
  <2> QED BY <1>1, <2>1, <2>2, <2>3 DEF CanAcceptMoreMessages
<1>9. life[e] = "open"
  BY <1>4 DEF Counts
<1> QED BY <1>1, <1>6, <1>7, <1>8, <1>9

\* A message is read.
LEMMA GetMessageTruth ==
  ASSUME TypeOK, Good(World, {}), Truth(World, Events(World), sent),
         NEW p \in PortName, NEW m \in ports[p].message_queue.heap,
         GetMessage(p, m)
  PROVE  Truth(World, Events(World), sent)'
<1> DEFINE e == EndOf(p)
           port == ports[p]
           new == [port EXCEPT !.message_queue = AfterGetNextMessage(@, m)]
<1>1. /\ e \in End /\ got' = [got EXCEPT ![e] = @ + 1]
      /\ crashed = {} => e \notin eof
  BY GetMessageReads
<1>2. /\ port.state = "Receiving" /\ port \in Port
      /\ net' = net /\ crashed' = crashed /\ life' = life /\ sent' = sent
      /\ eof' = eof
      /\ ports'[p] = new
      /\ \A q \in PortName : q # p =>
           \/ ports'[q] = ports[q]
           \/ ports'[q] =
                [ports[q] EXCEPT !.message_queue = SetSignalable(@, TRUE)]
  BY DEF GetMessage, Held, TypeOK
<1>3. got \in [End -> Nat] /\ eof \subseteq End
  BY DEF TypeOK
<1>4. /\ got'[e] = got[e] + 1 /\ got[e] \in Nat
      /\ \A x \in End : x # e => got'[x] = got[x]
  <2> HIDE DEF e
  <2> QED BY <1>1, <1>3
<1>5. \A q \in PortName : q # p => Alike(ports[q], ports'[q])
  <2> SUFFICES ASSUME NEW q \in PortName, q # p
               PROVE  Alike(ports[q], ports'[q])
    OBVIOUS
  <2>1. ports[q] \in Port
    BY DEF TypeOK
  <2>2. Alike(ports[q],
              [ports[q] EXCEPT !.message_queue = SetSignalable(@, TRUE)])
    BY <2>1, SignalableAlike
  <2> QED BY <1>2, <2>2 DEF Alike
<1>6. /\ \A q \in PortName : q # p /\ AtEnd(ports[q]) => EndOf(q) # e
      /\ \A ev \in Events(World) : ev.type = "User" =>
           \A r \in DOMAIN ev.descriptors : EndOf(r) # e
  <2>1. AtEnd(World.ports[p]) /\ World.ports = ports
    BY <1>2 DEF AtEnd, World
  <2> QED BY <2>1, WorldType, EndAlone
<1>7. PortTrue(World, Events(World), sent, e, port)
  BY DEF Truth, World
<1>8. Counts(World, sent, e, port, port.message_queue.next_sequence_num)
  BY <1>2, <1>7 DEF PortTrue, AtEnd
<1>9. /\ new.state = port.state
      /\ new.peer_node_name = port.peer_node_name
      /\ new.peer_port_name = port.peer_port_name
      /\ new.message_queue.heap = port.message_queue.heap \ {m}
      /\ new.message_queue.next_sequence_num =
           port.message_queue.next_sequence_num + 1
      /\ new.next_sequence_num_to_send = port.next_sequence_num_to_send
      /\ new.last_sequence_num_to_receive = port.last_sequence_num_to_receive
      /\ new.remove_proxy_on_last_message = port.remove_proxy_on_last_message
      /\ new.peer_closed = port.peer_closed
  BY <1>2, ReadFields
<1>10. World'.shut = {} /\ World.shut = {}
  BY DEF World
<1> HIDE DEF new, port, e
<1>11. ASSUME NEW x, x = new
       PROVE  PortTrue(World, Events(World), sent, e, x)'
  <2>1. x.message_queue.next_sequence_num = got'[e] + 1
    BY <1>4, <1>8, <1>9, <1>11 DEF Counts
  <2>2. Counts(World, sent, e, x, x.message_queue.next_sequence_num)'
    BY <1>2, <1>8, <1>9, <1>10, <1>11, <2>1 DEF Counts, Heard, IsClosed
  <2> QED BY <1>2, <1>7, <1>9, <1>11, <2>2 DEF PortTrue, AtEnd, Written
<1>12. PortTrue(World, Events(World), sent, EndOf(p), ports[p])'
  BY <1>2, <1>11 DEF e
<1>13. ASSUME NEW q \in PortName
       PROVE  \/ PortTrue(World, Events(World), sent, EndOf(q), ports[q])'
              \/ /\ Alike(ports[q], ports'[q])
                 /\ AtEnd(ports[q]) => got'[EndOf(q)] = got[EndOf(q)]
  <2>1. CASE q = p
    BY <1>12, <2>1
  <2>2. CASE q # p
    BY <1>4, <1>5, <1>6, <2>2, EndOfType
  <2> QED BY <2>1, <2>2
<1>14. \A q \in PortName : AtEnd(ports'[q]) =>
         AtEnd(ports[q]) /\ (ports[q].peer_closed => ports'[q].peer_closed)
  BY <1>2, <1>5, <1>9 DEF AtEnd, Alike, port
<1>15. \A ev \in Events(World) : ev.type = "User" =>
         \A r \in DOMAIN ev.descriptors : got'[EndOf(r)] = got[EndOf(r)]
  BY <1>4, <1>6, WorldType, EventEnds
<1>16. crashed' = {} => \A x \in eof' : /\ life'[Other(x)] = "closed"
                                        /\ got'[x] = sent[Other(x)]
  <2> SUFFICES ASSUME crashed = {}, NEW x \in eof
               PROVE  life[Other(x)] = "closed" /\ got'[x] = sent[Other(x)]
    BY <1>2
  <2>1. life[Other(x)] = "closed" /\ got[x] = sent[Other(x)]
    BY <1>10 DEF Truth, IsClosed
  <2> QED BY <1>1, <1>3, <1>4, <2>1
<1> QED BY <1>2, <1>13, <1>14, <1>15, <1>16, TruthNext

\* The end of the pipe is reported, when the other end is closed and all that
\* it sent was read (while no node is lost).
LEMMA GetNothingReports ==
  ASSUME TypeOK, Truth(World, Events(World), sent), NEW p \in PortName,
         GetNothing(p), ~CanAcceptMoreMessages(ports[p])
  PROVE  /\ EndOf(p) \in End
         /\ life[EndOf(p)] = "open"
         /\ crashed = {} => /\ ports[p].peer_closed
                            /\ life[Other(EndOf(p))] = "closed"
                            /\ got[EndOf(p)] = sent[Other(EndOf(p))]
         /\ eof' = eof \cup {EndOf(p)}
<1> DEFINE e == EndOf(p)
           port == ports[p]
<1>1. port.state = "Receiving" /\ eof' = eof \cup {e}
  BY DEF GetNothing, Held
<1>2. PortTrue(World, Events(World), sent, e, port)
  BY DEF Truth, World
<1>3. /\ Counts(World, sent, e, port, port.message_queue.next_sequence_num)
      /\ crashed = {} /\ port.remove_proxy_on_last_message =>
           port.peer_closed
  BY <1>1, <1>2 DEF PortTrue, AtEnd
<1>4. /\ port.peer_closed \/ port.remove_proxy_on_last_message
      /\ port.last_sequence_num_to_receive =
           port.message_queue.next_sequence_num - 1
  BY DEF CanAcceptMoreMessages
<1>5. e \in End /\ got[e] \in Nat
  BY EndOfType DEF TypeOK
<1>6. World.shut = {}
  BY DEF World
<1>7. ASSUME crashed = {}
      PROVE  /\ port.peer_closed
             /\ life[Other(e)] = "closed"
             /\ got[e] = sent[Other(e)]
  <2>1. port.peer_closed
    BY <1>3, <1>4, <1>7
  <2>2. /\ life[Other(e)] = "closed"
        /\ port.last_sequence_num_to_receive = sent[Other(e)]
    BY <1>3, <1>6, <1>7, <2>1 DEF Counts, Heard, IsClosed
  <2>3. port.message_queue.next_sequence_num - 1 = got[e]
    BY <1>3, <1>5 DEF Counts
  <2> QED BY <1>4, <2>1, <2>2, <2>3
<1> QED BY <1>1, <1>3, <1>5, <1>7 DEF Counts

\* There is no message: the embedder waits, or is told of the end.
LEMMA GetNothingTruth ==
  ASSUME TypeOK, Good(World, {}), Truth(World, Events(World), sent),
         NEW p \in PortName, GetNothing(p)
  PROVE  Truth(World, Events(World), sent)'
<1> DEFINE e == EndOf(p)
           port == ports[p]
<1>1. /\ port.state = "Receiving"
      /\ ports' = ports /\ net' = net /\ crashed' = crashed /\ life' = life
      /\ sent' = sent /\ got' = got
  BY DEF GetNothing, Held
<1>2. World'.shut = {} /\ World.shut = {} /\ World.ports = ports
  BY DEF World
<1>3. crashed = {} => \A x \in eof : /\ life[Other(x)] = "closed"
                                     /\ got[x] = sent[Other(x)]
  BY <1>2 DEF Truth, IsClosed
<1>4. CASE CanAcceptMoreMessages(port)
  <2>1. eof' = eof
    BY <1>4 DEF GetNothing
  <2> QED BY <1>1, <1>3, <2>1, TruthNext
<1>5. CASE ~CanAcceptMoreMessages(port)
  <2>1. /\ eof' = eof \cup {e} /\ e \in End /\ life[e] = "open"
        /\ crashed = {} => /\ port.peer_closed
                           /\ life[Other(e)] = "closed"
                           /\ got[e] = sent[Other(e)]
    BY <1>5, GetNothingReports
  <2>2. /\ \A q \in PortName : q # p /\ AtEnd(ports[q]) => EndOf(q) # e
        /\ \A ev \in Events(World) : ev.type = "User" =>
             \A r \in DOMAIN ev.descriptors : EndOf(r) # e
    <3>1. AtEnd(World.ports[p])
      BY <1>1, <1>2 DEF AtEnd
    <3> QED BY <1>2, <3>1, WorldType, EndAlone
  <2>3. PortTrue(World, Events(World), sent, e, port)
    BY DEF Truth, World
  <2> HIDE DEF port, e
  <2>4. ASSUME NEW x, x = port
        PROVE  PortTrue(World, Events(World), sent, e, x)'
    BY <1>1, <1>2, <2>1, <2>3, <2>4
       DEF PortTrue, AtEnd, Counts, Heard, IsClosed, Written
  <2>5. PortTrue(World, Events(World), sent, EndOf(p), ports[p])'
    BY <1>1, <2>4 DEF port, e
  <2>6. \A q \in PortName :
          \/ PortTrue(World, Events(World), sent, EndOf(q), ports[q])'
          \/ /\ ports'[q] = ports[q]
             /\ AtEnd(ports[q]) => (EndOf(q) \in eof' => EndOf(q) \in eof)
    BY <1>1, <2>1, <2>2, <2>5
  <2>7. \A ev \in Events(World) : ev.type = "User" =>
          \A r \in DOMAIN ev.descriptors : EndOf(r) \in eof' => EndOf(r) \in eof
    BY <2>1, <2>2
  <2>8. crashed' = {} => \A x \in eof' : /\ life'[Other(x)] = "closed"
                                         /\ got'[x] = sent[Other(x)]
    BY <1>1, <1>3, <2>1
  <2> QED BY <1>1, <2>6, <2>7, <2>8, TruthNext
<1> QED BY <1>4, <1>5

\* A name that is not in use says nothing after a step either.
LEMMA AbsentTrueNext ==
  ASSUME NEW e
  PROVE  PortTrue(World, Events(World), sent, e, AbsentPort)'
  BY DEF PortTrue, AtEnd, AbsentPort, NewPort, NewMessageQueue

\* A node is lost: its ports are gone, and the messages for it.
LEMMA CrashTruth ==
  ASSUME TypeOK, Truth(World, Events(World), sent), NEW n \in Nodes, Crash(n)
  PROVE  Truth(World, Events(World), sent)'
<1>1. /\ crashed' # {} /\ life' = life /\ sent' = sent /\ got' = got
      /\ eof' = eof
      /\ net' = [m \in {m \in DOMAIN net : m.to # n} |-> net[m]]
      /\ \A p \in PortName : ports'[p] = AbsentPort \/ ports'[p] = ports[p]
  BY DEF Crash
<1>2. DOMAIN net' \subseteq DOMAIN net
  BY <1>1
<1>3. \A p \in PortName :
        \/ PortTrue(World, Events(World), sent, EndOf(p), ports[p])'
        \/ ports'[p] = ports[p]
  <2> SUFFICES ASSUME NEW p \in PortName, ports'[p] = AbsentPort
               PROVE  PortTrue(World, Events(World), sent, EndOf(p), ports[p])'
    BY <1>1
  <2>1. PortTrue(World, Events(World), sent, EndOf(p), AbsentPort)'
    BY AbsentTrueNext
  <2> QED BY <2>1
<1> QED BY <1>1, <1>2, <1>3, TruthNext

\* A node finds out that another is lost.
LEMMA LostConnectionToNodeTruth ==
  ASSUME TypeOK, Truth(World, Events(World), sent), NEW n \in Nodes,
         NEW lost \in Nodes, LostConnectionToNode(n, lost)
  PROVE  Truth(World, Events(World), sent)'
<1> DEFINE cut(p) == [ports[p] EXCEPT
                        !.peer_closed = TRUE,
                        !.last_sequence_num_to_receive =
                           ports[p].message_queue.next_sequence_num - 1]
<1>1. /\ crashed # {} /\ crashed' = crashed /\ life' = life /\ sent' = sent
      /\ got' = got /\ eof' = eof
      /\ net' = [m \in DOMAIN net \
                   {m \in DOMAIN net : m.from = lost /\ m.to = n} |-> net[m]]
      /\ \A p \in PortName : \/ ports'[p] = AbsentPort
                             \/ ports'[p] = ports[p]
                             \/ ports'[p] = cut(p)
  BY DEF LostConnectionToNode
<1>2. DOMAIN net' \subseteq DOMAIN net
  BY <1>1
<1>3. ASSUME NEW p \in PortName
      PROVE  \/ PortTrue(World, Events(World), sent, EndOf(p), ports[p])'
             \/ ports'[p] = ports[p]
  <2>1. CASE ports'[p] = AbsentPort
    <3>1. PortTrue(World, Events(World), sent, EndOf(p), AbsentPort)'
      BY AbsentTrueNext
    <3> QED BY <2>1, <3>1
  <2>2. CASE ports'[p] = cut(p)
    <3> DEFINE port == ports[p]
               new == cut(p)
    <3>1. port \in Port
      BY DEF TypeOK
    <3>2. /\ new.state = port.state
          /\ new.peer_node_name = port.peer_node_name
          /\ new.peer_port_name = port.peer_port_name
          /\ new.message_queue = port.message_queue
          /\ new.next_sequence_num_to_send = port.next_sequence_num_to_send
      BY <3>1 DEF Port
    <3>3. PortTrue(World, Events(World), sent, EndOf(p), port)
      BY DEF Truth, World
    <3>4. World'.shut = {} /\ World.shut = {}
      BY DEF World
    <3> HIDE DEF new, port, cut
    <3>5. ASSUME NEW x, x = new
          PROVE  PortTrue(World, Events(World), sent, EndOf(p), x)'
      BY <1>1, <3>2, <3>3, <3>4, <3>5 DEF PortTrue, AtEnd, Counts, Written
    <3> QED BY <2>2, <3>5 DEF new
  <2> QED BY <1>1, <2>1, <2>2
<1> QED BY <1>1, <1>2, <1>3, TruthNext

\* The first state.
LEMMA InitTruth ==
  ASSUME Init
  PROVE  Truth(World, Events(World), sent) /\ Unborn
<1>1. /\ Events(World) = {} /\ World.shut = {} /\ World.ports = ports
      /\ eof = {} /\ sent = [e \in End |-> 0] /\ got = [e \in End |-> 0]
      /\ life = [e \in End |-> IF e[1] \in Established THEN "open"
                                                       ELSE "unmade"]
  BY DEF Init, Events, World, EmptyBag, SetToBag
<1>2. Unborn
  BY <1>1 DEF Unborn
<1>3. ASSUME NEW p \in PortName
      PROVE  PortTrue(World, Events(World), sent, EndOf(p), World.ports[p])
  <2> DEFINE e == EndOf(p)
  <2>1. e \in End /\ FirstPort(Other(e)) \in PortName
        /\ EndOf(FirstPort(Other(e))) = Other(e)
    BY EndOfType, OtherEnd, EndParts, FirstName
  <2>2. ports[p] = IF p[3] = 0 THEN InitialPort(e) ELSE AbsentPort
    BY DEF Init
  <2> HIDE DEF e
  <2>3. CASE ports[p] = AbsentPort
    BY <1>1, <2>3, AbsentTrue
  <2>4. CASE ports[p] = InitialPort(e) /\ e[1] \in Established
    <3>1. NewEnd(ports[p], e)
      BY <2>4, MadePortFields DEF InitialPort
    <3>2. life[e] = "open" /\ sent[e] = 0 /\ got[e] = 0 /\ e \notin eof
      BY <1>1, <2>1, <2>4
    <3>3. PortTrue(World, Events(World), sent, e, ports[p])
      BY <1>1, <2>1, <3>1, <3>2 DEF NewEnd, PortTrue, AtEnd, Counts, Heard
    <3> QED BY <1>1, <3>3 DEF e
  <2> QED BY <2>2, <2>3, <2>4 DEF InitialPort
<1>4. Truth(World, Events(World), sent)
  BY <1>1, <1>3 DEF Truth
<1> QED BY <1>2, <1>4

\* The sent, read and reported counts of an end that is not made stay zero.
LEMMA UnbornBecome ==
  ASSUME Unborn, NEW w, Become(w), got' = got, eof' = eof,
         \A e \in End : life[e] = "unmade" => sent'[e] = sent[e]
  PROVE  Unborn'
  BY DEF Unborn, Become

(***************************************************************************)
(* The invariant: ports and events tell the truth about what the embedders *)
(* sent, read and closed.                                                  *)
(***************************************************************************)
Honest == Truth(World, Events(World), sent) /\ Unborn

\* Every step keeps it.
LEMMA HonestStep ==
  ASSUME TypeOK, Orderly, Honest, [Next]_vars
  PROVE  Honest'
<1>1. /\ Good(World, {}) /\ Truth(World, Events(World), sent) /\ Unborn
  BY DEF Orderly, Honest
<1>2. ASSUME NEW e \in End, CreateUninitializedPort(e) PROVE Honest'
  BY <1>1, <1>2, CreateUninitializedPortTruth DEF Honest
<1>3. ASSUME NEW e \in End, InitializePort(e) PROVE Honest'
  <2>1. Unborn'
    BY <1>1, <1>3 DEF InitializePort, Unborn
  <2> QED BY <1>1, <1>3, <2>1, InitializePortTruth DEF Honest
<1>4. ASSUME NEW pipe \in Pipes, CreatePortPair(pipe) PROVE Honest'
  BY <1>1, <1>4, CreatePortPairTruth DEF Honest
<1>5. ASSUME NEW p \in PortName, NEW cargo \in SUBSET CargoFor(p),
             SendMessage(p, cargo)
      PROVE  Honest'
  <2>1. life[EndOf(p)] = "open" /\ EndOf(p) \in End
    <3>1. AtEnd(World.ports[p])
      BY <1>5 DEF SendMessage, Held, World, AtEnd
    <3> QED BY <1>1, <3>1, EndOfType DEF Truth, PortTrue, Counts
  <2>2. /\ sent' = [sent EXCEPT ![EndOf(p)] = @ + 1] /\ got' = got /\ eof' = eof
        /\ \E w : Become(w)
    BY <1>5 DEF SendMessage
  <2>3. \A e \in End : life[e] = "unmade" => sent'[e] = sent[e]
    BY <2>1, <2>2 DEF TypeOK
  <2>4. Unborn'
    BY <1>1, <2>2, <2>3, UnbornBecome
  <2> QED BY <1>1, <1>5, <2>4, SendMessageTruth DEF Honest
<1>6. ASSUME NEW p \in PortName, NEW m \in ports[p].message_queue.heap,
             GetMessage(p, m)
      PROVE  Honest'
  <2>1. life[EndOf(p)] = "open" /\ got' = [got EXCEPT ![EndOf(p)] = @ + 1]
    BY <1>1, <1>6, GetMessageReads
  <2>2. life' = life /\ sent' = sent /\ eof' = eof
    BY <1>6 DEF GetMessage
  <2>3. Unborn'
    BY <1>1, <2>1, <2>2 DEF Unborn, TypeOK
  <2> QED BY <1>1, <1>6, <2>3, GetMessageTruth DEF Honest
<1>7. ASSUME NEW p \in PortName, GetNothing(p) PROVE Honest'
  <2>1. life' = life /\ sent' = sent /\ got' = got
    BY <1>7 DEF GetNothing
  <2>2. CASE CanAcceptMoreMessages(ports[p])
    BY <1>1, <1>7, <2>1, <2>2, GetNothingTruth DEF Honest, Unborn, GetNothing
  <2>3. CASE ~CanAcceptMoreMessages(ports[p])
    <3>1. life[EndOf(p)] = "open" /\ eof' = eof \cup {EndOf(p)}
      BY <1>1, <1>7, <2>3, GetNothingReports
    <3>2. Unborn'
      BY <1>1, <2>1, <3>1 DEF Unborn
    <3> QED BY <1>1, <1>7, <3>2, GetNothingTruth DEF Honest
  <2> QED BY <2>2, <2>3
<1>8. ASSUME NEW p \in PortName, ClosePort(p) PROVE Honest'
  <2>1. got' = got /\ eof' = eof /\ sent' = sent /\ \E w : Become(w)
    BY <1>8 DEF ClosePort
  <2>2. Unborn'
    BY <1>1, <2>1, UnbornBecome
  <2> QED BY <1>1, <1>8, <2>2, ClosePortTruth DEF Honest
<1>9. ASSUME NEW envelope \in DOMAIN net, Deliver(envelope) PROVE Honest'
  <2>1. got' = got /\ eof' = eof /\ sent' = sent /\ \E w : Become(w)
    BY <1>9 DEF Deliver
  <2>2. Unborn'
    BY <1>1, <2>1, UnbornBecome
  <2> QED BY <1>1, <1>9, <2>2, DeliverTruth DEF Honest
<1>10. ASSUME NEW n \in Nodes, Crash(n) PROVE Honest'
  <2>1. Unborn'
    BY <1>1, <1>10 DEF Crash, Unborn
  <2> QED BY <1>1, <1>10, <2>1, CrashTruth DEF Honest
<1>11. ASSUME NEW n \in Nodes, NEW lost \in Nodes, LostConnectionToNode(n, lost)
       PROVE  Honest'
  <2>1. Unborn'
    BY <1>1, <1>11 DEF LostConnectionToNode, Unborn
  <2> QED BY <1>1, <1>11, <2>1, LostConnectionToNodeTruth DEF Honest
<1>12. CASE UNCHANGED vars
  BY <1>1, <1>12 DEF vars, Honest, Unborn, Truth, PortTrue, EventTrue, Events,
       World, IsClosed, AtEnd, Heard, Counts, Knows, Finished, Written,
       DescriptorTrue
<1> QED BY <1>2, <1>3, <1>4, <1>5, <1>6, <1>7, <1>8, <1>9, <1>10, <1>11, <1>12
        DEF Next, EmbedderStep, FailureStep, TransportStep

(***************************************************************************)
(* Ports and events tell the truth, whatever moves, is reordered, closed   *)
(* or lost.                                                                *)
(***************************************************************************)
THEOREM HonestAlways == Spec => []Honest
<1>1. Init => Honest
  BY InitTruth DEF Honest
<1>2. TypeOK /\ Orderly /\ Honest /\ [Next]_vars => Honest'
  BY HonestStep
<1> QED BY <1>1, <1>2, TypeCorrect, OrderlyAlways, PTL DEF Spec

\* What an embedder reads is the message that follows the last it read, and
\* one that the other end has sent.
ReadsNext ==
  \A e \in End : got'[e] # got[e] =>
    got'[e] = got[e] + 1 /\ got'[e] <= sent[Other(e)]

\* Only GetMessage reads.
LEMMA StepReads ==
  ASSUME TypeOK, Honest, [Next]_vars
  PROVE  ReadsNext
<1>1. ASSUME NEW p \in PortName, NEW m \in ports[p].message_queue.heap,
             GetMessage(p, m)
      PROVE  ReadsNext
  <2> DEFINE a == EndOf(p)
  <2>1. /\ a \in End /\ m.body = got[a] + 1 /\ m.body <= sent[Other(a)]
        /\ got' = [got EXCEPT ![a] = @ + 1] /\ got \in [End -> Nat]
    BY <1>1, GetMessageReads DEF Honest, TypeOK
  <2> HIDE DEF a
  <2>2. got'[a] = got[a] + 1 /\ \A e \in End : e # a => got'[e] = got[e]
    BY <2>1
  <2> QED BY <2>1, <2>2 DEF ReadsNext
<1>2. CASE got' = got
  BY <1>2 DEF ReadsNext
<1>3. CASE EmbedderStep
  BY <1>1, <1>2, <1>3 DEF EmbedderStep, CreateUninitializedPort, InitializePort,
       CreatePortPair, SendMessage, GetNothing, ClosePort
<1>4. CASE FailureStep
  BY <1>2, <1>4 DEF FailureStep, Crash, LostConnectionToNode
<1>5. CASE TransportStep
  BY <1>2, <1>5 DEF TransportStep, Deliver
<1>6. CASE UNCHANGED vars
  BY <1>2, <1>6 DEF vars
<1> QED BY <1>3, <1>4, <1>5, <1>6 DEF Next

(***************************************************************************)
(* Messages are read in the order in which the other end sent them, none   *)
(* twice, none skipped and none that was not sent, wherever the ends have  *)
(* moved and whatever nodes are lost.                                      *)
(***************************************************************************)
THEOREM ReadInOrder == Spec => [][ReadsNext]_vars
<1>1. TypeOK /\ Honest /\ [Next]_vars => [ReadsNext]_vars
  BY StepReads
<1> QED BY <1>1, TypeCorrect, HonestAlways, PTL DEF Spec

(***************************************************************************)
(* A step of the nodes is a step of the pipes, or none.                    *)
(***************************************************************************)
LEMMA PipeStep ==
  ASSUME TypeOK, TypeOK', Orderly, Honest, crashed = {}, crashed' = {},
         [Next]_vars
  PROVE  [Pipe!Next]_(Pipe!vars)
<1>1. /\ Good(World, {}) /\ Truth(World, Events(World), sent)
      /\ Pipe!End = End /\ \A e \in End : Pipe!Other(e) = Other(e)
      /\ life' \in [End -> {"unmade", "open", "closed"}]
      /\ life \in [End -> {"unmade", "open", "closed"}]
  BY DEF Orderly, Honest, TypeOK, Pipe!End, End, Pipe!Other, Other
<1>2. ASSUME Closes PROVE Pipe!Closing
  BY <1>1, <1>2 DEF Closes, Pipe!Closing
<1>3. ASSUME \/ \E e \in End : CreateUninitializedPort(e)
             \/ \E pipe \in Pipes : CreatePortPair(pipe)
      PROVE  Pipe!Create
  <2>1. sent' = sent /\ got' = got /\ eof' = eof
    BY <1>3 DEF CreateUninitializedPort, CreatePortPair
  <2>2. \A e \in End : life'[e] # life[e] =>
          life[e] = "unmade" /\ life'[e] = "open"
    BY <1>1, <1>3 DEF CreateUninitializedPort, CreatePortPair
  <2> QED BY <1>1, <2>1, <2>2 DEF Pipe!Create
<1>4. ASSUME NEW e \in End, InitializePort(e) PROVE UNCHANGED Pipe!vars
  BY <1>4 DEF InitializePort, Pipe!vars
<1>5. ASSUME NEW p \in PortName, NEW cargo \in SUBSET CargoFor(p),
             SendMessage(p, cargo)
      PROVE  \E e \in End : Pipe!Send(e)
  <2> DEFINE a == EndOf(p)
  <2>1. AtEnd(World.ports[p]) /\ ~World.ports[p].peer_closed
    BY <1>5 DEF SendMessage, Held, World, AtEnd
  <2>2. a \in End /\ life[a] = "open" /\ a \notin eof
    BY <1>1, <2>1, EndOfType DEF Truth, PortTrue, Counts, Heard
  <2>3. sent' = [sent EXCEPT ![a] = @ + 1] /\ got' = got /\ eof' = eof
    BY <1>5 DEF SendMessage
  <2>4. Pipe!Closing
    BY <1>1, <1>2, <1>5, SendMessageTruth
  <2> HIDE DEF a
  <2> QED BY <2>2, <2>3, <2>4 DEF Pipe!Send
<1>6. ASSUME NEW p \in PortName, NEW m \in ports[p].message_queue.heap,
             GetMessage(p, m)
      PROVE  \E e \in End : Pipe!Receive(e)
  <2> DEFINE a == EndOf(p)
  <2>1. /\ a \in End /\ life[a] = "open" /\ a \notin eof
        /\ m.body = got[a] + 1 /\ m.body <= sent[Other(a)]
        /\ got' = [got EXCEPT ![a] = @ + 1]
    BY <1>1, <1>6, GetMessageReads
  <2>2. life' = life /\ sent' = sent /\ eof' = eof
    BY <1>6 DEF GetMessage
  <2>3. got[a] \in Nat /\ sent[Other(a)] \in Nat
    BY <2>1, OtherEnd DEF TypeOK
  <2> HIDE DEF a
  <2>4. got[a] < sent[Pipe!Other(a)]
    BY <1>1, <2>1, <2>3
  <2> QED BY <2>1, <2>2, <2>4 DEF Pipe!Receive
<1>7. ASSUME NEW p \in PortName, GetNothing(p)
      PROVE  UNCHANGED Pipe!vars \/ \E e \in End : Pipe!ReportPeerClosed(e)
  <2> DEFINE a == EndOf(p)
  <2>1. life' = life /\ sent' = sent /\ got' = got
    BY <1>7 DEF GetNothing
  <2>2. CASE CanAcceptMoreMessages(ports[p])
    BY <1>7, <2>1, <2>2 DEF GetNothing, Pipe!vars
  <2>3. CASE ~CanAcceptMoreMessages(ports[p])
    <3>1. /\ a \in End /\ life[a] = "open" /\ life[Other(a)] = "closed"
          /\ got[a] = sent[Other(a)] /\ eof' = eof \cup {a}
      BY <1>1, <1>7, <2>3, GetNothingReports
    <3> HIDE DEF a
    <3> QED BY <1>1, <2>1, <3>1 DEF Pipe!ReportPeerClosed
  <2> QED BY <2>2, <2>3
<1>8. ASSUME NEW p \in PortName, ClosePort(p) PROVE Pipe!Close
  <2>1. sent' = sent /\ got' = got /\ eof' = eof
    BY <1>8 DEF ClosePort
  <2>2. Pipe!Closing
    BY <1>1, <1>2, <1>8, ClosePortTruth
  <2> QED BY <2>1, <2>2 DEF Pipe!Close
<1>9. ASSUME NEW envelope \in DOMAIN net, Deliver(envelope) PROVE Pipe!Close
  <2>1. sent' = sent /\ got' = got /\ eof' = eof
    BY <1>9 DEF Deliver
  <2>2. Pipe!Closing
    BY <1>1, <1>2, <1>9, DeliverTruth
  <2> QED BY <2>1, <2>2 DEF Pipe!Close
<1>10. CASE EmbedderStep
  BY <1>1, <1>3, <1>4, <1>5, <1>6, <1>7, <1>8, <1>10 DEF EmbedderStep, Pipe!Next
<1>11. CASE TransportStep
  BY <1>9, <1>11 DEF TransportStep, Pipe!Next
<1>12. CASE FailureStep
  BY <1>12 DEF FailureStep, Crash, LostConnectionToNode
<1>13. CASE UNCHANGED vars
  BY <1>13 DEF vars, Pipe!vars
<1> QED BY <1>10, <1>11, <1>12, <1>13 DEF Next

\* The first state of the nodes is one of the pipes.
LEMMA PipeInit ==
  ASSUME Init
  PROVE  Pipe!Init
<1>1. Pipe!End = End
  BY DEF Pipe!End, End
<1> QED BY <1>1 DEF Init, Pipe!Init

(***************************************************************************)
(* As long as no node is lost, the ports of all nodes, with their proxies, *)
(* their moves and the messages in flight, are pipes: what one end sends   *)
(* the other reads once and in order, and it is told that its peer closed  *)
(* only when it did and everything it sent has been read.                  *)
(***************************************************************************)
THEOREM PortsArePipes == Spec /\ [](crashed = {}) => ImplementsPipe
<1>1. Init => Pipe!Init
  BY PipeInit
<1>2. /\ TypeOK /\ TypeOK' /\ Orderly /\ Honest
      /\ crashed = {} /\ (crashed = {})' /\ [Next]_vars
      => [Pipe!Next]_(Pipe!vars)
  BY PipeStep
<1> QED
  BY <1>1, <1>2, TypeCorrect, OrderlyAlways, HonestAlways, PTL
     DEF Spec, ImplementsPipe, Pipe!Spec

\* In particular when the nodes are never lost at all.
THEOREM PortsArePipesWithoutLoss ==
  ASSUME MaxCrashes = 0
  PROVE  Spec => ImplementsPipe
<1>1. Init => crashed = {}
  BY DEF Init
<1>2. crashed = {} /\ [Next]_vars => (crashed = {})'
  <2> SUFFICES ASSUME crashed = {}, [Next]_vars PROVE crashed' = {}
    OBVIOUS
  <2>1. ASSUME NEW n \in Nodes, Crash(n) PROVE FALSE
    <3>1. Cardinality({}) < 0
      BY <2>1 DEF Crash
    <3> QED BY <3>1, FS_EmptySet
  <2>2. CASE EmbedderStep
    BY <2>2 DEF EmbedderStep, CreateUninitializedPort, InitializePort,
         CreatePortPair, SendMessage, GetMessage, GetNothing, ClosePort
  <2>3. CASE FailureStep
    BY <2>1, <2>3 DEF FailureStep, LostConnectionToNode
  <2>4. CASE TransportStep
    BY <2>4 DEF TransportStep, Deliver
  <2>5. CASE UNCHANGED vars
    BY <2>5 DEF vars
  <2> QED BY <2>2, <2>3, <2>4, <2>5 DEF Next
<1> QED BY <1>1, <1>2, PortsArePipes, PTL DEF Spec

(***************************************************************************)
(* "Let the embedder get messages until there are no more before reporting *)
(* that the peer closed its end" (node.cc:267) is true as long as no node  *)
(* is lost.                                                                *)
(***************************************************************************)
THEOREM ReadBeforeClosure ==
  Spec /\ [](crashed = {}) => []ReadBeforePeerClosed
<1>1. ASSUME TypeOK, Honest, crashed = {} PROVE ReadBeforePeerClosed
  <2> SUFFICES ASSUME NEW p \in PortName, Held(p), EndOf(p) \in eof,
                      NEW m \in ports[p].message_queue.heap,
                      m.sequence_num = ports[p].message_queue.next_sequence_num
               PROVE  FALSE
    BY DEF ReadBeforePeerClosed, HasNextMessage
  <2> DEFINE e == EndOf(p)
  <2>1. /\ PortTrue(World, Events(World), sent, e, ports[p])
        /\ got[e] = sent[Other(e)]
    BY <1>1 DEF Honest, Truth, World
  <2>2. /\ m.sequence_num <= sent[Other(e)]
        /\ ports[p].message_queue.next_sequence_num = got[e] + 1
    BY <2>1 DEF PortTrue, Written, Counts, AtEnd, Held
  <2>3. got[e] \in Nat
    BY <1>1, EndOfType DEF TypeOK
  <2> QED BY <2>1, <2>2, <2>3
<1> QED BY <1>1, TypeCorrect, HonestAlways, PTL
=============================================================================
