------------------------------- MODULE Ports --------------------------------
(***************************************************************************)
(* The ports protocol of ports/node.cc: nodes that hold ports, messages    *)
(* that carry ports from node to node, the proxies that moved ports leave  *)
(* behind and the events that remove them, and closure.                    *)
(*                                                                         *)
(* A handler of class Node is an operator from a world (what the nodes     *)
(* hold and what is in flight) to the world after it, so that a handler    *)
(* that calls another is the composition the code makes.  An action of     *)
(* Next is one call of the embedder or one AcceptMessage.  Each holds the  *)
(* locks it needs for its whole effect, so calls appear one at a time; the *)
(* windows in which a lock is dropped are not part of this module.         *)
(*                                                                         *)
(* The transport (NodeDelegate::ForwardMessage) is a bag: README.md says   *)
(* that messages between nodes "can happen out of order".                  *)
(*                                                                         *)
(* An operator X_y is X with a fault y, for mutation testing of the        *)
(* properties; no other definition uses it.                                *)
(***************************************************************************)
EXTENDS MessageQueue, FiniteSets, Bags

CONSTANTS
  Nodes, NoNode,        \* node names and kInvalidNodeName
  Pipes,                \* the port pairs the embedders make
  NoPort,               \* kInvalidPortName
  kInvalidSequenceNum,  \* an ObserveProxyAck that says "send again"
  Home,                 \* [End -> Nodes]: the node an end is created on
  Established,          \* pipes whose ends are initialized at the start
  Cargo,                \* [Pipes -> SUBSET Pipes]: what a pipe may carry
  MaxPorts,             \* bound: ports in one user message
  MaxGen,               \* [Pipes -> Nat], bound: how often an end may move
  Embedder,             \* [End -> Profile], bound: what the holder of an end
                        \* does: messages it sends at most, whether it reads
                        \* on when there is nothing, whether it closes
  MaxCrashes            \* bound: nodes that may be lost

End == Pipes \X {0, 1}

Profile == [sends : Nat, polls : BOOLEAN, closes : BOOLEAN]

ASSUME NodesAssumption == NoNode \notin Nodes
ASSUME MaxGenAssumption == MaxGen \in [Pipes -> Nat]
ASSUME SeqAssumption == kInvalidSequenceNum \in Int
ASSUME HomeAssumption == Home \in [End -> Nodes]
ASSUME EstablishedAssumption == Established \in SUBSET Pipes
ASSUME EmbedderAssumption == Embedder \in [End -> Profile]

(***************************************************************************)
(* A port is sent at most once (it stops being kReceiving), so the name    *)
(* GenerateRandomPortName would invent for its successor can be given      *)
(* canonically: port <<pipe, side, k>> is succeeded by <<pipe, side, k+1>>.*)
(***************************************************************************)
PortName == UNION {{pipe} \X {0, 1} \X (0 .. MaxGen[pipe]) : pipe \in Pipes}

ASSUME NoPortAssumption == NoPort \notin PortName

GenerateRandomPortName(p) == <<p[1], p[2], p[3] + 1>>
Predecessor(p) == <<p[1], p[2], p[3] - 1>>
EndOf(p) == <<p[1], p[2]>>
FirstPort(e) == <<e[1], e[2], 0>>
Other(e) == <<e[1], 1 - e[2]>>

VARIABLES
  ports,    \* [PortName -> Port]: the ports_ maps of all nodes
  net,      \* bag of envelopes in flight
  oops,     \* some node has hit a CHECK (OOPS) or a null port
  crashed,  \* nodes that are gone
  idle,     \* ports whose embedder was told that there is no message
  life,     \* [End -> {"unmade", "open", "closed"}]
  sent,     \* [End -> Nat]: user messages sent by an end
  got,      \* [End -> Nat]: the last message the embedder of an end read
  eof       \* ends whose embedder was told ERROR_PORT_PEER_CLOSED

vars == <<ports, net, oops, crashed, idle, life, sent, got, eof>>
-----------------------------------------------------------------------------
(* Ports, messages and events.                                             *)

States == {"Absent", "Uninitialized", "Receiving", "Buffering", "Proxying"}

\* Port::Port.  "Absent" marks a name that is in no ports_ map; kClosed is the
\* state of a port that is being erased, which no other handler sees.
NewPort(node, next_to_send, next_to_receive) ==
  [node |-> node,
   state |-> "Uninitialized",
   peer_node_name |-> NoNode,
   peer_port_name |-> NoPort,
   next_sequence_num_to_send |-> next_to_send,
   last_sequence_num_to_receive |-> 0,
   message_queue |-> NewMessageQueue(next_to_receive),
   send_on_proxy_removal |-> NoPort,
   ack_node |-> NoNode,
   remove_proxy_on_last_message |-> FALSE,
   peer_closed |-> FALSE]

AbsentPort ==
  [NewPort(NoNode, kInitialSequenceNum, kInitialSequenceNum)
     EXCEPT !.state = "Absent"]

Initialized(port, peer_node, peer_port) ==
  [port EXCEPT !.state = "Receiving",
               !.peer_node_name = peer_node,
               !.peer_port_name = peer_port]

PortAcceptedEvent(p) == [type |-> "PortAccepted", port_name |-> p]

ObserveProxyEvent(p, proxy_node, proxy, to_node, to) ==
  [type |-> "ObserveProxy", port_name |-> p,
   proxy_node_name |-> proxy_node, proxy_port_name |-> proxy,
   proxy_to_node_name |-> to_node, proxy_to_port_name |-> to]

ObserveProxyAckEvent(p, last) ==
  [type |-> "ObserveProxyAck", port_name |-> p, last_sequence_num |-> last]

ObserveClosureEvent(p, last) ==
  [type |-> "ObserveClosure", port_name |-> p, last_sequence_num |-> last]

Envelope(from, to, event) == [from |-> from, to |-> to, event |-> event]

\* What the queues keep of a user message: the descriptors of its ports are
\* written anew whenever it is sent on.
Queued(event) ==
  [sequence_num |-> event.sequence_num, body |-> event.body,
   ports |-> DOMAIN event.descriptors]

(***************************************************************************)
(* A world.  notified collects the PortStatusChanged calls of a handler,   *)
(* shut the ends that it closes.                                           *)
(***************************************************************************)
World == [ports |-> ports, net |-> net, oops |-> oops,
          notified |-> {}, shut |-> {}]

\* Node::GetPort at a node, by name.
Exists(w, n, p) == w.ports[p].state # "Absent" /\ w.ports[p].node = n

\* NodeDelegate::ForwardMessage for several messages to one node.  A node that
\* does not exist (kInvalidNodeName) or is gone never gets them.
ForwardAll(w, n, to, events) ==
  IF to \in Nodes \ crashed
  THEN [w EXCEPT !.net = @ (+) SetToBag({Envelope(n, to, e) : e \in events})]
  ELSE w

ForwardMessage(w, n, to, event) == ForwardAll(w, n, to, {event})

PortStatusChanged(w, p) == [w EXCEPT !.notified = @ \cup {p}]

ErasePort(w, p) == [w EXCEPT !.ports[p] = AbsentPort]

CanAcceptMoreMessages_early(port) ==
  ~(port.peer_closed \/ port.remove_proxy_on_last_message)

CanAcceptMoreMessages(port) ==
  ~ /\ port.peer_closed \/ port.remove_proxy_on_last_message
    /\ port.last_sequence_num_to_receive =
         port.message_queue.next_sequence_num - 1
-----------------------------------------------------------------------------
(* Sending messages and the ports in them.                                 *)

\* WillSendPort_Locked: the port starts to buffer for its successor.
WillSendPort(port, p, to_node) ==
  [port EXCEPT !.state = "Buffering",
               !.remove_proxy_on_last_message = @ \/ port.peer_closed,
               !.peer_node_name = to_node,
               !.peer_port_name = GenerateRandomPortName(p)]

\* WillSendPort_Locked: what the successor is told.
PortDescriptor(port, p) ==
  [peer_node_name |-> port.peer_node_name,
   peer_port_name |-> port.peer_port_name,
   referring_node_name |-> port.node,
   referring_port_name |-> p,
   next_sequence_num_to_send |-> port.next_sequence_num_to_send,
   next_sequence_num_to_receive |-> port.message_queue.next_sequence_num,
   last_sequence_num_to_receive |-> port.last_sequence_num_to_receive,
   peer_closed |-> port.peer_closed]

\* The checks of WillSendMessage_Locked on the ports in message m.
Sendable(w, port, m) ==
  \A q \in m.ports : /\ w.ports[q].state = "Receiving"
                     /\ q # port.peer_port_name

\* The event WillSendMessage_Locked makes of message m sent by port.
UserEvent(w, port, m) ==
  [type |-> "User",
   port_name |-> port.peer_port_name,
   sequence_num |-> m.sequence_num,
   body |-> m.body,
   descriptors |->
     [r \in {GenerateRandomPortName(q) : q \in m.ports} |->
        PortDescriptor(w.ports[Predecessor(r)], Predecessor(r))]]

\* WillSendMessage_Locked for every message of a set of sendable ones.
WillSendMessages(w, port, messages) ==
  LET carried == UNION {m.ports : m \in messages}
  IN [w EXCEPT !.ports =
        [q \in PortName |->
           IF q \in carried THEN WillSendPort(@[q], q, port.peer_node_name)
                            ELSE @[q]]]

\* A name is left for the successor of every port in the messages (bound).
NamesLeft(messages) == \A m \in messages : \A q \in m.ports : q[3] < MaxGen[q[1]]

\* The messages ForwardMessages_Locked takes off p's queue: it stops after the
\* first that WillSendMessage_Locked refuses, which is then lost.
Popped(w, p) ==
  LET port == w.ports[p]
      run == Drained(port.message_queue)
  IN {m \in run : \A before \in run :
        before.sequence_num < m.sequence_num => Sendable(w, port, before)}

ForwardFails(w, p) ==
  \E m \in Popped(w, p) : ~Sendable(w, w.ports[p], m)

\* The queue and the port after GetNextMessageIf(nullptr) has returned each of
\* the messages; next_sequence_num_to_send-- if the last was refused.
WithoutPopped(q, popped) ==
  [q EXCEPT !.heap = @ \ popped,
            !.next_sequence_num = @ + Cardinality(popped)]

AfterForwarding(port, popped, fails) ==
  [port EXCEPT !.message_queue = WithoutPopped(@, popped),
               !.next_sequence_num_to_send = IF fails THEN @ - 1 ELSE @]

\* ForwardMessages_Locked.
ForwardMessages(w, n, p) ==
  LET port == w.ports[p]
      popped == Popped(w, p)
      good == {m \in popped : Sendable(w, port, m)}
      after ==
        [WillSendMessages(w, port, good) EXCEPT
           !.ports[p] = AfterForwarding(@, popped, ForwardFails(w, p)),
           !.oops = @ \/ \E m \in popped : \E q \in m.ports :
                           w.ports[q].state = "Absent"]
  IN ForwardAll(after, n, port.peer_node_name,
                {UserEvent(w, port, m) : m \in good})
-----------------------------------------------------------------------------
(* Removing proxies.                                                       *)

\* InitiateProxyRemoval_Locked: announce that p is a proxy, to its peer.
InitiateProxyRemoval(w, n, p) ==
  LET port == w.ports[p]
  IN ForwardMessage(w, n, port.peer_node_name,
       ObserveProxyEvent(port.peer_port_name, n, p,
                         port.peer_node_name, port.peer_port_name))

\* MaybeRemoveProxy_Locked: p goes once it has forwarded its last message, and
\* the acknowledgement that waited for this is sent.
MaybeRemoveProxy(w, n, p) ==
  LET port == w.ports[p]
  IN IF ~port.remove_proxy_on_last_message \/ CanAcceptMoreMessages(port)
     THEN w
     ELSE IF port.send_on_proxy_removal = NoPort
     THEN ErasePort(w, p)
     ELSE ForwardMessage(ErasePort(w, p), n, port.ack_node,
            ObserveProxyAckEvent(port.send_on_proxy_removal,
                                 kInvalidSequenceNum))
-----------------------------------------------------------------------------
(* Closing ports.                                                          *)

\* ClosePort closes the ports in the unread messages of a port it closes, and
\* so on: the least set with p and the receiving ports in the unread messages
\* of its members.
ClosedWith(w, p) ==
  LET unread(q) == {r \in GetReferencedPorts(w.ports[q].message_queue) :
                      w.ports[r].state = "Receiving"}
      found == {r \in PortName : r = p \/ \E q \in PortName : r \in unread(q)}
      whole(S) == p \in S /\ \A q \in S : unread(q) \subseteq S
  IN {r \in found : \A S \in SUBSET found : whole(S) => r \in S}

\* The ObserveClosure that ClosePort sends to the peer of q.
ClosureOf(w, n, q) ==
  Envelope(n, w.ports[q].peer_node_name,
           ObserveClosureEvent(w.ports[q].peer_port_name,
                               w.ports[q].next_sequence_num_to_send - 1))

\* Close every port of a set: erase it and notify its peer.  The ports have
\* different peers, so no two closures are the same.
CloseAll(w, n, closing) ==
  LET told == {q \in closing : w.ports[q].peer_node_name \in Nodes \ crashed}
  IN [w EXCEPT
        !.ports = [q \in PortName |-> IF q \in closing THEN AbsentPort
                                                       ELSE @[q]],
        !.net = @ (+) SetToBag({ClosureOf(w, n, q) : q \in told}),
        !.shut = @ \cup {EndOf(q) : q \in closing}]

\* Node::ClosePort.
DoClosePort(w, n, p) ==
  IF w.ports[p].state = "Uninitialized"
  THEN [ErasePort(w, p) EXCEPT !.shut = @ \cup {EndOf(p)}]
  ELSE CloseAll(w, n, ClosedWith(w, p))
-----------------------------------------------------------------------------
(* The handlers of AcceptMessage at node n.                                *)

\* AcceptPort: the port that descriptor d describes, not yet signalable.
AcceptedPort(n, d) ==
  LET port == NewPort(n, d.next_sequence_num_to_send,
                      d.next_sequence_num_to_receive)
  IN [Initialized(port, d.peer_node_name, d.peer_port_name) EXCEPT
        !.last_sequence_num_to_receive = d.last_sequence_num_to_receive,
        !.peer_closed = d.peer_closed,
        !.message_queue = SetSignalable(@, FALSE)]

\* AcceptPort for every port in a message; each referring port is told.
AcceptPorts(w, n, descriptors) ==
  LET new == DOMAIN descriptors
      accepted(r) ==
        Envelope(n, descriptors[r].referring_node_name,
                 PortAcceptedEvent(descriptors[r].referring_port_name))
      told == {r \in new : descriptors[r].referring_node_name
                             \in Nodes \ crashed}
  IN [w EXCEPT
        !.ports = [q \in PortName |->
                     IF q \in new THEN AcceptedPort(n, descriptors[q])
                                  ELSE @[q]],
        !.net = @ (+) SetToBag({accepted(r) : r \in told}),
        !.oops = @ \/ \E q \in new : w.ports[q].state # "Absent"]

\* The port is gone or takes no more: the ports in the message are closed.
Refuse(w, n, m) == CloseAll(w, n, m.ports)

\* A proxy forwards what it can, and goes if that was all.
ForwardAsProxy_stays(w, n, p) == ForwardMessages(w, n, p)

ForwardAsProxy(w, n, p) ==
  IF ForwardFails(w, p)
  THEN ForwardMessages(w, n, p)
  ELSE MaybeRemoveProxy(ForwardMessages(w, n, p), n, p)

OnUserMessage(w, n, event) ==
  LET p == event.port_name
      m == Queued(event)
      bound == AcceptPorts(w, n, event.descriptors)
      queued == [bound EXCEPT !.ports[p].message_queue =
                                AfterAcceptMessage(@, m)]
      port == w.ports[p]
  IN IF ~Exists(w, n, p) \/ ~CanAcceptMoreMessages(port)
     THEN Refuse(bound, n, m)
     ELSE IF port.state = "Buffering"
     THEN queued
     ELSE IF port.state = "Proxying"
     THEN ForwardAsProxy(queued, n, p)
     ELSE IF AcceptSignals(port.message_queue, m)
     THEN PortStatusChanged(queued, p)
     ELSE queued

StartProxying_skipped(w, p) == w

StartProxying(w, p) == [w EXCEPT !.ports[p].state = "Proxying"]

\* Tell the peer of a port what closed, and the last message to expect.
ForwardClosure(w, n, port, last) ==
  ForwardMessage(w, n, port.peer_node_name,
                 ObserveClosureEvent(port.peer_port_name, last))

\* A proxy that already knows its last message needs no ObserveProxy; the
\* closure is forwarded again, since the first one may have come before the
\* port it was for.
RemoveAtOnce_untold(w, n, p) == MaybeRemoveProxy(w, n, p)

RemoveAtOnce(w, n, p) ==
  ForwardClosure(MaybeRemoveProxy(w, n, p), n, w.ports[p],
                 w.ports[p].last_sequence_num_to_receive)

OnPortAccepted(w, n, p) ==
  LET proxying == StartProxying(w, p)
      forwarded == ForwardMessages(proxying, n, p)
  IN IF ~Exists(w, n, p) \/ w.ports[p].state # "Buffering"
     THEN [w EXCEPT !.oops = TRUE]
     ELSE IF ForwardFails(proxying, p)
     THEN forwarded
     ELSE IF w.ports[p].remove_proxy_on_last_message
     THEN RemoveAtOnce(forwarded, n, p)
     ELSE InitiateProxyRemoval(forwarded, n, p)

\* The port whose peer is the proxy skips it, and tells it the last message
\* that it will get.
SkipProxy_nodeKept(w, n, event) ==
  LET p == event.port_name
  IN ForwardMessage(
       [w EXCEPT !.ports[p].peer_port_name = event.proxy_to_port_name],
       n, event.proxy_node_name,
       ObserveProxyAckEvent(event.proxy_port_name,
                            w.ports[p].next_sequence_num_to_send - 1))

SkipProxy_lateCount(w, n, event) ==
  LET p == event.port_name
  IN ForwardMessage(
       [w EXCEPT !.ports[p].peer_node_name = event.proxy_to_node_name,
                 !.ports[p].peer_port_name = event.proxy_to_port_name],
       n, event.proxy_node_name,
       ObserveProxyAckEvent(event.proxy_port_name,
                            w.ports[p].message_queue.next_sequence_num - 1))

SkipProxy(w, n, event) ==
  LET p == event.port_name
  IN ForwardMessage(
       [w EXCEPT !.ports[p].peer_node_name = event.proxy_to_node_name,
                 !.ports[p].peer_port_name = event.proxy_to_port_name],
       n, event.proxy_node_name,
       ObserveProxyAckEvent(event.proxy_port_name,
                            w.ports[p].next_sequence_num_to_send - 1))

\* A port that is itself on its way out answers when it is removed, and the
\* answer is to ask again.
DelayAck_atOnce(w, n, event) ==
  ForwardMessage(w, n, event.proxy_node_name,
    ObserveProxyAckEvent(event.proxy_port_name, kInvalidSequenceNum))


DelayAck_twice(w, n, event) ==
  LET p == event.port_name
  IN ForwardMessage(
       [w EXCEPT !.ports[p].send_on_proxy_removal = event.proxy_port_name,
                 !.ports[p].ack_node = event.proxy_node_name],
       n, event.proxy_node_name,
       ObserveProxyAckEvent(event.proxy_port_name, kInvalidSequenceNum))

DelayAck(w, n, event) ==
  LET p == event.port_name
  IN [w EXCEPT !.ports[p].send_on_proxy_removal = event.proxy_port_name,
               !.ports[p].ack_node = event.proxy_node_name]

OnObserveProxy(w, n, event) ==
  LET p == event.port_name
      port == w.ports[p]
  IN IF ~Exists(w, n, p)
     THEN w
     ELSE IF \/ port.peer_node_name # event.proxy_node_name
             \/ port.peer_port_name # event.proxy_port_name
     THEN ForwardMessage(w, n, port.peer_node_name,
            [event EXCEPT !.port_name = port.peer_port_name])
     ELSE IF port.state = "Receiving"
     THEN SkipProxy(w, n, event)
     ELSE DelayAck(w, n, event)

\* The proxy knows its last message, which may have come already.
ExpectLast(w, n, p, last) ==
  MaybeRemoveProxy(
    [w EXCEPT !.ports[p].remove_proxy_on_last_message = TRUE,
              !.ports[p].last_sequence_num_to_receive = last], n, p)

OnObserveProxyAck(w, n, event) ==
  LET p == event.port_name
  IN IF ~Exists(w, n, p)
     THEN w
     ELSE IF w.ports[p].state # "Proxying"
     THEN [w EXCEPT !.oops = TRUE]
     ELSE IF event.last_sequence_num = kInvalidSequenceNum
     THEN InitiateProxyRemoval(w, n, p)
     ELSE ExpectLast(w, n, p, event.last_sequence_num)

\* What a port keeps of its peer's closure.  If it is not an end of the pipe
\* it also learns the last message that it has to forward.
PeerClosed_proxyStays(w, p, last) ==
  [w EXCEPT !.ports[p].peer_closed = TRUE,
            !.ports[p].last_sequence_num_to_receive = last]

PeerClosed(w, p, last) ==
  [w EXCEPT !.ports[p].peer_closed = TRUE,
            !.ports[p].last_sequence_num_to_receive = last,
            !.ports[p].remove_proxy_on_last_message =
               @ \/ w.ports[p].state # "Receiving"]

OnObserveClosure(w, n, event) ==
  LET p == event.port_name
      port == w.ports[p]
      last == event.last_sequence_num
      closed == PeerClosed(w, p, last)
  IN IF ~Exists(w, n, p)
     THEN w
     ELSE IF port.state = "Receiving"
     THEN PortStatusChanged(
            ForwardClosure(closed, n, port,
                           port.next_sequence_num_to_send - 1), p)
     ELSE IF port.state = "Proxying"
     THEN ForwardClosure(MaybeRemoveProxy(closed, n, p), n, port, last)
     ELSE ForwardClosure(closed, n, port, last)

\* Node::AcceptMessage.
AcceptMessage(w, n, event) ==
  CASE event.type = "User"            -> OnUserMessage(w, n, event)
    [] event.type = "PortAccepted"    -> OnPortAccepted(w, n, event.port_name)
    [] event.type = "ObserveProxy"    -> OnObserveProxy(w, n, event)
    [] event.type = "ObserveProxyAck" -> OnObserveProxyAck(w, n, event)
    [] event.type = "ObserveClosure"  -> OnObserveClosure(w, n, event)
-----------------------------------------------------------------------------
(* The actions: one call of the embedder, or one message from the          *)
(* transport.                                                              *)

\* An embedder knows the ports that it made and those it read from a message:
\* they are signalable.
Held(p) == ports[p].state = "Receiving" /\ ports[p].message_queue.signalable

\* The nodes and the transport after a handler.
Become(w) ==
  /\ ports' = w.ports
  /\ net' = w.net
  /\ oops' = w.oops
  /\ life' = [e \in End |-> IF e \in w.shut THEN "closed" ELSE life[e]]
  /\ idle' = {p \in idle \ w.notified : w.ports[p].state = "Receiving"}

InitialPort(e) ==
  IF e[1] \in Established
  THEN Initialized(
         NewPort(Home[e], kInitialSequenceNum, kInitialSequenceNum),
         Home[Other(e)], FirstPort(Other(e)))
  ELSE AbsentPort

Init ==
  /\ ports = [p \in PortName |-> IF p[3] = 0 THEN InitialPort(EndOf(p))
                                             ELSE AbsentPort]
  /\ net = EmptyBag
  /\ oops = FALSE
  /\ crashed = {}
  /\ idle = {}
  /\ life = [e \in End |-> IF e[1] \in Established THEN "open" ELSE "unmade"]
  /\ sent = [e \in End |-> 0]
  /\ got = [e \in End |-> 0]
  /\ eof = {}

\* CreateUninitializedPort, for an end whose peer is made on another node.
CreateUninitializedPort(e) ==
  /\ life[e] = "unmade"
  /\ Home[e] # Home[Other(e)]
  /\ Home[e] \notin crashed
  /\ ports' = [ports EXCEPT ![FirstPort(e)] =
                 NewPort(Home[e], kInitialSequenceNum, kInitialSequenceNum)]
  /\ life' = [life EXCEPT ![e] = "open"]
  /\ UNCHANGED <<net, oops, crashed, idle, sent, got, eof>>

\* Sets the node of the peer only.
InitializePort_unnamed(e) ==
  LET p == FirstPort(e)
  IN /\ ports[p].state = "Uninitialized"
     /\ life[Other(e)] # "unmade"
     /\ ports' = [ports EXCEPT ![p].state = "Receiving",
                               ![p].peer_node_name = Home[Other(e)]]
     /\ idle' = idle \ {p}
     /\ UNCHANGED <<net, oops, crashed, life, sent, got, eof>>

\* InitializePort, once the name of the peer is known; it calls
\* PortStatusChanged.
InitializePort(e) ==
  LET p == FirstPort(e)
  IN /\ ports[p].state = "Uninitialized"
     /\ life[Other(e)] # "unmade"
     /\ ports' = [ports EXCEPT ![p] =
                    Initialized(@, Home[Other(e)], FirstPort(Other(e)))]
     /\ idle' = idle \ {p}
     /\ UNCHANGED <<net, oops, crashed, life, sent, got, eof>>

\* CreatePortPair: two initialized ports on one node.
CreatePortPair(pipe) ==
  LET e0 == <<pipe, 0>>
      e1 == <<pipe, 1>>
      new(e) == Initialized(
                  NewPort(Home[e], kInitialSequenceNum, kInitialSequenceNum),
                  Home[Other(e)], FirstPort(Other(e)))
  IN /\ life[e0] = "unmade" /\ life[e1] = "unmade"
     /\ Home[e0] = Home[e1]
     /\ Home[e0] \notin crashed
     /\ ports' = [ports EXCEPT ![FirstPort(e0)] = new(e0),
                               ![FirstPort(e1)] = new(e1)]
     /\ life' = [life EXCEPT ![e0] = "open", ![e1] = "open"]
     /\ UNCHANGED <<net, oops, crashed, idle, sent, got, eof>>

\* The user messages that AcceptMessage of the event may send on.
MayForward(event) ==
  LET port == ports[event.port_name]
  IN CASE event.type = "User" /\ port.state = "Proxying" ->
            port.message_queue.heap \cup {Queued(event)}
       [] event.type = "PortAccepted" -> port.message_queue.heap
       [] OTHER -> {}

\* SendMessage from port p with the ports of cargo in the message.  A peer on
\* the same node accepts the message within the call.
SendMessage(p, cargo) ==
  LET port == ports[p]
      e == EndOf(p)
      m == [sequence_num |-> port.next_sequence_num_to_send,
            body |-> sent[e] + 1, ports |-> cargo]
      event == UserEvent(World, port, m)
      numbered == [WillSendMessages(World, port, {m}) EXCEPT
                     !.ports[p].next_sequence_num_to_send = @ + 1]
  IN /\ Held(p)
     /\ sent[e] < Embedder[e].sends
     /\ p \notin cargo
     /\ ~port.peer_closed
     /\ Sendable(World, port, m)
     /\ NamesLeft({m})
     /\ port.peer_node_name = port.node => NamesLeft(MayForward(event))
     /\ Become(IF port.peer_node_name = port.node
               THEN AcceptMessage(numbered, port.node, event)
               ELSE ForwardMessage(numbered, port.node, port.peer_node_name,
                                   event))
     /\ sent' = [sent EXCEPT ![e] = @ + 1]
     /\ UNCHANGED <<crashed, got, eof>>

\* The ports an embedder may put in a message sent from p.
CargoFor(p) ==
  {q \in PortName : /\ Held(q)
                    /\ q # p
                    /\ ports[q].node = ports[p].node
                    /\ q[1] \in Cargo[p[1]]}

\* GetMessage returns message m: its ports may now be notified about.
GetMessage(p, m) ==
  /\ Held(p)
  /\ CanAcceptMoreMessages(ports[p])
  /\ m \in NextMessages(ports[p].message_queue)
  /\ ports' = [q \in PortName |->
       IF q = p
       THEN [ports[q] EXCEPT !.message_queue = AfterGetNextMessage(@, m)]
       ELSE IF q \in m.ports
       THEN [ports[q] EXCEPT !.message_queue = SetSignalable(@, TRUE)]
       ELSE ports[q]]
  /\ got' = [got EXCEPT ![EndOf(p)] = m.body]
  /\ idle' = idle \ {p}
  /\ UNCHANGED <<net, oops, crashed, life, sent, eof>>

\* GetMessage returns a null message, or ERROR_PORT_PEER_CLOSED.
GetNothing(p) ==
  /\ Held(p)
  /\ Embedder[EndOf(p)].polls
  /\ IF CanAcceptMoreMessages(ports[p])
     THEN /\ ~HasNextMessage(ports[p].message_queue)
          /\ idle' = idle \cup {p}
          /\ UNCHANGED eof
     ELSE /\ eof' = eof \cup {EndOf(p)}
          /\ UNCHANGED idle
  /\ UNCHANGED <<ports, net, oops, crashed, life, sent, got>>

ClosePort(p) ==
  /\ Held(p) \/ ports[p].state = "Uninitialized"
  /\ Embedder[EndOf(p)].closes
  /\ Become(DoClosePort(World, ports[p].node, p))
  /\ UNCHANGED <<crashed, sent, got, eof>>

\* The transport hands an event to the node it is for, in any order.
Deliver(envelope) ==
  /\ envelope.to \notin crashed
  /\ NamesLeft(MayForward(envelope.event))
  /\ Become(AcceptMessage([World EXCEPT !.net = @ (-) SetToBag({envelope})],
                          envelope.to, envelope.event))
  /\ UNCHANGED <<crashed, sent, got, eof>>

\* A node goes away: nothing reaches it any more.
Crash(n) ==
  /\ n \notin crashed
  /\ Cardinality(crashed) < MaxCrashes
  /\ crashed' = crashed \cup {n}
  /\ ports' = [p \in PortName |-> IF ports[p].node = n THEN AbsentPort
                                                       ELSE ports[p]]
  /\ net' = [m \in {m \in DOMAIN net : m.to # n} |-> net[m]]
  /\ idle' = {p \in idle : ports[p].node # n}
  /\ UNCHANGED <<oops, life, sent, got, eof>>

\* The ports of node n whose peer was on the lost node.  Those that are not the
\* end of a pipe are erased; an end that does not know of a closure is told.
CutOff(n, lost) ==
  {p \in PortName : /\ ports[p].state # "Absent"
                    /\ ports[p].node = n
                    /\ ports[p].peer_node_name = lost}


ErasedByLoss(n, lost) ==
  {p \in CutOff(n, lost) : ports[p].state # "Receiving"}

ClosedByLoss(n, lost) ==
  {p \in CutOff(n, lost) : /\ ports[p].state = "Receiving"
                           /\ ~ports[p].peer_closed}

NotifiedOfLoss_none(n, lost) == {}

NotifiedOfLoss(n, lost) == ClosedByLoss(n, lost)

\* LostConnectionToNode(lost) at node n.  What the lost node sent and n has not
\* handled by then is lost too.
LostConnectionToNode(n, lost) ==
  LET erased == ErasedByLoss(n, lost)
      closed == ClosedByLoss(n, lost)
      undelivered == {m \in DOMAIN net : m.from = lost /\ m.to = n}
  IN /\ lost \in crashed
     /\ n \notin crashed
     /\ erased \cup closed # {} \/ undelivered # {}
     /\ ports' = [p \in PortName |->
          IF p \in erased THEN AbsentPort
          ELSE IF p \in closed
          THEN [ports[p] EXCEPT
                  !.peer_closed = TRUE,
                  !.last_sequence_num_to_receive =
                     ports[p].message_queue.next_sequence_num - 1]
          ELSE ports[p]]
     /\ net' = [m \in DOMAIN net \ undelivered |-> net[m]]
     /\ idle' = idle \ NotifiedOfLoss(n, lost)
     /\ UNCHANGED <<oops, crashed, life, sent, got, eof>>

\* A call of an embedder.
EmbedderStep ==
  \/ \E e \in End : CreateUninitializedPort(e) \/ InitializePort(e)
  \/ \E pipe \in Pipes : CreatePortPair(pipe)
  \/ \E p \in PortName : \E cargo \in SUBSET CargoFor(p) :
       Cardinality(cargo) <= MaxPorts /\ SendMessage(p, cargo)
  \/ \E p \in PortName : \E m \in ports[p].message_queue.heap : GetMessage(p, m)
  \/ \E p \in PortName : GetNothing(p) \/ ClosePort(p)

\* A node is lost, or one finds out.
FailureStep ==
  \/ \E n \in Nodes : Crash(n)
  \/ \E n, lost \in Nodes : LostConnectionToNode(n, lost)

TransportStep == \E envelope \in DOMAIN net : Deliver(envelope)

Next == EmbedderStep \/ FailureStep \/ TransportStep

Spec == Init /\ [][Next]_vars
=============================================================================
