-------------------------- MODULE PortsProperties ---------------------------
(***************************************************************************)
(* What the ports protocol must keep, whatever the transport reorders and  *)
(* wherever ports are sent.                                                *)
(***************************************************************************)
EXTENDS Ports

QueuedMessage ==
  [sequence_num : Int, body : Nat, ports : SUBSET PortName]

Port ==
  [node : Nodes \cup {NoNode},
   state : States,
   peer_node_name : Nodes \cup {NoNode},
   peer_port_name : PortName \cup {NoPort},
   next_sequence_num_to_send : Int,
   last_sequence_num_to_receive : Int,
   message_queue : [heap : SUBSET QueuedMessage, next_sequence_num : Int,
                    signalable : BOOLEAN],
   send_on_proxy_removal : PortName \cup {NoPort},
   ack_node : Nodes \cup {NoNode},
   remove_proxy_on_last_message : BOOLEAN,
   peer_closed : BOOLEAN]

\* What Port does not say: queues are finite, a port that exists is on a node,
\* and who has a peer's node has the peer's name.
HasPeerName(x) == x.peer_node_name \in Nodes => x.peer_port_name \in PortName

IsPort(port) ==
  /\ port \in Port
  /\ IsFiniteSet(port.message_queue.heap)
  /\ port.state # "Absent" => port.node \in Nodes
  /\ HasPeerName(port)

Descriptor ==
  [peer_node_name : Nodes \cup {NoNode},
   peer_port_name : PortName \cup {NoPort},
   referring_node_name : Nodes \cup {NoNode},
   referring_port_name : PortName,
   next_sequence_num_to_send : Int,
   next_sequence_num_to_receive : Int,
   last_sequence_num_to_receive : Int,
   peer_closed : BOOLEAN]

IsUserEvent(event) ==
  /\ event.type = "User"
  /\ event.port_name \in PortName
  /\ event.sequence_num \in Int
  /\ event.body \in Nat
  /\ DOMAIN event.descriptors \subseteq PortName
  /\ \A r \in DOMAIN event.descriptors :
       event.descriptors[r] \in Descriptor /\ HasPeerName(event.descriptors[r])

InternalEvent ==
  [type : {"PortAccepted"}, port_name : PortName]
  \cup [type : {"ObserveProxy"}, port_name : PortName,
        proxy_node_name : Nodes, proxy_port_name : PortName,
        proxy_to_node_name : Nodes, proxy_to_port_name : PortName]
  \cup [type : {"ObserveProxyAck", "ObserveClosure"}, port_name : PortName,
        last_sequence_num : Int]

\* An event is for a port, on a node that exists.
IsEnvelope(m) ==
  /\ m.from \in Nodes
  /\ m.to \in Nodes
  /\ IsUserEvent(m.event) \/ m.event \in InternalEvent

\* The variables have their types.
TypeOK ==
  /\ ports \in [PortName -> Port]
  /\ \A p \in PortName : IsPort(ports[p])
  /\ IsABag(net)
  /\ \A m \in DOMAIN net : IsEnvelope(m)
  /\ oops \in BOOLEAN
  /\ crashed \in SUBSET Nodes
  /\ idle \in SUBSET PortName
  /\ life \in [End -> {"unmade", "open", "closed"}]
  /\ sent \in [End -> Nat]
  /\ got \in [End -> Nat]
  /\ eof \in SUBSET End
-----------------------------------------------------------------------------
(***************************************************************************)
(* No CHECK fails: OnPortAccepted finds its port, still buffering, and     *)
(* OnObserveProxyAck finds a proxy (node.cc:499, 512, 630); a new port     *)
(* name is unused (728); and the ports in a message that is sent on exist  *)
(* (865).                                                                  *)
(***************************************************************************)
NoOops == ~oops

\* What the pair of ports promises to its embedders (MessagePipe).
Pipe == INSTANCE MessagePipe
ImplementsPipe == Pipe!Spec

(***************************************************************************)
(* An embedder that GetMessage told to wait has nothing to read and no     *)
(* closure to be told of: OnUserMessage, OnObserveClosure and              *)
(* LostConnectionToNode call PortStatusChanged for everything that makes   *)
(* GetMessage say something else (node.cc:489, 717, 408).                  *)
(***************************************************************************)
NoLostWakeup ==
  \A p \in idle : /\ ~HasNextMessage(ports[p].message_queue)
                  /\ CanAcceptMoreMessages(ports[p])

(***************************************************************************)
(* No port leaks: a receiving port that its embedder has not been handed   *)
(* (not signalable, node.cc:818) is in exactly one unread message, where   *)
(* somebody will find it or close it; the others are in none.  One step    *)
(* breaks this and no other: LostConnectionToNode erases a port that waits *)
(* or forwards for one on the lost node, with the messages in its queue,   *)
(* and does not close the ports in them (node.cc:394, 401).  Pipes that    *)
(* carry one of their own ends are left out (Cargo).                       *)
(***************************************************************************)
Carriers(p) ==
  {q \in PortName : p \in GetReferencedPorts(ports[q].message_queue)}

Orphans ==
  {p \in PortName :
     /\ ports[p].state = "Receiving"
     /\ Cardinality(Carriers(p)) #
          (IF ports[p].message_queue.signalable THEN 0 ELSE 1)}

ErasedWithMessages(p) ==
  \E q \in Carriers(p) : /\ ports[q].state \in {"Buffering", "Proxying"}
                         /\ ports[q].peer_node_name \in crashed
                         /\ ports'[q].state = "Absent"


(***************************************************************************)
(* A proxy asks to be removed once at a time (node.cc:577-598): of its     *)
(* announcement, an answer in flight and an answer that a second proxy     *)
(* delays, at most one exists.  Otherwise send_on_proxy_removal would be   *)
(* overwritten and an answer lost.                                         *)
(***************************************************************************)
Count(test(_)) ==
  LET hits == {m \in DOMAIN net : test(m.event)}
  IN Cardinality(UNION {{m} \X (1 .. net[m]) : m \in hits})

OneRemovalAtATime ==
  \A p \in PortName :
    Count(LAMBDA ev : ev.type = "ObserveProxy" /\ ev.proxy_port_name = p)
    + Count(LAMBDA ev : ev.type = "ObserveProxyAck" /\ ev.port_name = p)
    + Cardinality({q \in PortName : ports[q].send_on_proxy_removal = p}) <= 1

(***************************************************************************)
(* No message is lost or duplicated, however often the ports and the       *)
(* proxies between them come and go: while the end it is for is open, a    *)
(* message that was sent and not read is in flight or in the queue of one  *)
(* port on its way (OnUserMessage, ForwardMessages_Locked,                 *)
(* MaybeRemoveProxy_Locked).  A node that is lost takes messages with it.  *)
(***************************************************************************)
Copies(e, body) ==
  Count(LAMBDA ev : /\ ev.type = "User"
                    /\ EndOf(ev.port_name) = e
                    /\ ev.body = body)
  + Cardinality({q \in PortName :
                   /\ EndOf(q) = e
                   /\ \E m \in ports[q].message_queue.heap : m.body = body})

NoMessageLost ==
  \A e \in End : crashed = {} /\ life[e] = "open" =>
    \A body \in 1 .. sent[Other(e)] :
      Copies(e, body) = IF body <= got[e] THEN 0 ELSE 1

(***************************************************************************)
(* A proxy that nobody will ask to go: it has not heard which message is   *)
(* its last, and of its announcement, an answer in flight and an answer    *)
(* that a second proxy delays, none exists any more.                       *)
(***************************************************************************)
Forgotten(p) ==
  /\ ports[p].state = "Proxying"
  /\ ~ports[p].remove_proxy_on_last_message
  /\ \A m \in DOMAIN net :
       /\ m.event.type = "ObserveProxy" => m.event.proxy_port_name # p
       /\ m.event.type = "ObserveProxyAck" => m.event.port_name # p
  /\ \A q \in PortName : ports[q].send_on_proxy_removal # p

\* A pipe that has such a proxy and an end that is open.
Stuck(pipe) ==
  /\ life[<<pipe, 0>>] = "open" \/ life[<<pipe, 1>>] = "open"
  /\ \E p \in PortName : p[1] = pipe /\ Forgotten(p)

(***************************************************************************)
(* A proxy is forgotten in one way only: its announcement comes to a port  *)
(* that has been removed and is dropped (node.cc:547).  No other handler   *)
(* loses an announcement or the answer to one.                             *)
(***************************************************************************)
Dropped(m) ==
  /\ ~Exists(World, m.to, m.event.port_name)
  /\ net' = net (-) SetToBag({m})


\* Nothing is in flight and no node was lost.
Quiescent == net = EmptyBag /\ crashed = {}

(***************************************************************************)
(* When nothing is in flight, no proxy is left in a pipe, unless one of    *)
(* its proxies was forgotten (node.cc:547) and one of its ends is open:    *)
(* then that proxy stays, although the README says that "Port B upon       *)
(* becoming a proxy has a short lifespan".                                 *)
(***************************************************************************)
NoProxyLeft ==
  Quiescent =>
    \A p \in PortName :
      Stuck(p[1]) \/ ports[p].state \in {"Absent", "Uninitialized", "Receiving"}

(***************************************************************************)
(* When nothing is in flight, the two open ports of a pipe that is         *)
(* initialized refer to each other: every skipped proxy was skipped on     *)
(* both sides (OnObserveProxy).  Left out is a pipe with a forgotten proxy *)
(* (node.cc:547), through which one of its ends goes on sending.           *)
(***************************************************************************)
PeersMeet ==
  Quiescent =>
    \A p \in PortName :
      LET peer == ports[p].peer_port_name
      IN /\ ports[p].state = "Receiving"
         /\ life[Other(EndOf(p))] = "open"
         /\ ports[FirstPort(Other(EndOf(p)))].state # "Uninitialized"
         /\ ~Stuck(p[1])
         => /\ peer \in PortName
            /\ EndOf(peer) = Other(EndOf(p))
            /\ ports[peer].peer_port_name = p
            /\ ports[peer].node = ports[p].peer_node_name

(***************************************************************************)
(* When nothing is in flight, a port whose peer was closed knows it, and   *)
(* knows the number of the last message to expect (ClosePort,              *)
(* OnObserveClosure, and node.cc:525 for a closure that came before        *)
(* PortAccepted).                                                          *)
(***************************************************************************)
ClosureKnown ==
  Quiescent =>
    \A p \in PortName :
      LET other == Other(EndOf(p))
      IN ports[p].state = "Receiving" /\ life[other] = "closed" =>
           /\ ports[p].peer_closed
           /\ ports[p].last_sequence_num_to_receive = sent[other]

(***************************************************************************)
(* When nothing is in flight and both ends of a pipe are closed, no node   *)
(* holds a port of it: what the unit tests ask of every node at their end, *)
(* CanShutdownCleanly(false).                                              *)
(***************************************************************************)
CleanShutdown ==
  Quiescent =>
    \A p \in PortName :
      life[EndOf(p)] = "closed" /\ life[Other(EndOf(p))] = "closed" =>
        ports[p].state = "Absent"

(***************************************************************************)
(* "Let the embedder get messages until there are no more before reporting *)
(* that the peer closed its end" (node.cc:267).                            *)
(***************************************************************************)
ReadBeforePeerClosed ==
  \A p \in PortName :
    Held(p) /\ EndOf(p) \in eof => ~HasNextMessage(ports[p].message_queue)
=============================================================================
