--------------------------- MODULE NodeController ---------------------------
(***************************************************************************)
(* The node controllers of a parent process and its children               *)
(* (node_controller.cc, node_channel.cc): the handshake that joins a child *)
(* to its parent, the introduction of children to each other, the queue of *)
(* messages for a peer that is not known yet, reserved ports, and what is  *)
(* dropped when a process goes away.                                       *)
(*                                                                         *)
(* Handlers run on the I/O thread of a process and are one step each.      *)
(* SendPeerMessage is also called by the threads of the embedder and takes *)
(* its locks one by one: at the nodes in UserThreads it is three steps.    *)
(* A channel keeps the order of its messages and gives an error once the   *)
(* other end is closed.  An operator X_y is X with a fault y.              *)
(***************************************************************************)
EXTENDS Integers, Sequences, FiniteSets

CONSTANTS
  Parent, Children,  \* the processes
  NoNode,            \* kInvalidNodeName
  NoChannel,         \* no channel in peers_, an invalid platform handle
  Tokens, NoToken,   \* the tokens ports are reserved under
  Wants,             \* [Children -> Tokens \cup {NoToken}]: the token a child
                     \* connects a port to
  UserThreads,       \* nodes whose embedder sends from a thread of its own
  Sends,             \* [Nodes -> [Nodes -> Nat]], bound: messages of a pair
  MaxPairs,          \* bound: channels the parent makes for introductions
  Mortal, MaxCrashes \* bounds: processes that may go away, and how many

Nodes == Children \cup {Parent}

ASSUME ParentAssumption == Parent \notin Children /\ NoNode \notin Nodes
ASSUME SendsAssumption == Sends \in [Nodes -> [Nodes -> Nat]]
ASSUME WantsAssumption == Wants \in [Children -> Tokens \cup {NoToken}]
ASSUME BoundsAssumption == MaxPairs \in Nat /\ MaxCrashes \in Nat

\* A channel is named by its two ends: the one a child is launched with, and
\* the k-th PlatformChannelPair of the parent.
Boot(c) == <<Parent, c, 0>>

Pair == {ch \in Children \X Children \X (1 .. MaxPairs) : ch[1] # ch[2]}

Channel == {Boot(c) : c \in Children} \cup Pair

ASSUME NoChannelAssumption == NoChannel \notin Channel

VARIABLES
  peers,             \* [Nodes -> [Nodes -> Channel or NoChannel]]: peers_
  pending_messages,  \* [Nodes -> [Nodes -> Seq(Nat)]]: pending_peer_messages_
  pending_children,  \* children the parent waits for
  bootstrap,         \* children with a bootstrap_parent_channel_
  parent_name,       \* [Children -> {Parent, NoNode}]
  wire,              \* [Channel -> [Nodes -> Seq]]: on their way to a node
  reads,             \* [Nodes -> SUBSET Channel]: channels that are started
  down,              \* channels of which an end is closed
  rejects,           \* <<n, ch>>: a write of n to ch failed
  pairs,             \* channel pairs the parent has made
  crashed,           \* processes that are gone
  lost,              \* [Nodes -> set of names]: LostConnectionToNode calls
  reserved,          \* tokens in reserved_ports_
  port_peer,         \* [Tokens -> who a reserved port is connected to]
  requests,          \* children with an entry in pending_port_requests_
  connections,       \* children with an entry in pending_port_connections_
  local_port,        \* [Children -> state of the port to be connected]
  pc,                \* [Nodes -> where a user thread is in SendPeerMessage]
  sent, got          \* [Nodes -> [Nodes -> Nat]]: last ports message to, from

peerVars == <<peers, pending_messages>>
channelVars == <<wire, reads, down, rejects>>
joinVars == <<pending_children, bootstrap, parent_name>>
portVars == <<reserved, port_peer, requests, connections, local_port>>
lossVars == <<crashed, lost>>
userVars == <<pc, sent>>

vars == <<peerVars, channelVars, joinVars, portVars, lossVars, userVars, pairs,
          got>>

Live == Nodes \ crashed

Idle == [at |-> "idle", to |-> NoNode]

Init ==
  /\ peers = [n \in Nodes |-> [m \in Nodes |-> NoChannel]]
  /\ pending_messages = [n \in Nodes |-> [m \in Nodes |-> <<>>]]
  /\ pending_children = {}
  /\ bootstrap = {}
  /\ parent_name = [c \in Children |-> NoNode]
  /\ wire = [ch \in Channel |-> [n \in Nodes |-> <<>>]]
  /\ reads = [n \in Nodes |-> {}]
  /\ down = {}
  /\ rejects = {}
  /\ pairs = 0
  /\ crashed = {}
  /\ lost = [n \in Nodes |-> {}]
  /\ reserved = {}
  /\ port_peer = [t \in Tokens |-> NoNode]
  /\ requests = {}
  /\ connections = {}
  /\ local_port = [c \in Children |-> "uninitialized"]
  /\ pc = [n \in Nodes |-> Idle]
  /\ sent = [n \in Nodes |-> [m \in Nodes |-> 0]]
  /\ got = [n \in Nodes |-> [m \in Nodes |-> 0]]
-----------------------------------------------------------------------------
(* Messages of NodeChannel, and the channel they are written to.           *)

AcceptChild == [type |-> "AcceptChild"]
AcceptParent == [type |-> "AcceptParent"]
RequestIntroduction(name) == [type |-> "RequestIntroduction", name |-> name]
Introduce(name, ch) == [type |-> "Introduce", name |-> name, handle |-> ch]
RequestPortConnection(t) == [type |-> "RequestPortConnection", token |-> t]
ConnectToPort == [type |-> "ConnectToPort"]
PortsMessage(k) == [type |-> "Ports", num |-> k]

Far(ch, n) == IF ch[1] = n THEN ch[2] ELSE ch[1]

\* remote_node_name_: the parent's is not known before AcceptChild, and a
\* child's before AcceptParent is a token that stands for it here.
RemoteNodeName(n, ch) ==
  IF Far(ch, n) = Parent THEN parent_name[n] ELSE Far(ch, n)

\* WriteChannelMessage by n: a channel whose other end is closed takes nothing.
Write(w, ch, n, messages) ==
  IF ch \in down THEN w ELSE [w EXCEPT ![ch][Far(ch, n)] = @ \o messages]

Rejected(ch, n) == IF ch \in down THEN {<<n, ch>>} ELSE {}

\* n takes a message of this type off channel ch.
Arrived(n, ch, type) ==
  /\ n \in Live
  /\ ch \in reads[n]
  /\ wire[ch][n] # <<>>
  /\ Head(wire[ch][n]).type = type

Taken(n, ch) == [wire EXCEPT ![ch][n] = Tail(@)]

\* The platform handles in a sequence of messages.
Handles(messages) ==
  {messages[i].handle : i \in {i \in DOMAIN messages :
     messages[i].type = "Introduce"}} \ {NoChannel}

GetPeerChannel(n, name) == IF name = NoNode THEN NoChannel ELSE peers[n][name]

GetParentChannel(n) ==
  IF n = Parent THEN NoChannel ELSE GetPeerChannel(n, parent_name[n])
-----------------------------------------------------------------------------
(* Peers come and go.                                                      *)

\* The queue of a peer that was just added is written to its channel.
Flushed_none(n, name) == <<>>

Flushed(n, name) ==
  [i \in DOMAIN pending_messages[n][name] |->
     PortsMessage(pending_messages[n][name][i])]

\* AddPeer at n, with w the messages on their way and r the writes that failed
\* so far.  A second channel to a known
\* peer is closed; the first one takes what was queued for the peer.
AddPeer_latest(n, name, ch, w, r) ==
  /\ peers' = [peers EXCEPT ![n][name] = ch]
  /\ reads' = [reads EXCEPT ![n] = (@ \ {peers[n][name]}) \cup {ch}]
  /\ down' = down \cup ({peers[n][name]} \ {NoChannel})
  /\ wire' = Write(w, ch, n, Flushed(n, name))
  /\ rejects' = r
  /\ pending_messages' = [pending_messages EXCEPT ![n][name] = <<>>]

AddPeer(n, name, ch, w, r) ==
  IF peers[n][name] # NoChannel
  THEN /\ down' = down \cup {ch}
       /\ wire' = w
       /\ rejects' = r
       /\ UNCHANGED <<peerVars, reads>>
  ELSE /\ peers' = [peers EXCEPT ![n][name] = ch]
       /\ reads' = [reads EXCEPT ![n] = @ \cup {ch}]
       /\ wire' = Write(w, ch, n, Flushed(n, name))
       /\ rejects' = IF Flushed(n, name) = <<>> THEN r
                     ELSE r \cup Rejected(ch, n)
       /\ pending_messages' = [pending_messages EXCEPT ![n][name] = <<>>]
       /\ UNCHANGED down

\* DropPeer at n.  The channel goes with its last reference, and what n had not
\* read from it goes too.
DropPeer(n, name) ==
  LET gone == {ch \in reads[n] : RemoteNodeName(n, ch) = name}
      unread == UNION {Handles(wire[ch][n]) : ch \in gone}
  IN /\ peers' = [peers EXCEPT ![n] =
                    [m \in Nodes |-> IF m = name THEN NoChannel ELSE @[m]]]
     /\ pending_messages' = [pending_messages EXCEPT ![n] =
                    [m \in Nodes |-> IF m = name THEN <<>> ELSE @[m]]]
     /\ pending_children' =
          pending_children \ (IF n = Parent THEN {name} ELSE {})
     /\ reads' = [reads EXCEPT ![n] = @ \ gone]
     /\ down' = down \cup gone \cup unread
     /\ wire' = [ch \in Channel |-> IF ch \in gone
                   THEN [wire[ch] EXCEPT ![n] = <<>>] ELSE wire[ch]]
     /\ lost' = [lost EXCEPT ![n] = @ \cup {name}]
     /\ UNCHANGED <<rejects, bootstrap, parent_name>>
-----------------------------------------------------------------------------
(* A child joins its parent.                                               *)

\* ConnectToChildOnIOThread: the parent starts the channel and offers itself.
ConnectToChild(c) ==
  /\ Parent \in Live
  /\ Boot(c) \notin reads[Parent] /\ c \notin lost[Parent]
  /\ reads' = [reads EXCEPT ![Parent] = @ \cup {Boot(c)}]
  /\ wire' = Write(wire, Boot(c), Parent, <<AcceptChild>>)
  /\ rejects' = rejects \cup Rejected(Boot(c), Parent)
  /\ pending_children' = pending_children \cup {c}
  /\ UNCHANGED <<peerVars, down, bootstrap, parent_name, portVars, lossVars,
                 userVars, pairs, got>>

ConnectToParent(c) ==
  /\ c \in Live
  /\ c \notin bootstrap /\ parent_name[c] = NoNode
  /\ bootstrap' = bootstrap \cup {c}
  /\ reads' = [reads EXCEPT ![c] = @ \cup {Boot(c)}]
  /\ UNCHANGED <<peerVars, wire, down, rejects, pending_children, parent_name,
                 portVars, lossVars, userVars, pairs, got>>

\* OnAcceptChild: the child answers, sends the requests that waited for this,
\* and adds the parent.
OnAcceptChild(c) ==
  LET ch == Boot(c)
      answer == IF c \in requests
                THEN <<AcceptParent, RequestPortConnection(Wants[c])>>
                ELSE <<AcceptParent>>
  IN /\ Arrived(c, ch, "AcceptChild")
     /\ IF c \in bootstrap /\ parent_name[c] = NoNode
        THEN /\ parent_name' = [parent_name EXCEPT ![c] = Parent]
             /\ bootstrap' = bootstrap \ {c}
             /\ connections' = connections \cup (requests \cap {c})
             /\ requests' = requests \ {c}
             /\ AddPeer(c, Parent, ch, Write(Taken(c, ch), ch, c, answer),
                        rejects \cup Rejected(ch, c))
             /\ UNCHANGED <<pending_children, lost>>
        ELSE DropPeer(c, RemoteNodeName(c, ch))
             /\ UNCHANGED <<requests, connections>>
     /\ UNCHANGED <<reserved, port_peer, local_port, crashed, userVars, pairs,
                    got>>

\* OnAcceptParent: the parent learns the child's name.
OnAcceptParent(c) ==
  LET ch == Boot(c)
  IN /\ Arrived(Parent, ch, "AcceptParent")
     /\ IF c \in pending_children
        THEN /\ pending_children' = pending_children \ {c}
             /\ AddPeer(Parent, c, ch, Taken(Parent, ch), rejects)
             /\ UNCHANGED <<bootstrap, parent_name, lost>>
        ELSE DropPeer(Parent, c)
     /\ UNCHANGED <<portVars, crashed, userVars, pairs, got>>
-----------------------------------------------------------------------------
(* Messages between nodes.                                                 *)

\* A node can send once it has joined, to a node that has: names travel in
\* messages, and the first that names a child comes from the parent.
Joined(n) ==
  n \in Children => parent_name[n] = Parent /\ n \notin pending_children

MaySend(n, to) ==
  /\ n \in Live /\ n # to
  /\ pc[n] = Idle
  /\ Joined(n) /\ Joined(to)
  /\ sent[n][to] < Sends[n][to]

CountSent(n, to) == sent' = [sent EXCEPT ![n][to] = @ + 1]

\* SendPeerMessage to a peer that is known, ...
SendToPeer(n, to) ==
  LET ch == GetPeerChannel(n, to)
  IN /\ MaySend(n, to)
     /\ ch # NoChannel
     /\ CountSent(n, to)
     /\ wire' = Write(wire, ch, n, <<PortsMessage(sent[n][to] + 1)>>)
     /\ rejects' = rejects \cup Rejected(ch, n)
     /\ UNCHANGED <<peerVars, reads, down, joinVars, portVars, lossVars, pc,
                    pairs, got>>

\* ... or not: a user thread has only looked so far.
LookUpPeer(n, to) ==
  /\ n \in UserThreads
  /\ MaySend(n, to)
  /\ GetPeerChannel(n, to) = NoChannel
  /\ CountSent(n, to)
  /\ pc' = [pc EXCEPT ![n] = [at |-> "queue", to |-> to]]
  /\ UNCHANGED <<peerVars, channelVars, joinVars, portVars, lossVars, pairs,
                 got>>

Enqueued_front(queue, k) == <<k>> \o queue

Enqueued(queue, k) == Append(queue, k)

\* The message is queued; the first for a peer needs an introduction.
QueueForPeer(n) ==
  LET to == pc[n].to
  IN /\ n \in Live
     /\ pc[n].at = "queue"
     /\ pending_messages' = [pending_messages EXCEPT ![n][to] =
                               Enqueued(@, sent[n][to])]
     /\ pc' = [pc EXCEPT ![n] = IF pending_messages[n][to] = <<>>
                                THEN [at |-> "ask", to |-> to] ELSE Idle]
     /\ UNCHANGED <<peers, channelVars, joinVars, portVars, lossVars, sent,
                    pairs, got>>

\* The parent, if there is one, is asked for the introduction.
AskParent(n, to) ==
  LET ch == GetParentChannel(n)
  IN IF ch = NoChannel
     THEN UNCHANGED <<wire, rejects>>
     ELSE /\ wire' = Write(wire, ch, n, <<RequestIntroduction(to)>>)
          /\ rejects' = rejects \cup Rejected(ch, n)

AskForIntroduction(n) ==
  /\ n \in Live
  /\ pc[n].at = "ask"
  /\ AskParent(n, pc[n].to)
  /\ pc' = [pc EXCEPT ![n] = Idle]
  /\ UNCHANGED <<peerVars, reads, down, joinVars, portVars, lossVars, sent,
                 pairs, got>>

\* On the I/O thread nothing comes between the three.
SendToUnknown(n, to) ==
  /\ n \notin UserThreads
  /\ MaySend(n, to)
  /\ GetPeerChannel(n, to) = NoChannel
  /\ CountSent(n, to)
  /\ pending_messages' = [pending_messages EXCEPT ![n][to] =
                            Enqueued(@, sent[n][to] + 1)]
  /\ IF pending_messages[n][to] = <<>>
     THEN AskParent(n, to)
     ELSE UNCHANGED <<wire, rejects>>
  /\ UNCHANGED <<peers, reads, down, joinVars, portVars, lossVars, pc, pairs,
                 got>>

OnPortsMessage(n, ch) ==
  /\ Arrived(n, ch, "Ports")
  /\ got' = [got EXCEPT ![n][Far(ch, n)] = Head(wire[ch][n]).num]
  /\ wire' = Taken(n, ch)
  /\ UNCHANGED <<peerVars, reads, down, rejects, joinVars, portVars, lossVars,
                 userVars, pairs>>
-----------------------------------------------------------------------------
(* Introductions.                                                          *)

\* The parent sends the two ends of a channel to c and to name.
IntroduceBoth(w, c, name, ch) ==
  Write(Write(w, peers[Parent][c], Parent, <<Introduce(name, ch)>>),
        peers[Parent][name], Parent, <<Introduce(c, ch)>>)

\* OnRequestIntroduction at the parent: c wants to know name.  The two ends of
\* a new channel are sent out; an end that cannot be delivered is closed.
OnRequestIntroduction(c) ==
  LET ch == Boot(c)
      name == Head(wire[ch][Parent]).name
      requestor == GetPeerChannel(Parent, c)
      new_friend == GetPeerChannel(Parent, name)
      new_channel == <<c, name, pairs + 1>>
      taken == Taken(Parent, ch)
  IN /\ Arrived(Parent, ch, "RequestIntroduction")
     /\ IF c = name \/ requestor = NoChannel
        THEN DropPeer(Parent, c) /\ UNCHANGED pairs
        ELSE /\ IF new_friend = NoChannel
                THEN /\ wire' = Write(taken, requestor, Parent,
                                      <<Introduce(name, NoChannel)>>)
                     /\ rejects' = rejects \cup Rejected(requestor, Parent)
                     /\ UNCHANGED <<pairs, down>>
                ELSE /\ pairs < MaxPairs
                     /\ pairs' = pairs + 1
                     /\ wire' = IntroduceBoth(taken, c, name, new_channel)
                     /\ rejects' = rejects \cup Rejected(requestor, Parent)
                                           \cup Rejected(new_friend, Parent)
                     /\ down' = IF {requestor, new_friend} \cap down = {}
                                THEN down ELSE down \cup {new_channel}
             /\ UNCHANGED <<peerVars, reads, joinVars, lost>>
     /\ UNCHANGED <<portVars, crashed, userVars, got>>

\* OnIntroduce at a child.  Without a handle what waits for the peer is dropped.
OnIntroduce(c) ==
  LET ch == Boot(c)
      m == Head(wire[ch][c])
  IN /\ Arrived(c, ch, "Introduce")
     /\ IF RemoteNodeName(c, ch) # parent_name[c]
        THEN DropPeer(c, RemoteNodeName(c, ch))
        ELSE /\ IF m.handle # NoChannel
                THEN AddPeer(c, m.name, m.handle, Taken(c, ch), rejects)
                ELSE /\ pending_messages' =
                          [pending_messages EXCEPT ![c][m.name] = <<>>]
                     /\ wire' = Taken(c, ch)
                     /\ UNCHANGED <<peers, reads, down, rejects>>
             /\ UNCHANGED <<joinVars, lost>>
     /\ UNCHANGED <<portVars, crashed, userVars, pairs, got>>
-----------------------------------------------------------------------------
(* Reserved ports: the parent reserves one under a token, and the child    *)
(* that sends the token gets it.                                           *)

ReservePort(t) ==
  /\ Parent \in Live
  /\ t \notin reserved /\ port_peer[t] = NoNode
  /\ reserved' = reserved \cup {t}
  /\ UNCHANGED <<peerVars, channelVars, joinVars, port_peer, requests,
                 connections, local_port, lossVars, userVars, pairs, got>>

Unreserved_kept(tokens) == reserved

Unreserved(tokens) == reserved \ tokens

\* ConnectReservedPorts: two ports of the parent.
ConnectReservedPorts(t1, t2) ==
  /\ Parent \in Live
  /\ t1 # t2 /\ {t1, t2} \subseteq reserved
  /\ reserved' = Unreserved({t1, t2})
  /\ port_peer' = [port_peer EXCEPT ![t1] = Parent, ![t2] = Parent]
  /\ UNCHANGED <<peerVars, channelVars, joinVars, requests, connections,
                 local_port, lossVars, userVars, pairs, got>>

\* RequestParentPortConnectionOnIOThread.
ConnectToParentPort(c) ==
  LET ch == GetParentChannel(c)
  IN /\ c \in Live
     /\ Wants[c] # NoToken
     /\ c \notin requests \cup connections /\ local_port[c] = "uninitialized"
     /\ IF ch = NoChannel
        THEN /\ requests' = requests \cup {c}
             /\ UNCHANGED <<connections, wire, rejects>>
        ELSE /\ connections' = connections \cup {c}
             /\ wire' = Write(wire, ch, c, <<RequestPortConnection(Wants[c])>>)
             /\ rejects' = rejects \cup Rejected(ch, c)
             /\ UNCHANGED requests
     /\ UNCHANGED <<peerVars, reads, down, joinVars, reserved, port_peer,
                    local_port, lossVars, userVars, pairs, got>>

\* OnRequestPortConnection at the parent.  A token that is not reserved, any
\* more or yet, is ignored.
OnRequestPortConnection(c) ==
  LET ch == Boot(c)
      t == Head(wire[ch][Parent]).token
      peer == GetPeerChannel(Parent, c)
      taken == Taken(Parent, ch)
  IN /\ Arrived(Parent, ch, "RequestPortConnection")
     /\ reserved' = Unreserved({t})
     /\ IF t \in reserved /\ peer # NoChannel
        THEN /\ port_peer' = [port_peer EXCEPT ![t] = c]
             /\ wire' = Write(taken, peer, Parent, <<ConnectToPort>>)
             /\ rejects' = rejects \cup Rejected(peer, Parent)
        ELSE /\ wire' = taken
             /\ UNCHANGED <<port_peer, rejects>>
     /\ UNCHANGED <<peerVars, reads, down, joinVars, requests, connections,
                    local_port, lossVars, userVars, pairs, got>>

\* OnConnectToPort at the child; a port that was closed meanwhile is unknown.
OnConnectToPort(c) ==
  LET ch == Boot(c)
  IN /\ Arrived(c, ch, "ConnectToPort")
     /\ wire' = Taken(c, ch)
     /\ IF local_port[c] = "uninitialized"
        THEN /\ local_port' = [local_port EXCEPT ![c] = "initialized"]
             /\ connections' = connections \ {c}
        ELSE UNCHANGED <<local_port, connections>>
     /\ UNCHANGED <<peerVars, reads, down, rejects, joinVars, reserved,
                    port_peer, requests, lossVars, userVars, pairs, got>>

\* ClosePort of a port that waits for its connection.
ClosePort(c) ==
  /\ c \in Live
  /\ c \in requests \cup connections
  /\ local_port[c] = "uninitialized"
  /\ local_port' = [local_port EXCEPT ![c] = "closed"]
  /\ UNCHANGED <<peerVars, channelVars, joinVars, reserved, port_peer,
                 requests, connections, lossVars, userVars, pairs, got>>
-----------------------------------------------------------------------------
(* Failures.                                                               *)

\* A process goes away, or its I/O thread (DropAllPeers): every end it holds,
\* or would have got, is closed.
Crash(n) ==
  /\ n \in Live \cap Mortal
  /\ Cardinality(crashed) < MaxCrashes
  /\ crashed' = crashed \cup {n}
  /\ down' = down \cup reads[n]
                  \cup {Boot(c) : c \in {c \in Children : n \in {c, Parent}}}
                  \cup UNION {Handles(wire[ch][n]) : ch \in Channel}
  /\ wire' = [ch \in Channel |-> [wire[ch] EXCEPT ![n] = <<>>]]
  /\ pc' = [pc EXCEPT ![n] = Idle]
  /\ UNCHANGED <<peerVars, reads, rejects, joinVars, portVars, lost, sent,
                 pairs, got>>

\* A channel with a closed end has an error once all of it is read, or at once
\* after a failed write.
HasError_onWrite(n, ch) == <<n, ch>> \in rejects

HasError(n, ch) ==
  /\ ch \in down
  /\ wire[ch][n] = <<>> \/ <<n, ch>> \in rejects

OnChannelError(n, ch) ==
  /\ n \in Live
  /\ HasError(n, ch)
  /\ DropPeer(n, RemoteNodeName(n, ch))
  /\ UNCHANGED <<portVars, crashed, userVars, pairs, got>>
-----------------------------------------------------------------------------
Join(c) == ConnectToChild(c) \/ ConnectToParent(c)

Send(n, to) == SendToPeer(n, to) \/ LookUpPeer(n, to) \/ SendToUnknown(n, to)

SendOn(n) == QueueForPeer(n) \/ AskForIntroduction(n)

Handle(c) ==
  \/ OnAcceptChild(c)
  \/ OnAcceptParent(c)
  \/ OnRequestIntroduction(c)
  \/ OnIntroduce(c)
  \/ OnRequestPortConnection(c)
  \/ OnConnectToPort(c)

Receive(n) == \E ch \in reads[n] : OnPortsMessage(n, ch) \/ OnChannelError(n, ch)

UsePort(c) == ConnectToParentPort(c) \/ ClosePort(c)

Next ==
  \/ \E c \in Children : Join(c) \/ Handle(c) \/ UsePort(c)
  \/ \E n, to \in Nodes : Send(n, to)
  \/ \E n \in Nodes : SendOn(n) \/ Receive(n) \/ Crash(n)
  \/ \E t \in Tokens : ReservePort(t)
  \/ \E t1, t2 \in Tokens : ConnectReservedPorts(t1, t2)

Spec == Init /\ [][Next]_vars

\* The I/O threads keep handling what arrives, and a send that was begun ends.
\* Nothing makes an embedder send, join or reserve.
FairSpec ==
  /\ Spec
  /\ \A c \in Children : WF_vars(Handle(c))
  /\ \A n \in Nodes : WF_vars(Receive(n)) /\ WF_vars(SendOn(n))
-----------------------------------------------------------------------------
(* Properties.                                                             *)

Message ==
  {AcceptChild, AcceptParent, ConnectToPort}
    \cup {RequestIntroduction(n) : n \in Nodes}
    \cup {Introduce(n, ch) : n \in Nodes, ch \in Channel \cup {NoChannel}}
    \cup {RequestPortConnection(t) : t \in Tokens}
    \cup [type : {"Ports"}, num : Nat]

Links(ch, n, m) == (ch[1] = n /\ ch[2] = m) \/ (ch[1] = m /\ ch[2] = n)

\* Type invariant: the tables of a controller, the channels and the handles on
\* them have the types of node_controller.h and node_channel.cc, and the channel
\* under a name in peers_ leads to the node of that name.
TypeOK ==
  /\ peers \in [Nodes -> [Nodes -> Channel \cup {NoChannel}]]
  /\ \A n, m \in Nodes : peers[n][m] # NoChannel => Links(peers[n][m], n, m)
  /\ pending_messages \in [Nodes -> [Nodes -> Seq(Nat)]]
  /\ pending_children \subseteq Children /\ bootstrap \subseteq Children
  /\ parent_name \in [Children -> {Parent, NoNode}]
  /\ wire \in [Channel -> [Nodes -> Seq(Message)]]
  /\ reads \in [Nodes -> SUBSET Channel]
  /\ down \subseteq Channel /\ rejects \subseteq Nodes \X Channel
  /\ pairs \in 0 .. MaxPairs
  /\ crashed \subseteq Nodes \cap Mortal
  /\ lost \in [Nodes -> SUBSET (Nodes \cup {NoNode})]
  /\ reserved \subseteq Tokens
  /\ port_peer \in [Tokens -> Nodes \cup {NoNode}]
  /\ requests \subseteq Children /\ connections \subseteq Children
  /\ local_port \in [Children -> {"uninitialized", "initialized", "closed"}]
  /\ pc \in [Nodes -> [at : {"idle", "queue", "ask"}, to : Nodes \cup {NoNode}]]
  /\ sent \in [Nodes -> [Nodes -> Nat]] /\ got \in [Nodes -> [Nodes -> Nat]]

\* The window of SendPeerMessage: between its look at peers_ and the lock under
\* which it queues (node_controller.cc:358, 370) the introduction is handled on
\* another thread, and what is queued after that is never flushed.
Stranded(n, m) == peers[n][m] # NoChannel /\ pending_messages[n][m] # <<>>

\* Ports messages of one node reach another in the order in which SendPeerMessage
\* was called, without a gap: those that waited in pending_peer_messages_ for an
\* introduction go before those that find the channel.  Only a message that is
\* stranded is overtaken, and a handler that runs on the I/O thread strands none.
InOrder ==
  [][\A n, m \in Nodes : \/ got'[n][m] \in {got[n][m], got[n][m] + 1}
                         \/ Stranded(m, n) /\ m \in UserThreads]_vars

\* LostConnectionToNode is called for processes that are gone and no others: no
\* duplicate channel that is closed, and no message that a handler rejects, makes
\* a controller drop a live peer.  Without a parent the handles of an introduction
\* can be lost, so this is about systems with a parent.
NoFalseLoss ==
  \A n \in Live : Parent \in Live => lost[n] \subseteq crashed

\* A reserved port is taken by one child: when two ask for the same token, the one
\* whose own port is initialized is the one the reserved port is connected to.
OneTaker ==
  \A c \in Children :
    local_port[c] = "initialized" => port_peer[Wants[c]] = c

\* A process that is gone is dropped in the end by every controller that had it
\* as a peer, and its node was told if it had sent anything over the channel.
LossNoticed ==
  <>[](\A n \in Live, m \in crashed :
         peers[n][m] = NoChannel /\ (got[n][m] > 0 => m \in lost[n]))

\* What SendPeerMessage takes is delivered in the end, if need be after an
\* introduction, while the two processes and their parent live, unless a message
\* of a user thread is stranded in between.
Delivered ==
  <>[](\A n, m \in Live : Parent \in Live =>
         got[m][n] = sent[n][m] \/ (Stranded(n, m) /\ n \in UserThreads))
=============================================================================
