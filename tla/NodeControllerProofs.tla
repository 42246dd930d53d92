------------------------ MODULE NodeControllerProofs ------------------------
EXTENDS NodeController, TLAPS

(***************************************************************************)
(* OneTaker, NoFalseLoss and the type of the controllers' tables, for any  *)
(* number of children, introductions and crashes.                          *)
(*                                                                         *)
(* NoFalseLoss rests on a chain: a node drops a peer when a channel it     *)
(* reads is closed; the channel of a launch is only closed by the death of *)
(* one of its two processes; and a channel between two children is closed  *)
(* by a live child only when it already has another one to that peer.      *)
(* That the two children then close the SAME one is the hard part: both    *)
(* ask, the parent makes a channel for each request, and each child keeps  *)
(* the first introduction it reads.  The parent makes and sends channels   *)
(* one at a time, the channel of a launch is in order, so both keep the    *)
(* oldest (Ordered, Agree).  Joining says in which phase of the handshake  *)
(* a child and its parent are, so that no message comes before it ends.    *)
(***************************************************************************)

\* A message of a user, numbered at its sender.
PortsMessages == [type : {"Ports"}, num : Nat]

\* The pair channels that lead from n to m.
Between(n, m) == {h \in Pair : Links(h, n, m)}

\* What a child writes to its parent, and the parent to a child, after the
\* handshake.  A child asks for others, and for the port it wants; an end of a
\* channel goes to a node the channel leads to.
ToParent(c) ==
  {RequestIntroduction(m) : m \in Nodes \ {c}}
    \cup {RequestPortConnection(t) : t \in Tokens \cap {Wants[c]}}
    \cup PortsMessages

ToChild(c) ==
  {ConnectToPort}
    \cup {Introduce(m, NoChannel) : m \in Nodes}
    \cup {Introduce(Far(h, c), h) : h \in {h \in Pair : c \in {h[1], h[2]}}}
    \cup PortsMessages

\* What may be on its way to n over ch.
Carries(ch, n) ==
  IF n \notin {ch[1], ch[2]} THEN {}
  ELSE IF ch \in Pair THEN PortsMessages
  ELSE IF n = Parent THEN ToParent(ch[2]) \cup {AcceptParent}
  ELSE ToChild(n) \cup {AcceptChild}

\* Every channel carries, each way, only what its two ends write to it.
WireType(w) ==
  /\ w \in [Channel -> [Nodes -> Seq(Message)]]
  /\ \A ch \in Channel, n \in Nodes : w[ch][n] \in Seq(Carries(ch, n))

\* m is somewhere in s.
Has(s, m) == \E i \in DOMAIN s : s[i] = m
-----------------------------------------------------------------------------
(* Channels, and the nodes at their ends.                                  *)

\* The channel a child was launched with joins it and the parent.
LEMMA BootChannel ==
  ASSUME NEW c \in Children
  PROVE  /\ Boot(c) \in Channel /\ Boot(c) \notin Pair
         /\ Boot(c)[1] = Parent /\ Boot(c)[2] = c /\ Boot(c)[3] = 0
         /\ c \in Nodes /\ Parent \in Nodes /\ c # Parent
         /\ Boot(c) # NoChannel
<1>1. Boot(c)[1] = Parent /\ Boot(c)[2] = c /\ Boot(c)[3] = 0
  BY DEF Boot
<1>2. c \in Nodes /\ Parent \in Nodes /\ c # Parent
  BY ParentAssumption DEF Nodes
<1>3. Boot(c) \notin Pair
  BY <1>1, ParentAssumption DEF Pair
<1>4. Boot(c) \in Channel
  BY DEF Channel
<1> QED BY <1>1, <1>2, <1>3, <1>4, NoChannelAssumption

\* A channel of an introduction joins two children and has a number.
LEMMA PairChannel ==
  ASSUME NEW h \in Pair
  PROVE  /\ h \in Channel /\ h # NoChannel
         /\ h[1] \in Children /\ h[2] \in Children /\ h[1] # h[2]
         /\ h[1] \in Nodes /\ h[2] \in Nodes /\ h[1] # Parent /\ h[2] # Parent
         /\ h[3] \in Nat /\ h[3] # 0
<1>1. /\ h[1] \in Children /\ h[2] \in Children /\ h[1] # h[2]
      /\ h[3] \in 1 .. MaxPairs
  BY DEF Pair
<1>2. h[3] \in Nat /\ h[3] # 0
  BY <1>1, BoundsAssumption
<1> QED BY <1>1, <1>2, ParentAssumption, NoChannelAssumption DEF Channel, Nodes

\* There are no other channels.
LEMMA ChannelCases ==
  ASSUME NEW ch \in Channel
  PROVE  \/ ch \in Pair
         \/ ch[2] \in Children /\ ch = Boot(ch[2]) /\ ch \notin Pair
<1>1. CASE ch \in Pair
  BY <1>1
<1>2. CASE \E c \in Children : ch = Boot(c)
  BY <1>2, BootChannel
<1> QED BY <1>1, <1>2 DEF Channel

\* A channel has two ends, and the second is at a child.
LEMMA ChannelEnds ==
  ASSUME NEW ch \in Channel
  PROVE  /\ ch[1] \in Nodes /\ ch[2] \in Children /\ ch[2] \in Nodes
         /\ ch[1] # ch[2] /\ ch[2] # Parent /\ ch[3] \in Nat
         /\ ch # NoChannel
<1> QED BY ChannelCases, PairChannel, BootChannel

\* The far end of a channel is the other node of it.
LEMMA FarEnd ==
  ASSUME NEW ch \in Channel, NEW n
  PROVE  /\ Far(ch, n) \in Nodes
         /\ Far(ch, n) \in {ch[1], ch[2]}
         /\ n = Parent => Far(ch, n) # Parent
         /\ n \in {ch[1], ch[2]} => Links(ch, n, Far(ch, n)) /\ Far(ch, n) # n
<1> QED BY ChannelEnds DEF Far, Links

\* If ch leads from n to m, then m is at its far end.
LEMMA LinkedFar ==
  ASSUME NEW ch \in Channel, NEW n, NEW m, Links(ch, n, m)
  PROVE  /\ Far(ch, n) = m /\ n # m /\ n \in Nodes /\ m \in Nodes
         /\ Links(ch, m, n)
         /\ n \in {ch[1], ch[2]} /\ m \in {ch[1], ch[2]}
<1> QED BY ChannelEnds DEF Far, Links

\* The two directions of the channel of a launch.
LEMMA BootFar ==
  ASSUME NEW c \in Children
  PROVE  /\ Far(Boot(c), c) = Parent /\ Far(Boot(c), Parent) = c
         /\ Links(Boot(c), c, Parent) /\ Links(Boot(c), Parent, c)
<1> QED BY BootChannel DEF Far, Links

\* Each child has a channel of its own.
LEMMA BootIs ==
  ASSUME NEW c \in Children, NEW d \in Children, Boot(c) = Boot(d)
  PROVE  c = d
<1> QED BY BootChannel

\* A channel of the parent is the one a child was launched with.
LEMMA ParentChannel ==
  ASSUME NEW ch \in Channel, NEW c, Links(ch, Parent, c) \/ Links(ch, c, Parent)
  PROVE  c \in Children /\ ch = Boot(c)
<1>1. ch \notin Pair
  BY PairChannel DEF Links
<1>2. ch[2] \in Children /\ ch = Boot(ch[2])
  BY <1>1, ChannelCases
<1> QED BY <1>2, BootChannel DEF Links

\* Two children are only joined by channels of introductions.
LEMMA ChildChannel ==
  ASSUME NEW ch \in Channel, NEW x \in Children, NEW y \in Children,
         Links(ch, x, y)
  PROVE  ch \in Pair /\ ch \in Between(x, y) /\ ch \in Between(y, x)
<1>1. ch \in Pair
  BY ChannelCases, BootChannel DEF Links
<1> QED BY <1>1 DEF Between, Links
-----------------------------------------------------------------------------
(* Sequences.                                                              *)

\* What is left of a queue, and its first message.
LEMMA SeqTail ==
  ASSUME NEW S, NEW s \in Seq(S), s # <<>>
  PROVE  Tail(s) \in Seq(S) /\ Head(s) \in S /\ Head(s) = s[1] /\ 1 \in DOMAIN s
<1> QED OBVIOUS

\* Queues of the same messages put together.
LEMMA SeqCat ==
  ASSUME NEW S, NEW s \in Seq(S), NEW t \in Seq(S)
  PROVE  s \o t \in Seq(S)
<1> QED OBVIOUS

\* A queue of one message.
LEMMA SeqOne ==
  ASSUME NEW S, NEW x \in S
  PROVE  <<x>> \in Seq(S)
<1> QED OBVIOUS

\* A queue of some messages is one of more messages.
LEMMA SeqSub ==
  ASSUME NEW S, NEW T, S \subseteq T, NEW s \in Seq(S)
  PROVE  s \in Seq(T)
<1> QED OBVIOUS

\* What is in a queue is one of its messages.
LEMMA SeqIn ==
  ASSUME NEW S, NEW s \in Seq(S), NEW i \in DOMAIN s
  PROVE  s[i] \in S
<1> QED OBVIOUS

\* What is in two queues put together is in one of them.
LEMMA HasCat ==
  ASSUME NEW S, NEW s \in Seq(S), NEW T, NEW t \in Seq(T), NEW m
  PROVE  Has(s \o t, m) <=> Has(s, m) \/ Has(t, m)
<1>1. ASSUME Has(s \o t, m) PROVE Has(s, m) \/ Has(t, m)
  <2>1. PICK i \in DOMAIN (s \o t) : (s \o t)[i] = m
    BY <1>1 DEF Has
  <2>2. CASE i \in 1 .. Len(s)
    BY <2>1, <2>2 DEF Has
  <2>3. CASE i \notin 1 .. Len(s)
    <3>1. i - Len(s) \in 1 .. Len(t) /\ t[i - Len(s)] = m
      BY <2>1, <2>3
    <3> QED BY <3>1 DEF Has
  <2> QED BY <2>2, <2>3
<1>2. ASSUME Has(s, m) PROVE Has(s \o t, m)
  <2>1. PICK i \in DOMAIN s : s[i] = m
    BY <1>2 DEF Has
  <2>2. i \in DOMAIN (s \o t) /\ (s \o t)[i] = m
    BY <2>1
  <2> QED BY <2>2 DEF Has
<1>3. ASSUME Has(t, m) PROVE Has(s \o t, m)
  <2>1. PICK i \in DOMAIN t : t[i] = m
    BY <1>3 DEF Has
  <2>2. i + Len(s) \in DOMAIN (s \o t) /\ (s \o t)[i + Len(s)] = m
    BY <2>1
  <2> QED BY <2>2 DEF Has
<1> QED BY <1>1, <1>2, <1>3

\* Taking the first message takes no other.
LEMMA HasTail ==
  ASSUME NEW S, NEW s \in Seq(S), s # <<>>, NEW m
  PROVE  /\ Has(Tail(s), m) => Has(s, m)
         /\ Has(s, m) /\ m # Head(s) => Has(Tail(s), m)
<1>1. ASSUME Has(Tail(s), m) PROVE Has(s, m)
  <2>1. PICK i \in DOMAIN Tail(s) : Tail(s)[i] = m
    BY <1>1 DEF Has
  <2>2. i + 1 \in DOMAIN s /\ s[i + 1] = m
    BY <2>1
  <2> QED BY <2>2 DEF Has
<1>2. ASSUME Has(s, m), m # Head(s) PROVE Has(Tail(s), m)
  <2>1. PICK i \in DOMAIN s : s[i] = m
    BY <1>2 DEF Has
  <2>2. i # 1
    BY <1>2, <2>1
  <2>3. i - 1 \in DOMAIN Tail(s) /\ Tail(s)[i - 1] = m
    BY <2>1, <2>2
  <2> QED BY <2>3 DEF Has
<1> QED BY <1>1, <1>2

\* What is in a queue is one of its messages.
LEMMA HasIn ==
  ASSUME NEW S, NEW s \in Seq(S), NEW m, Has(s, m)
  PROVE  m \in S
<1> QED BY DEF Has

\* A queue of one message has no other.
LEMMA HasOne ==
  ASSUME NEW x, NEW m, Has(<<x>>, m)
  PROVE  m = x
<1> QED BY DEF Has

\* The first message of a queue is in it.
LEMMA HasHead ==
  ASSUME NEW S, NEW s \in Seq(S), s # <<>>
  PROVE  Has(s, Head(s))
<1> QED BY SeqTail DEF Has
-----------------------------------------------------------------------------
(* Messages.                                                               *)

\* A message with an end of a channel in it.
Handed(m) == m.type = "Introduce" /\ m.handle # NoChannel

\* The constructors of messages, and the fields they set.
LEMMA MessageTypes ==
  /\ AcceptChild.type = "AcceptChild" /\ AcceptParent.type = "AcceptParent"
  /\ ConnectToPort.type = "ConnectToPort"
  /\ \A m \in PortsMessages : m.type = "Ports"
  /\ \A n : RequestIntroduction(n).type = "RequestIntroduction"
            /\ RequestIntroduction(n).name = n
  /\ \A t : RequestPortConnection(t).type = "RequestPortConnection"
            /\ RequestPortConnection(t).token = t
  /\ \A n, h : /\ Introduce(n, h).type = "Introduce"
               /\ Introduce(n, h).name = n /\ Introduce(n, h).handle = h
  /\ \A k : PortsMessage(k).type = "Ports"
<1> QED BY DEF AcceptChild, AcceptParent, ConnectToPort, PortsMessages,
               RequestIntroduction, RequestPortConnection, Introduce,
               PortsMessage

\* What a child writes to its parent, by type.
LEMMA ToParentCases ==
  ASSUME NEW c, NEW m \in ToParent(c)
  PROVE  /\ m.type \in {"RequestIntroduction", "RequestPortConnection", "Ports"}
         /\ m.type = "RequestIntroduction" =>
              m = RequestIntroduction(m.name) /\ m.name \in Nodes \ {c}
         /\ m.type = "RequestPortConnection" =>
              m.token \in Tokens /\ m.token = Wants[c]
         /\ m.type = "Ports" => m \in PortsMessages
         /\ ~ Handed(m) /\ m # AcceptParent /\ m # ConnectToPort
         /\ m \in Message
<1>1. CASE m \in {RequestIntroduction(x) : x \in Nodes \ {c}}
  <2>1. PICK x \in Nodes \ {c} : m = RequestIntroduction(x)
    BY <1>1
  <2> QED BY <2>1, MessageTypes DEF Handed, Message
<1>2. CASE m \in {RequestPortConnection(t) : t \in Tokens \cap {Wants[c]}}
  <2>1. PICK t \in Tokens \cap {Wants[c]} : m = RequestPortConnection(t)
    BY <1>2
  <2> QED BY <2>1, MessageTypes DEF Handed, Message
<1>3. CASE m \in PortsMessages
  BY <1>3, MessageTypes DEF Handed, Message, PortsMessages
<1> QED BY <1>1, <1>2, <1>3 DEF ToParent

\* What the parent writes to a child, by type: an end of a channel is one that
\* leads from that child to the named one.
LEMMA ToChildCases ==
  ASSUME NEW c, NEW m \in ToChild(c)
  PROVE  /\ m.type \in {"ConnectToPort", "Introduce", "Ports"}
         /\ m.type = "Introduce" =>
              /\ m = Introduce(m.name, m.handle) /\ m.name \in Nodes
              /\ m.handle # NoChannel =>
                   m.name \in Children /\ m.handle \in Between(c, m.name)
         /\ m.type = "Ports" => m \in PortsMessages
         /\ m # AcceptChild
         /\ m \in Message
<1>1. CASE m = ConnectToPort
  BY <1>1, MessageTypes DEF Message
<1>2. CASE m \in {Introduce(x, NoChannel) : x \in Nodes}
  <2>1. PICK x \in Nodes : m = Introduce(x, NoChannel)
    BY <1>2
  <2>2. m \in Message
    BY <2>1 DEF Message
  <2> QED BY <2>1, <2>2, MessageTypes
<1>3. CASE m \in {Introduce(Far(h, c), h) :
                    h \in {h \in Pair : c \in {h[1], h[2]}}}
  <2>1. PICK h \in Pair : c \in {h[1], h[2]} /\ m = Introduce(Far(h, c), h)
    BY <1>3
  <2>2. h \in Channel /\ h # NoChannel
    BY PairChannel
  <2>3. Far(h, c) \in Children /\ Far(h, c) \in Nodes /\ Links(h, c, Far(h, c))
    BY <2>1, <2>2, FarEnd, PairChannel
  <2>4. m \in Message
    BY <2>1, <2>2, <2>3 DEF Message
  <2> QED BY <2>1, <2>2, <2>3, <2>4, MessageTypes DEF Between
<1>4. CASE m \in PortsMessages
  BY <1>4, MessageTypes DEF Message, PortsMessages
<1> QED BY <1>1, <1>2, <1>3, <1>4 DEF ToChild

\* A message of a user is one whatever its number.
LEMMA PortsMessageType ==
  ASSUME NEW k \in Nat
  PROVE  PortsMessage(k) \in PortsMessages
<1> QED BY DEF PortsMessage, PortsMessages

\* What may arrive, by the kind of the channel and the end it arrives at.
LEMMA CarriedCases ==
  ASSUME NEW ch \in Channel, NEW n \in Nodes, NEW m \in Carries(ch, n)
  PROVE  \/ ch \in Pair /\ m \in PortsMessages
         \/ /\ ch[2] \in Children /\ ch = Boot(ch[2]) /\ n = Parent
            /\ m \in ToParent(ch[2]) \/ m = AcceptParent
         \/ /\ ch = Boot(n) /\ n \in Children
            /\ m \in ToChild(n) \/ m = AcceptChild
<1>1. n \in {ch[1], ch[2]}
  BY DEF Carries
<1>2. CASE ch \in Pair
  BY <1>1, <1>2 DEF Carries
<1>3. CASE ch \notin Pair
  <2>1. ch[2] \in Children /\ ch = Boot(ch[2]) /\ ch[1] = Parent
    BY <1>3, ChannelCases, BootChannel
  <2> QED BY <1>1, <1>3, <2>1 DEF Carries
<1> QED BY <1>2, <1>3

\* All of it is a message.
LEMMA CarriesMessage ==
  ASSUME NEW ch \in Channel, NEW n \in Nodes
  PROVE  Carries(ch, n) \subseteq Message
<1> SUFFICES ASSUME NEW m \in Carries(ch, n) PROVE m \in Message
  OBVIOUS
<1>1. AcceptParent \in Message /\ AcceptChild \in Message
  BY DEF Message
<1>2. PortsMessages \subseteq Message
  BY DEF PortsMessages, Message
<1> QED BY <1>1, <1>2, CarriedCases, ToParentCases, ToChildCases

\* An end of a channel on its way is on its way to a node at that end.
LEMMA HandedTo ==
  ASSUME NEW ch \in Channel, NEW n \in Nodes, NEW m \in Carries(ch, n),
         Handed(m)
  PROVE  /\ ch \notin Pair /\ n \in Children /\ m.name \in Children
         /\ ch = Boot(n)
         /\ m = Introduce(m.name, m.handle)
         /\ m.handle \in Between(n, m.name) /\ m.handle \in Pair
         /\ n \in {m.handle[1], m.handle[2]}
<1>1. CASE ch \in Pair /\ m \in PortsMessages
  BY <1>1, MessageTypes DEF Handed
<1>2. CASE n = Parent /\ (m \in ToParent(ch[2]) \/ m = AcceptParent)
  BY <1>2, MessageTypes, ToParentCases DEF Handed
<1>3. CASE /\ ch = Boot(n) /\ n \in Children
           /\ m \in ToChild(n) \/ m = AcceptChild
  <2>1. m \in ToChild(n)
    BY <1>3, MessageTypes DEF Handed
  <2> QED BY <1>3, <2>1, ToChildCases, BootChannel DEF Handed, Between, Links
<1> QED BY <1>1, <1>2, <1>3, CarriedCases

\* The two directions of the channel of a launch, with the handshake.
LEMMA CarriesBoot ==
  ASSUME NEW c \in Children
  PROVE  /\ Carries(Boot(c), Parent) = ToParent(c) \cup {AcceptParent}
         /\ Carries(Boot(c), c) = ToChild(c) \cup {AcceptChild}
<1> QED BY BootChannel DEF Carries
-----------------------------------------------------------------------------
(* Writing to a channel and reading from one.                              *)

\* The channels after n has read the first message of ch.
TakenFrom(w, n, ch) == [w EXCEPT ![ch][n] = Tail(@)]

\* A write adds to the far end of one open channel, and changes nothing else.
LEMMA WriteAt ==
  ASSUME NEW w, WireType(w), NEW ch \in Channel, NEW n,
         NEW t, NEW c2 \in Channel, NEW n2 \in Nodes
  PROVE  Write(w, ch, n, t)[c2][n2] =
           IF c2 = ch /\ n2 = Far(ch, n) /\ ch \notin down
           THEN w[ch][Far(ch, n)] \o t ELSE w[c2][n2]
<1>1. Far(ch, n) \in Nodes
  BY FarEnd
<1> QED BY <1>1 DEF Write, WireType

\* A write of what the channel carries keeps the types.
LEMMA WriteType ==
  ASSUME NEW w, WireType(w), NEW ch \in Channel, NEW n,
         NEW t \in Seq(Carries(ch, Far(ch, n)))
  PROVE  WireType(Write(w, ch, n, t))
<1> DEFINE m == Far(ch, n)
<1>1. m \in Nodes
  BY FarEnd
<1>2. w[ch][m] \in Seq(Carries(ch, m))
  BY <1>1 DEF WireType
<1>3. w[ch][m] \o t \in Seq(Carries(ch, m))
  BY <1>2
<1>4. w[ch][m] \o t \in Seq(Message)
  BY <1>1, <1>3, CarriesMessage, SeqSub
<1>5. Write(w, ch, n, t) \in [Channel -> [Nodes -> Seq(Message)]]
  BY <1>1, <1>4 DEF WireType, Write
<1>6. ASSUME NEW c2 \in Channel, NEW n2 \in Nodes
      PROVE  Write(w, ch, n, t)[c2][n2] \in Seq(Carries(c2, n2))
  <2>1. CASE c2 = ch /\ n2 = m /\ ch \notin down
    <3>1. Write(w, ch, n, t)[ch][m] = w[ch][m] \o t
      BY <1>1, <2>1 DEF Write, WireType
    <3> QED BY <1>3, <2>1, <3>1
  <2>2. CASE ~ (c2 = ch /\ n2 = m /\ ch \notin down)
    <3>1. Write(w, ch, n, t)[c2][n2] = w[c2][n2]
      BY <2>2, WriteAt
    <3> QED BY <3>1 DEF WireType
  <2> QED BY <2>1, <2>2
<1> QED BY <1>5, <1>6 DEF WireType

\* A read changes one end of one channel.
LEMMA TakenAt ==
  ASSUME NEW w, WireType(w), NEW ch \in Channel, NEW n \in Nodes,
         NEW c2 \in Channel, NEW n2 \in Nodes
  PROVE  TakenFrom(w, n, ch)[c2][n2] =
           IF c2 = ch /\ n2 = n THEN Tail(w[ch][n]) ELSE w[c2][n2]
<1> QED BY DEF TakenFrom, WireType

\* A read keeps the types.
LEMMA TakenType ==
  ASSUME NEW w, WireType(w), NEW ch \in Channel, NEW n \in Nodes,
         w[ch][n] # <<>>
  PROVE  WireType(TakenFrom(w, n, ch))
<1>1. w[ch][n] \in Seq(Carries(ch, n)) /\ w[ch][n] \in Seq(Message)
  BY DEF WireType
<1>2. Tail(w[ch][n]) \in Seq(Carries(ch, n)) /\ Tail(w[ch][n]) \in Seq(Message)
  BY <1>1, SeqTail
<1>3. TakenFrom(w, n, ch) \in [Channel -> [Nodes -> Seq(Message)]]
  BY <1>2 DEF WireType, TakenFrom
<1>4. ASSUME NEW c2 \in Channel, NEW n2 \in Nodes
      PROVE  TakenFrom(w, n, ch)[c2][n2] \in Seq(Carries(c2, n2))
  <2>1. CASE c2 = ch /\ n2 = n
    <3>1. TakenFrom(w, n, ch)[c2][n2] = Tail(w[ch][n])
      BY <2>1, TakenAt
    <3> QED BY <1>2, <2>1, <3>1
  <2>2. CASE ~ (c2 = ch /\ n2 = n)
    <3>1. TakenFrom(w, n, ch)[c2][n2] = w[c2][n2]
      BY <2>2, TakenAt
    <3> QED BY <3>1 DEF WireType
  <2> QED BY <2>1, <2>2
<1> QED BY <1>3, <1>4 DEF WireType
-----------------------------------------------------------------------------
(* The inductive invariant.  What is said about messages on their way is    *)
(* said about any w in place of wire, so that the steps of a handler can be *)
(* taken one by one.                                                        *)

\* What is on the way to child c from its parent, and back.
Inbox(c, w) == w[Boot(c)][c]
Outbox(c, w) == w[Boot(c)][Parent]

\* A child and its parent before the child has answered, ...
Offered(c, w) ==
  /\ parent_name[c] = NoNode
  /\ Outbox(c, w) = <<>>
  /\ peers[Parent][c] = NoChannel
  /\ \/ Inbox(c, w) = <<>> /\ Boot(c) \notin reads[Parent]
     \/ /\ Inbox(c, w) = <<AcceptChild>>
        /\ Boot(c) \in reads[Parent] /\ c \in pending_children

\* ... while its answer is on the way, ...
Answered(c, w) ==
  /\ parent_name[c] = Parent
  /\ c \in pending_children
  /\ peers[Parent][c] = NoChannel
  /\ Outbox(c, w) # <<>>
  /\ Head(Outbox(c, w)) = AcceptParent
  /\ Tail(Outbox(c, w)) \in Seq(ToParent(c))
  /\ Inbox(c, w) \in Seq(ToChild(c))
  /\ Boot(c) \in reads[Parent]

\* ... and afterwards.
Accepted(c, w) ==
  /\ parent_name[c] = Parent
  /\ peers[Parent][c] # NoChannel
  /\ Outbox(c, w) \in Seq(ToParent(c))
  /\ Inbox(c, w) \in Seq(ToChild(c))
  /\ Boot(c) \in reads[Parent]

\* Every live child is in one of the three phases while the parent lives.
Joining(w) ==
  \A c \in Children \ crashed : Parent \notin crashed =>
    Offered(c, w) \/ Answered(c, w) \/ Accepted(c, w)

\* n has not given up its parent, alive or not.
Attached(n) ==
  /\ n \notin crashed
  /\ Parent \notin lost[n] /\ NoNode \notin lost[n]

\* x has channel h to y, or the end of it that it will get.
Knows(x, y, h, w) == peers[x][y] = h \/ Has(Inbox(x, w), Introduce(y, h))

\* Channels are sent out in the order in which they are made, ...
Ordered(w) ==
  /\ \A c \in Children : \A i \in DOMAIN Inbox(c, w) :
       Handed(Inbox(c, w)[i]) => Inbox(c, w)[i].handle[3] <= pairs
  /\ \A c \in Children : \A i, j \in DOMAIN Inbox(c, w) :
       i < j /\ Handed(Inbox(c, w)[i]) /\ Handed(Inbox(c, w)[j]) =>
         Inbox(c, w)[i].handle[3] < Inbox(c, w)[j].handle[3]
  /\ \A x, y \in Children : peers[x][y] # NoChannel =>
       \A h \in Pair : Has(Inbox(x, w), Introduce(y, h)) => peers[x][y][3] < h[3]

\* ... so that two children agree on the first of theirs, which is not closed.
Common(x, y, f, w) == Knows(x, y, f, w) /\ Knows(y, x, f, w)

\* Whatever x has to y is no older than one both have, and what was closed
\* between them is younger than that one.
Agreed(x, y, w) ==
  /\ \A h \in Pair : Knows(x, y, h, w) =>
       \E f \in Pair : Common(x, y, f, w) /\ f[3] <= h[3]
  /\ \A h \in down \cap Between(x, y) :
       \E f \in Pair : Common(x, y, f, w) /\ f[3] < h[3]

\* It matters while both are attached: who gave up its parent closes everything.
Agree(w) ==
  \A x, y \in Children : x # y /\ Attached(x) /\ Attached(y) => Agreed(x, y, w)

\* The part of the invariant that is about what is on the way.
WireInv(w) == WireType(w) /\ Joining(w) /\ Ordered(w) /\ Agree(w)
-----------------------------------------------------------------------------
(* Messages without an end of a channel do not matter to Ordered and Agree. *)

\* s and t have the same ends of channels, d places apart in t.
Shifted(s, t, d) ==
  /\ \A i \in DOMAIN t : Handed(t[i]) => i + d \in DOMAIN s /\ s[i + d] = t[i]
  /\ \A i \in DOMAIN s : Handed(s[i]) => i - d \in DOMAIN t /\ t[i - d] = s[i]

\* A read of another message, or a write of one, leaves the ends as they are.
SameHandles(s, t) == Shifted(s, t, 0) \/ Shifted(s, t, 1)

\* Nothing read, nothing written.
LEMMA SameSame ==
  ASSUME NEW S, NEW s \in Seq(S)
  PROVE  SameHandles(s, s)
<1>1. Shifted(s, s, 0)
  BY DEF Shifted
<1> QED BY <1>1 DEF SameHandles

\* A read of a message without an end.
LEMMA SameTail ==
  ASSUME NEW S, NEW s \in Seq(S), s # <<>>, ~ Handed(Head(s))
  PROVE  SameHandles(s, Tail(s))
<1>1. ASSUME NEW i \in DOMAIN Tail(s)
      PROVE  i + 1 \in DOMAIN s /\ s[i + 1] = Tail(s)[i]
  OBVIOUS
<1>2. ASSUME NEW i \in DOMAIN s, Handed(s[i])
      PROVE  i - 1 \in DOMAIN Tail(s) /\ Tail(s)[i - 1] = s[i]
  <2>1. i # 1
    BY <1>2
  <2> QED BY <2>1
<1>3. Shifted(s, Tail(s), 1)
  BY <1>1, <1>2 DEF Shifted
<1> QED BY <1>3 DEF SameHandles

\* A write of messages without ends.
LEMMA SameCat ==
  ASSUME NEW S, NEW s \in Seq(S), NEW T, NEW t \in Seq(T),
         \A m \in T : ~ Handed(m)
  PROVE  SameHandles(s, s \o t)
<1>1. ASSUME NEW i \in DOMAIN (s \o t), Handed((s \o t)[i])
      PROVE  i \in DOMAIN s /\ s[i] = (s \o t)[i]
  <2>1. CASE i \in DOMAIN s
    BY <2>1
  <2>2. CASE i \notin DOMAIN s
    <3>1. i - Len(s) \in DOMAIN t /\ (s \o t)[i] = t[i - Len(s)]
      BY <2>2
    <3> QED BY <1>1, <3>1
  <2> QED BY <2>1, <2>2
<1>2. ASSUME NEW i \in DOMAIN s
      PROVE  i \in DOMAIN (s \o t) /\ s[i] = (s \o t)[i]
  OBVIOUS
<1>3. \A i \in DOMAIN s : i \in Int
  OBVIOUS
<1>4. \A i \in DOMAIN (s \o t) : i \in Int
  OBVIOUS
<1>5. Shifted(s, s \o t, 0)
  BY <1>1, <1>2, <1>3, <1>4 DEF Shifted
<1> QED BY <1>5 DEF SameHandles

\* The same ends are on the way ...
LEMMA SameHas ==
  ASSUME NEW s, NEW t, SameHandles(s, t), NEW y, NEW h, h # NoChannel
  PROVE  Has(t, Introduce(y, h)) <=> Has(s, Introduce(y, h))
<1>1. Handed(Introduce(y, h))
  BY MessageTypes DEF Handed
<1>2. PICK d : Shifted(s, t, d)
  BY DEF SameHandles
<1>3. ASSUME Has(t, Introduce(y, h)) PROVE Has(s, Introduce(y, h))
  <2>1. PICK i \in DOMAIN t : t[i] = Introduce(y, h)
    BY <1>3 DEF Has
  <2>2. i + d \in DOMAIN s /\ s[i + d] = t[i]
    BY <1>1, <1>2, <2>1 DEF Shifted
  <2> QED BY <2>1, <2>2 DEF Has
<1>4. ASSUME Has(s, Introduce(y, h)) PROVE Has(t, Introduce(y, h))
  <2>1. PICK i \in DOMAIN s : s[i] = Introduce(y, h)
    BY <1>4 DEF Has
  <2>2. i - d \in DOMAIN t /\ t[i - d] = s[i]
    BY <1>1, <1>2, <2>1 DEF Shifted
  <2> QED BY <2>1, <2>2 DEF Has
<1> QED BY <1>3, <1>4

\* ... and in the same order.
LEMMA SameOrder ==
  ASSUME NEW S, NEW s \in Seq(S), NEW t \in Seq(S), SameHandles(s, t),
         NEW i \in DOMAIN t, NEW j \in DOMAIN t, i < j,
         Handed(t[i]), Handed(t[j])
  PROVE  \E k, l \in DOMAIN s : k < l /\ s[k] = t[i] /\ s[l] = t[j]
<1>1. PICK d \in {0, 1} : Shifted(s, t, d)
  BY DEF SameHandles
<1>2. /\ i + d \in DOMAIN s /\ s[i + d] = t[i]
      /\ j + d \in DOMAIN s /\ s[j + d] = t[j]
  BY <1>1 DEF Shifted
<1>3. i + d < j + d
  BY <1>1
<1> QED BY <1>2, <1>3

\* Ordered, with the numbers of handles for handles.
LEMMA OrderedSame ==
  ASSUME NEW w, NEW v, WireType(w), WireType(v), Ordered(w),
         \A c \in Children : SameHandles(Inbox(c, w), Inbox(c, v))
  PROVE  Ordered(v)
<1>1. ASSUME NEW c \in Children
      PROVE  Inbox(c, w) \in Seq(Message) /\ Inbox(c, v) \in Seq(Message)
  BY BootChannel DEF WireType, Inbox
<1>2. ASSUME NEW c \in Children, NEW i \in DOMAIN Inbox(c, v),
             Handed(Inbox(c, v)[i])
      PROVE  Inbox(c, v)[i].handle[3] <= pairs
  <2>1. PICK k \in DOMAIN Inbox(c, w) : Inbox(c, w)[k] = Inbox(c, v)[i]
    BY <1>2 DEF SameHandles, Shifted
  <2> QED BY <1>2, <2>1 DEF Ordered
<1>3. ASSUME NEW c \in Children, NEW i \in DOMAIN Inbox(c, v),
             NEW j \in DOMAIN Inbox(c, v), i < j,
             Handed(Inbox(c, v)[i]), Handed(Inbox(c, v)[j])
      PROVE  Inbox(c, v)[i].handle[3] < Inbox(c, v)[j].handle[3]
  <2>1. PICK k, l \in DOMAIN Inbox(c, w) :
          k < l /\ Inbox(c, w)[k] = Inbox(c, v)[i]
            /\ Inbox(c, w)[l] = Inbox(c, v)[j]
    BY <1>1, <1>3, SameOrder
  <2> QED BY <1>3, <2>1 DEF Ordered
<1>4. ASSUME NEW x \in Children, NEW y \in Children, peers[x][y] # NoChannel,
             NEW h \in Pair, Has(Inbox(x, v), Introduce(y, h))
      PROVE  peers[x][y][3] < h[3]
  <2>1. Has(Inbox(x, w), Introduce(y, h))
    BY <1>4, SameHas, PairChannel
  <2> QED BY <1>4, <2>1 DEF Ordered
<1> QED BY <1>2, <1>3, <1>4 DEF Ordered

\* Who knows which channel does not change then either, ...
LEMMA KnowsSame ==
  ASSUME NEW w, NEW v, NEW x \in Children, NEW y, NEW h \in Pair,
         SameHandles(Inbox(x, w), Inbox(x, v))
  PROVE  Knows(x, y, h, v) <=> Knows(x, y, h, w)
<1> QED BY SameHas, PairChannel DEF Knows

\* ... nor what two children agree on.
LEMMA AgreeSame ==
  ASSUME NEW w, NEW v, Agree(w),
         \A c \in Children : SameHandles(Inbox(c, w), Inbox(c, v))
  PROVE  Agree(v)
<1> SUFFICES ASSUME NEW x \in Children, NEW y \in Children, x # y,
                    Attached(x), Attached(y)
             PROVE  Agreed(x, y, v)
  BY DEF Agree
<1>1. Agreed(x, y, w)
  BY DEF Agree
<1>2. \A h \in Pair : /\ Knows(x, y, h, v) <=> Knows(x, y, h, w)
                      /\ Knows(y, x, h, v) <=> Knows(y, x, h, w)
  BY KnowsSame
<1>3. \A h \in Pair : Common(x, y, h, v) <=> Common(x, y, h, w)
  BY <1>2 DEF Common
<1> QED BY <1>1, <1>2, <1>3 DEF Agreed
-----------------------------------------------------------------------------
(* Reading and writing what is neither of the handshake nor hands out an    *)
(* end keeps WireInv.                                                       *)

\* What the parent writes to a child without an end of a channel.
Plain(c) == {m \in ToChild(c) : ~ Handed(m)}

\* The types of the two directions.
LEMMA BoxTypes ==
  ASSUME NEW w, WireType(w), NEW c \in Children
  PROVE  /\ Inbox(c, w) \in Seq(ToChild(c) \cup {AcceptChild})
         /\ Outbox(c, w) \in Seq(ToParent(c) \cup {AcceptParent})
         /\ Inbox(c, w) \in Seq(Message) /\ Outbox(c, w) \in Seq(Message)
<1>1. Boot(c) \in Channel /\ c \in Nodes /\ Parent \in Nodes
  BY BootChannel
<1>2. /\ w[Boot(c)][c] \in Seq(Carries(Boot(c), c))
      /\ w[Boot(c)][Parent] \in Seq(Carries(Boot(c), Parent))
      /\ w[Boot(c)][c] \in Seq(Message) /\ w[Boot(c)][Parent] \in Seq(Message)
  BY <1>1 DEF WireType
<1> QED BY <1>2, CarriesBoot DEF Inbox, Outbox

\* A read, as the two directions see it.
LEMMA TakenBoxes ==
  ASSUME NEW w, WireType(w), NEW ch \in Channel, NEW n \in Nodes,
         NEW c \in Children
  PROVE  /\ Inbox(c, TakenFrom(w, n, ch)) =
              IF ch = Boot(c) /\ n = c THEN Tail(Inbox(c, w)) ELSE Inbox(c, w)
         /\ Outbox(c, TakenFrom(w, n, ch)) =
              IF ch = Boot(c) /\ n = Parent THEN Tail(Outbox(c, w))
              ELSE Outbox(c, w)
<1>1. Boot(c) \in Channel /\ c \in Nodes /\ Parent \in Nodes
  BY BootChannel
<1> QED BY <1>1, TakenAt DEF Inbox, Outbox

\* A write, as the two directions see it.
LEMMA WriteBoxes ==
  ASSUME NEW w, WireType(w), NEW ch \in Channel, NEW n, NEW t,
         NEW c \in Children
  PROVE  /\ Inbox(c, Write(w, ch, n, t)) =
              IF ch = Boot(c) /\ Far(ch, n) = c /\ ch \notin down
              THEN Inbox(c, w) \o t ELSE Inbox(c, w)
         /\ Outbox(c, Write(w, ch, n, t)) =
              IF ch = Boot(c) /\ Far(ch, n) = Parent /\ ch \notin down
              THEN Outbox(c, w) \o t ELSE Outbox(c, w)
<1>1. Boot(c) \in Channel /\ c \in Nodes /\ Parent \in Nodes
  BY BootChannel
<1>2. Write(w, ch, n, t)[Boot(c)][c] =
           IF Boot(c) = ch /\ c = Far(ch, n) /\ ch \notin down
           THEN w[ch][Far(ch, n)] \o t ELSE w[Boot(c)][c]
  BY <1>1, WriteAt
<1>3. Write(w, ch, n, t)[Boot(c)][Parent] =
           IF Boot(c) = ch /\ Parent = Far(ch, n) /\ ch \notin down
           THEN w[ch][Far(ch, n)] \o t ELSE w[Boot(c)][Parent]
  BY <1>1, WriteAt
<1>4. Inbox(c, Write(w, ch, n, t)) =
              IF ch = Boot(c) /\ Far(ch, n) = c /\ ch \notin down
              THEN Inbox(c, w) \o t ELSE Inbox(c, w)
  BY <1>2 DEF Inbox
<1>5. Outbox(c, Write(w, ch, n, t)) =
              IF ch = Boot(c) /\ Far(ch, n) = Parent /\ ch \notin down
              THEN Outbox(c, w) \o t ELSE Outbox(c, w)
  BY <1>3 DEF Outbox
<1> QED BY <1>4, <1>5

\* The phase of a child depends on its own two directions only.
LEMMA JoiningSame ==
  ASSUME NEW w, NEW v, NEW c \in Children,
         Inbox(c, v) = Inbox(c, w), Outbox(c, v) = Outbox(c, w)
  PROVE  /\ Offered(c, w) => Offered(c, v)
         /\ Answered(c, w) => Answered(c, v)
         /\ Accepted(c, w) => Accepted(c, v)
<1> QED BY DEF Offered, Answered, Accepted

\* A read of a message that is not of the handshake leaves all phases.
LEMMA TakeJoining ==
  ASSUME NEW w, WireType(w), Joining(w), NEW ch \in Channel, NEW n \in Nodes,
         w[ch][n] # <<>>,
         Head(w[ch][n]).type \notin {"AcceptChild", "AcceptParent"}
  PROVE  Joining(TakenFrom(w, n, ch))
<1> DEFINE v == TakenFrom(w, n, ch)
<1>1. ASSUME NEW c \in Children \ crashed, Parent \notin crashed
      PROVE  Offered(c, v) \/ Answered(c, v) \/ Accepted(c, v)
  <2>1. Offered(c, w) \/ Answered(c, w) \/ Accepted(c, w)
    BY <1>1 DEF Joining
  <2>2. c # Parent
    BY BootChannel
  <2>3. CASE ch = Boot(c) /\ n = c
    <3>1. Inbox(c, v) = Tail(Inbox(c, w)) /\ Outbox(c, v) = Outbox(c, w)
      BY <2>2, <2>3, TakenBoxes
    <3>2. Inbox(c, w) # <<>> /\ Head(Inbox(c, w)) # AcceptChild
      BY <2>3, MessageTypes DEF Inbox
    <3>3. ~ Offered(c, w)
      BY <3>2 DEF Offered
    <3>4. Inbox(c, w) \in Seq(ToChild(c)) => Inbox(c, v) \in Seq(ToChild(c))
      BY <3>1, <3>2, SeqTail
    <3> QED BY <2>1, <3>1, <3>3, <3>4 DEF Answered, Accepted
  <2>4. CASE ch = Boot(c) /\ n = Parent
    <3>1. Outbox(c, v) = Tail(Outbox(c, w)) /\ Inbox(c, v) = Inbox(c, w)
      BY <2>2, <2>4, TakenBoxes
    <3>2. Outbox(c, w) # <<>> /\ Head(Outbox(c, w)) # AcceptParent
      BY <2>4, MessageTypes DEF Outbox
    <3>3. ~ Offered(c, w) /\ ~ Answered(c, w)
      BY <3>2 DEF Offered, Answered
    <3>4. Outbox(c, w) \in Seq(ToParent(c)) => Outbox(c, v) \in Seq(ToParent(c))
      BY <3>1, <3>2, SeqTail
    <3> QED BY <2>1, <3>1, <3>3, <3>4 DEF Accepted
  <2>5. CASE ch # Boot(c) \/ n \notin {c, Parent}
    <3>1. Inbox(c, v) = Inbox(c, w) /\ Outbox(c, v) = Outbox(c, w)
      BY <2>5, TakenBoxes
    <3> QED BY <2>1, <3>1, JoiningSame
  <2> QED BY <2>3, <2>4, <2>5
<1> QED BY <1>1 DEF Joining

\* A read of a message without an end, which is not of the handshake, keeps the
\* invariant of what is on the way.
LEMMA TakeStep ==
  ASSUME NEW w, WireInv(w), NEW ch \in Channel, NEW n \in Nodes,
         w[ch][n] # <<>>, ~ Handed(Head(w[ch][n])),
         Head(w[ch][n]).type \notin {"AcceptChild", "AcceptParent"}
  PROVE  WireInv(TakenFrom(w, n, ch))
<1> DEFINE v == TakenFrom(w, n, ch)
<1>1. WireType(w) /\ WireType(v)
  BY TakenType DEF WireInv
<1>2. ASSUME NEW c \in Children PROVE SameHandles(Inbox(c, w), Inbox(c, v))
  <2>1. Inbox(c, w) \in Seq(Message)
    BY <1>1, BoxTypes
  <2>2. CASE ch = Boot(c) /\ n = c
    <3>1. Inbox(c, v) = Tail(Inbox(c, w))
      BY <1>1, <2>2, TakenBoxes
    <3>2. Inbox(c, w) # <<>> /\ ~ Handed(Head(Inbox(c, w)))
      BY <2>2 DEF Inbox
    <3> QED BY <2>1, <3>1, <3>2, SameTail
  <2>3. CASE ~ (ch = Boot(c) /\ n = c)
    <3>1. Inbox(c, v) = Inbox(c, w)
      BY <1>1, <2>3, TakenBoxes
    <3> QED BY <2>1, <3>1, SameSame
  <2> QED BY <2>2, <2>3
<1>3. Ordered(v)
  BY <1>1, <1>2, OrderedSame DEF WireInv
<1>4. Agree(v)
  BY <1>2, AgreeSame DEF WireInv
<1>5. Joining(v)
  BY <1>1, TakeJoining DEF WireInv
<1> QED BY <1>1, <1>3, <1>4, <1>5 DEF WireInv

\* So does a write to a channel between children, ...
LEMMA WritePair ==
  ASSUME NEW w, WireInv(w), NEW ch \in Pair, NEW n,
         NEW t \in Seq(PortsMessages)
  PROVE  WireInv(Write(w, ch, n, t))
<1> DEFINE v == Write(w, ch, n, t)
<1>1. ch \in Channel
  BY PairChannel
<1>2. t \in Seq(Carries(ch, Far(ch, n)))
  BY <1>1, FarEnd DEF Carries
<1>3. WireType(w) /\ WireType(v)
  BY <1>1, <1>2, WriteType DEF WireInv
<1>4. ASSUME NEW c \in Children
      PROVE  Inbox(c, v) = Inbox(c, w) /\ Outbox(c, v) = Outbox(c, w)
  BY <1>1, <1>3, BootChannel, WriteBoxes
<1>5. ASSUME NEW c \in Children PROVE SameHandles(Inbox(c, w), Inbox(c, v))
  BY <1>3, <1>4, BoxTypes, SameSame
<1>6. Ordered(v) /\ Agree(v)
  BY <1>3, <1>5, OrderedSame, AgreeSame DEF WireInv
<1>7. Joining(v)
  BY <1>4, JoiningSame DEF WireInv, Joining
<1> QED BY <1>3, <1>6, <1>7 DEF WireInv

\* ... a write of the parent to a child it has accepted, ...
LEMMA WriteDown ==
  ASSUME NEW w, WireInv(w), NEW c \in Children, peers[Parent][c] # NoChannel,
         NEW t \in Seq(Plain(c))
  PROVE  WireInv(Write(w, Boot(c), Parent, t))
<1> DEFINE v == Write(w, Boot(c), Parent, t)
<1>1. Boot(c) \in Channel /\ Far(Boot(c), Parent) = c /\ c # Parent
  BY BootChannel, BootFar
<1>2. t \in Seq(ToChild(c))
  BY SeqSub DEF Plain
<1>3. t \in Seq(Carries(Boot(c), c))
  BY <1>2, CarriesBoot, SeqSub
<1>4. WireType(w) /\ WireType(v)
  BY <1>1, <1>3, WriteType DEF WireInv
<1>5. ASSUME NEW d \in Children
      PROVE  /\ Outbox(d, v) = Outbox(d, w)
             /\ Inbox(d, v) = Inbox(d, w)
                \/ (d = c /\ Inbox(d, v) = Inbox(d, w) \o t)
  <2>2. Outbox(d, v) = IF Boot(c) = Boot(d) /\ c = Parent /\ Boot(c) \notin down
                       THEN Outbox(d, w) \o t ELSE Outbox(d, w)
    BY <1>1, <1>4, WriteBoxes
  <2>3. Inbox(d, v) = IF Boot(c) = Boot(d) /\ c = d /\ Boot(c) \notin down
                      THEN Inbox(d, w) \o t ELSE Inbox(d, w)
    BY <1>1, <1>4, WriteBoxes
  <2> QED BY <1>1, <2>2, <2>3
<1>6. ASSUME NEW d \in Children PROVE SameHandles(Inbox(d, w), Inbox(d, v))
  <2>1. Inbox(d, w) \in Seq(Message)
    BY <1>4, BoxTypes
  <2>2. SameHandles(Inbox(d, w), Inbox(d, w))
    BY <2>1, SameSame
  <2>3. SameHandles(Inbox(d, w), Inbox(d, w) \o t)
    <3>1. \A m \in Plain(c) : ~ Handed(m)
      BY DEF Plain
    <3> QED BY <2>1, <3>1, SameCat
  <2> QED BY <1>5, <2>2, <2>3
<1>7. Ordered(v) /\ Agree(v)
  BY <1>4, <1>6, OrderedSame, AgreeSame DEF WireInv
<1>8. ASSUME NEW d \in Children \ crashed, Parent \notin crashed
      PROVE  Offered(d, v) \/ Answered(d, v) \/ Accepted(d, v)
  <2>1. Offered(d, w) \/ Answered(d, w) \/ Accepted(d, w)
    BY <1>8 DEF WireInv, Joining
  <2>2. CASE Inbox(d, v) = Inbox(d, w)
    BY <1>5, <2>1, <2>2, JoiningSame
  <2>3. CASE d = c /\ Inbox(d, v) = Inbox(d, w) \o t
    <3>1. Accepted(d, w)
      BY <2>1, <2>3 DEF Offered, Answered
    <3>2. Inbox(d, w) \in Seq(ToChild(d))
      BY <3>1 DEF Accepted
    <3>3. Inbox(d, v) \in Seq(ToChild(d))
      BY <1>2, <2>3, <3>2, SeqCat
    <3> QED BY <1>5, <3>1, <3>3 DEF Accepted
  <2> QED BY <1>5, <2>2, <2>3
<1>9. Joining(v)
  BY <1>8 DEF Joining
<1> QED BY <1>4, <1>7, <1>9 DEF WireInv

\* ... and a write of a child to the parent it has answered.
LEMMA WriteUp ==
  ASSUME NEW w, WireInv(w), NEW c \in Children, parent_name[c] = Parent,
         NEW t \in Seq(ToParent(c))
  PROVE  WireInv(Write(w, Boot(c), c, t))
<1> DEFINE v == Write(w, Boot(c), c, t)
<1>1. Boot(c) \in Channel /\ Far(Boot(c), c) = Parent /\ c # Parent
  BY BootChannel, BootFar
<1>3. t \in Seq(Carries(Boot(c), Parent))
  BY CarriesBoot, SeqSub
<1>4. WireType(w) /\ WireType(v)
  BY <1>1, <1>3, WriteType DEF WireInv
<1>5. ASSUME NEW d \in Children
      PROVE  /\ Inbox(d, v) = Inbox(d, w)
             /\ Outbox(d, v) = Outbox(d, w)
                \/ (d = c /\ Outbox(d, v) = Outbox(d, w) \o t)
  <2>1. d # Parent
    BY BootChannel
  <2> QED BY <1>1, <1>4, <2>1, WriteBoxes, BootIs
<1>6. ASSUME NEW d \in Children PROVE SameHandles(Inbox(d, w), Inbox(d, v))
  BY <1>4, <1>5, BoxTypes, SameSame
<1>7. Ordered(v) /\ Agree(v)
  BY <1>4, <1>6, OrderedSame, AgreeSame DEF WireInv
<1>8. ASSUME NEW d \in Children \ crashed, Parent \notin crashed
      PROVE  Offered(d, v) \/ Answered(d, v) \/ Accepted(d, v)
  <2>1. Offered(d, w) \/ Answered(d, w) \/ Accepted(d, w)
    BY <1>8 DEF WireInv, Joining
  <2>2. CASE Outbox(d, v) = Outbox(d, w)
    BY <1>5, <2>1, <2>2, JoiningSame
  <2>3. CASE d = c /\ Outbox(d, v) = Outbox(d, w) \o t
    <3>1. ~ Offered(d, w)
      <4>1. Parent # NoNode
        BY ParentAssumption DEF Nodes
      <4> QED BY <2>3, <4>1 DEF Offered
    <3>2. ASSUME Accepted(d, w) PROVE Accepted(d, v)
      <4>1. Outbox(d, w) \in Seq(ToParent(d))
        BY <3>2 DEF Accepted
      <4>2. Outbox(d, v) \in Seq(ToParent(d))
        BY <2>3, <4>1, SeqCat
      <4> QED BY <1>5, <3>2, <4>2 DEF Accepted
    <3>3. ASSUME Answered(d, w) PROVE Answered(d, v)
      <4>1. /\ Outbox(d, w) # <<>> /\ Outbox(d, w) \in Seq(Message)
            /\ Tail(Outbox(d, w)) \in Seq(ToParent(d))
            /\ Head(Outbox(d, w)) = AcceptParent
        BY <1>4, <3>3, BoxTypes DEF Answered
      <4>2. t \in Seq(Message)
        BY ToParentCases, SeqSub
      <4>3. /\ Outbox(d, v) # <<>> /\ Head(Outbox(d, v)) = Head(Outbox(d, w))
            /\ Tail(Outbox(d, v)) = Tail(Outbox(d, w)) \o t
        BY <2>3, <4>1, <4>2
      <4>4. Tail(Outbox(d, v)) \in Seq(ToParent(d))
        BY <2>3, <4>1, <4>3, SeqCat
      <4> QED BY <1>5, <3>3, <4>1, <4>3, <4>4 DEF Answered
    <3> QED BY <2>1, <3>1, <3>2, <3>3
  <2> QED BY <1>5, <2>2, <2>3
<1>9. Joining(v)
  BY <1>8 DEF Joining
<1> QED BY <1>4, <1>7, <1>9 DEF WireInv
-----------------------------------------------------------------------------

\* A thread between two locked regions of SendPeerMessage has another node in
\* mind.
PcOK == \A n \in Nodes : pc[n].at # "idle" => pc[n].to \in Nodes \ {n}

\* Only the death of a process closes the channel a child was launched with,
\* and while the parent lives nobody is reported lost who is not.
Losses ==
  /\ \A c \in Children :
       Boot(c) \in down => c \in crashed \/ Parent \in crashed
  /\ Parent \notin crashed =>
       \A n \in Nodes \ crashed : lost[n] \subseteq crashed

\* A child has no channel to a parent whose name it does not know, and reads the
\* channel of its launch while it waits for that name or has it.
Joins ==
  \A c \in Children :
    /\ parent_name[c] = NoNode => peers[c][Parent] = NoChannel
    /\ Boot(c) \in reads[c] => c \in bootstrap \/ parent_name[c] = Parent

\* Channels are numbered as they are made, a node reads its own, and of those
\* that lead to a child only the one in peers_.
Made ==
  /\ \A ch \in down : ch[3] <= pairs
  /\ \A n \in Nodes : \A ch \in reads[n] :
       ch[3] <= pairs /\ n \in {ch[1], ch[2]}
  /\ \A x, y \in Children : peers[x][y] # NoChannel => peers[x][y][3] <= pairs
  /\ \A x, y \in Children : x # y /\ Attached(x) /\ Attached(y) =>
       \A h \in reads[x] \cap Between(x, y) : peers[x][y] = h

\* The part of the invariant that is about the tables and the channels.
Static == Losses /\ Joins /\ Made

\* A reserved port has no peer yet, and who is told to connect is its peer.
Took(c) == Wants[c] \in Tokens /\ port_peer[Wants[c]] = c

\* ConnectToPort is on the way only to the peer of the port.
Granted(w) ==
  \A ch \in Channel, c \in Children : Has(w[ch][c], ConnectToPort) => Took(c)

\* Who asks for a port names one, and an initialized local port has the reserved
\* port it asked for as its peer.
Taker ==
  /\ \A c \in requests \cup connections : Wants[c] \in Tokens
  /\ \A t \in reserved : port_peer[t] = NoNode
  /\ Granted(wire)
  /\ \A c \in Children : local_port[c] = "initialized" => Took(c)

\* The inductive invariant.
IInv == TypeOK /\ PcOK /\ Static /\ Taker /\ WireInv(wire)

\* A step that changes neither tables of peers nor the set of open channels.
Quiet == UNCHANGED <<peers, reads, down, crashed, lost, pairs, parent_name,
                     pending_children, bootstrap>>

\* The empty name is not the name of a node.
LEMMA NoNodeIs == NoNode \notin Nodes /\ Parent # NoNode /\ Parent \in Nodes
<1> QED BY ParentAssumption DEF Nodes

\* A step that touches neither peers nor channels only has messages to show.
LEMMA QuietWire ==
  ASSUME Quiet, WireInv(wire')
  PROVE  WireInv(wire)'
<1> USE DEF Quiet
<1>1. ASSUME NEW c
      PROVE  /\ Offered(c, wire)' <=> Offered(c, wire')
             /\ Answered(c, wire)' <=> Answered(c, wire')
             /\ Accepted(c, wire)' <=> Accepted(c, wire')
  BY DEF Offered, Answered, Accepted, Inbox, Outbox
<1>2. Joining(wire)'
  BY <1>1 DEF WireInv, Joining
<1>3. Ordered(wire)'
  BY DEF WireInv, Ordered, Inbox
<1>4. ASSUME NEW x, NEW y, NEW h
      PROVE  Knows(x, y, h, wire)' <=> Knows(x, y, h, wire')
  BY DEF Knows, Inbox
<1>5. ASSUME NEW x, NEW y, NEW h
      PROVE  Common(x, y, h, wire)' <=> Common(x, y, h, wire')
  BY <1>4 DEF Common
<1>6. ASSUME NEW x, NEW y
      PROVE  Agreed(x, y, wire)' <=> Agreed(x, y, wire')
  BY <1>4, <1>5 DEF Agreed
<1>7. \A x : Attached(x)' <=> Attached(x)
  BY DEF Attached
<1>8. Agree(wire)'
  BY <1>6, <1>7 DEF WireInv, Agree
<1>9. WireType(wire)'
  BY DEF WireInv, WireType
<1> QED BY <1>2, <1>3, <1>8, <1>9 DEF WireInv

\* Such a step keeps what is about the tables.
LEMMA QuietStatic ==
  ASSUME Quiet, Static
  PROVE  Static'
<1> USE DEF Quiet
<1>1. Losses'
  BY DEF Static, Losses
<1>2. Joins'
  BY DEF Static, Joins
<1>3. \A x : Attached(x)' <=> Attached(x)
  BY DEF Attached
<1>4. Made'
  BY <1>3 DEF Static, Made
<1> QED BY <1>1, <1>2, <1>4 DEF Static

\* No ConnectToPort is on the way in v that was not in w.
NoGrants(w, v) ==
  \A ch \in Channel, c \in Children :
    Has(v[ch][c], ConnectToPort) => Has(w[ch][c], ConnectToPort)

\* Then nobody new takes a port.
LEMMA TakerFrame ==
  ASSUME Taker, NoGrants(wire, wire'), UNCHANGED portVars
  PROVE  Taker'
<1> USE DEF portVars
<1>1. Granted(wire)'
  BY DEF Taker, Granted, NoGrants, Took
<1> QED BY <1>1 DEF Taker, Took

\* Nothing written.
LEMMA NoGrantsSame ==
  ASSUME NEW w
  PROVE  NoGrants(w, w)
<1> QED BY DEF NoGrants

\* A write of other messages.
LEMMA WriteNoGrants ==
  ASSUME NEW w, WireType(w), NEW ch \in Channel, NEW n, NEW T,
         NEW t \in Seq(T), ConnectToPort \notin T
  PROVE  NoGrants(w, Write(w, ch, n, t))
<1> SUFFICES ASSUME NEW c2 \in Channel, NEW c \in Children,
                    Has(Write(w, ch, n, t)[c2][c], ConnectToPort)
             PROVE  Has(w[c2][c], ConnectToPort)
  BY DEF NoGrants
<1>1. c \in Nodes
  BY BootChannel
<1>2. Write(w, ch, n, t)[c2][c] =
           IF c2 = ch /\ c = Far(ch, n) /\ ch \notin down
           THEN w[ch][Far(ch, n)] \o t ELSE w[c2][c]
  BY <1>1, WriteAt
<1>3. CASE c2 = ch /\ c = Far(ch, n) /\ ch \notin down
  <2>1. w[c2][c] \in Seq(Message)
    BY <1>1 DEF WireType
  <2>2. Has(w[c2][c] \o t, ConnectToPort)
    BY <1>2, <1>3
  <2>3. Has(w[c2][c], ConnectToPort) \/ Has(t, ConnectToPort)
    BY <2>1, <2>2, HasCat
  <2> QED BY <2>3, HasIn
<1>4. CASE ~ (c2 = ch /\ c = Far(ch, n) /\ ch \notin down)
  BY <1>2, <1>4
<1> QED BY <1>3, <1>4

\* A read.
LEMMA TakenNoGrants ==
  ASSUME NEW w, WireType(w), NEW ch \in Channel, NEW n \in Nodes,
         w[ch][n] # <<>>
  PROVE  NoGrants(w, TakenFrom(w, n, ch))
<1> SUFFICES ASSUME NEW c2 \in Channel, NEW c \in Children,
                    Has(TakenFrom(w, n, ch)[c2][c], ConnectToPort)
             PROVE  Has(w[c2][c], ConnectToPort)
  BY DEF NoGrants
<1>1. c \in Nodes
  BY BootChannel
<1>2. TakenFrom(w, n, ch)[c2][c] =
           IF c2 = ch /\ c = n THEN Tail(w[ch][n]) ELSE w[c2][c]
  BY <1>1, TakenAt
<1>3. CASE c2 = ch /\ c = n
  <2>1. w[c2][c] \in Seq(Message)
    BY <1>1 DEF WireType
  <2>2. Has(Tail(w[c2][c]), ConnectToPort)
    BY <1>2, <1>3
  <2> QED BY <1>3, <2>1, <2>2, HasTail
<1>4. CASE ~ (c2 = ch /\ c = n)
  BY <1>2, <1>4
<1> QED BY <1>3, <1>4

\* One after the other.
LEMMA NoGrantsTrans ==
  ASSUME NEW u, NEW v, NEW w, NoGrants(u, v), NoGrants(v, w)
  PROVE  NoGrants(u, w)
<1> QED BY DEF NoGrants

\* A rejected write names the channel it failed on.
LEMMA RejectedType ==
  ASSUME NEW ch \in Channel, NEW n \in Nodes
  PROVE  Rejected(ch, n) \subseteq Nodes \X Channel
<1> QED BY DEF Rejected

\* The channel to a peer, and the one to the parent.
LEMMA PeerChannel ==
  ASSUME TypeOK, NEW n \in Nodes, NEW m \in Nodes, peers[n][m] # NoChannel
  PROVE  /\ peers[n][m] \in Channel /\ Links(peers[n][m], n, m)
         /\ Far(peers[n][m], n) = m /\ n # m
         /\ n = Parent => m \in Children /\ peers[n][m] = Boot(m)
         /\ m = Parent => n \in Children /\ peers[n][m] = Boot(n)
         /\ n # Parent /\ m # Parent =>
              n \in Children /\ m \in Children /\ peers[n][m] \in Pair
<1>1. peers[n][m] \in Channel /\ Links(peers[n][m], n, m)
  BY DEF TypeOK
<1>2. Far(peers[n][m], n) = m /\ n # m
  BY <1>1, LinkedFar
<1>3. n = Parent => m \in Children /\ peers[n][m] = Boot(m)
  BY <1>1, ParentChannel
<1>4. m = Parent => n \in Children /\ peers[n][m] = Boot(n)
  BY <1>1, ParentChannel
<1>5. n # Parent /\ m # Parent =>
              n \in Children /\ m \in Children /\ peers[n][m] \in Pair
  BY <1>1, ChildChannel DEF Nodes
<1> QED BY <1>1, <1>2, <1>3, <1>4, <1>5

\* Who has its parent in peers_ knows its name, and reaches it over the channel
\* of its launch.
LEMMA KnownParent ==
  ASSUME TypeOK, Static, NEW c \in Children, peers[c][Parent] # NoChannel
  PROVE  parent_name[c] = Parent /\ peers[c][Parent] = Boot(c)
<1>1. parent_name[c] \in {Parent, NoNode}
  BY DEF TypeOK
<1>2. parent_name[c] # NoNode
  BY DEF Static, Joins
<1>3. c \in Nodes /\ Parent \in Nodes
  BY BootChannel
<1> QED BY <1>1, <1>2, <1>3, PeerChannel

\* Only a child that has answered its parent has a channel to it.
LEMMA ToTheParent ==
  ASSUME TypeOK, Static, NEW n \in Nodes, GetParentChannel(n) # NoChannel
  PROVE  /\ n \in Children /\ parent_name[n] = Parent
         /\ GetParentChannel(n) = Boot(n)
<1>1. n \in Children
  BY DEF GetParentChannel, Nodes
<1>2. parent_name[n] \in {Parent, NoNode} /\ n # Parent
  BY <1>1, BootChannel DEF TypeOK
<1>3. peers[n][Parent] # NoChannel /\ GetParentChannel(n) = peers[n][Parent]
  BY <1>1, <1>2, NoNodeIs DEF GetParentChannel, GetPeerChannel
<1> QED BY <1>1, <1>3, KnownParent

\* User messages may be written to any peer.
LEMMA WritePorts ==
  ASSUME TypeOK, Static, NEW w, WireInv(w), NEW n \in Nodes, NEW m \in Nodes,
         peers[n][m] # NoChannel, NEW t \in Seq(PortsMessages)
  PROVE  /\ WireInv(Write(w, peers[n][m], n, t))
         /\ NoGrants(w, Write(w, peers[n][m], n, t))
<1>1. WireInv(Write(w, peers[n][m], n, t))
  <2>1. CASE n = Parent
    <3>1. m \in Children /\ peers[n][m] = Boot(m)
      BY <2>1, PeerChannel
    <3>2. PortsMessages \subseteq Plain(m)
      BY MessageTypes DEF Plain, ToChild, Handed
    <3>3. t \in Seq(Plain(m))
      BY <3>2, SeqSub
    <3> QED BY <2>1, <3>1, <3>3, WriteDown
  <2>2. CASE m = Parent
    <3>1. n \in Children /\ peers[n][m] = Boot(n) /\ parent_name[n] = Parent
      BY <2>2, PeerChannel, KnownParent
    <3>2. PortsMessages \subseteq ToParent(n)
      BY DEF ToParent
    <3>3. t \in Seq(ToParent(n))
      BY <3>2, SeqSub
    <3> QED BY <3>1, <3>3, WriteUp
  <2>3. CASE n # Parent /\ m # Parent
    BY <2>3, PeerChannel, WritePair
  <2> QED BY <2>1, <2>2, <2>3
<1>2. NoGrants(w, Write(w, peers[n][m], n, t))
  <2>1. ConnectToPort \notin PortsMessages
    BY MessageTypes
  <2>2. peers[n][m] \in Channel /\ WireType(w)
    BY PeerChannel DEF WireInv
  <2> QED BY <2>1, <2>2, WriteNoGrants
<1> QED BY <1>1, <1>2
-----------------------------------------------------------------------------
(* Handlers that leave peers and channels alone.                           *)

\* What is left to show of a quiet step.
LEMMA QuietStep ==
  ASSUME IInv, Quiet, WireInv(wire'), NoGrants(wire, wire'),
         UNCHANGED portVars, TypeOK', PcOK'
  PROVE  IInv'
<1> QED BY QuietWire, QuietStatic, TakerFrame DEF IInv

\* The types of what most handlers leave alone.
LEMMA TypeFrame ==
  ASSUME TypeOK, Quiet, WireInv(wire'),
         pending_messages' \in [Nodes -> [Nodes -> Seq(Nat)]],
         rejects' \subseteq Nodes \X Channel,
         UNCHANGED <<requests, connections, local_port, reserved, port_peer>>,
         pc' \in [Nodes -> [at : {"idle", "queue", "ask"},
                            to : Nodes \cup {NoNode}]],
         sent' \in [Nodes -> [Nodes -> Nat]], got' \in [Nodes -> [Nodes -> Nat]]
  PROVE  TypeOK'
<1>1. wire' \in [Channel -> [Nodes -> Seq(Message)]]
  BY DEF WireInv, WireType
<1> QED BY <1>1 DEF TypeOK, Quiet

\* The number of a user message is a number.
LEMMA SendTypes ==
  ASSUME TypeOK, NEW n \in Nodes, NEW to \in Nodes, CountSent(n, to)
  PROVE  sent' \in [Nodes -> [Nodes -> Nat]] /\ sent[n][to] \in Nat
<1>1. sent \in [Nodes -> [Nodes -> Nat]]
  BY DEF TypeOK
<1>2. sent[n][to] \in Nat
  BY <1>1
<1>3. sent[n][to] + 1 \in Nat
  BY <1>2
<1> QED BY <1>1, <1>2, <1>3 DEF CountSent

\* SendPeerMessage, the peer is known.
LEMMA SendToPeerStep ==
  ASSUME IInv, NEW n \in Nodes, NEW to \in Nodes, SendToPeer(n, to)
  PROVE  IInv'
<1> DEFINE ch == peers[n][to]
<1>1. TypeOK /\ Static /\ PcOK /\ WireInv(wire)
  BY DEF IInv
<1>2. ch = GetPeerChannel(n, to) /\ ch # NoChannel
  BY NoNodeIs DEF SendToPeer, GetPeerChannel
<1>3. sent' \in [Nodes -> [Nodes -> Nat]] /\ sent[n][to] \in Nat
  BY <1>1, SendTypes DEF SendToPeer
<1>4. PortsMessage(sent[n][to] + 1) \in PortsMessages
  BY <1>3, PortsMessageType
<1>5. wire' = Write(wire, ch, n, <<PortsMessage(sent[n][to] + 1)>>)
  BY <1>2 DEF SendToPeer
<1>6. WireInv(wire') /\ NoGrants(wire, wire')
  <2>1. <<PortsMessage(sent[n][to] + 1)>> \in Seq(PortsMessages)
    BY <1>4, SeqOne
  <2> QED BY <1>1, <1>2, <1>5, <2>1, WritePorts
<1>7. rejects' \subseteq Nodes \X Channel
  <2>1. Rejected(ch, n) \subseteq Nodes \X Channel
    BY <1>1, <1>2, PeerChannel, RejectedType
  <2> QED BY <1>1, <1>2, <2>1 DEF SendToPeer, TypeOK
<1>8. Quiet /\ UNCHANGED portVars /\ UNCHANGED <<pc, got, pending_messages>>
  BY DEF SendToPeer, Quiet, portVars, lossVars, joinVars, peerVars
<1>9. TypeOK'
  BY <1>1, <1>3, <1>6, <1>7, <1>8, TypeFrame DEF portVars, TypeOK
<1>10. PcOK'
  BY <1>1, <1>8 DEF PcOK
<1> QED BY <1>6, <1>8, <1>9, <1>10, QuietStep

\* SendPeerMessage, first locked region: the peer is not known.
LEMMA LookUpPeerStep ==
  ASSUME IInv, NEW n \in Nodes, NEW to \in Nodes, LookUpPeer(n, to)
  PROVE  IInv'
<1>1. TypeOK /\ Static /\ PcOK /\ WireInv(wire)
  BY DEF IInv
<1>2. sent' \in [Nodes -> [Nodes -> Nat]]
  BY <1>1, SendTypes DEF LookUpPeer
<1>3. /\ Quiet /\ UNCHANGED portVars
      /\ UNCHANGED <<wire, rejects, got, pending_messages>>
  BY DEF LookUpPeer, Quiet, portVars, lossVars, joinVars, peerVars, channelVars
<1>4. n # to /\ pc' = [pc EXCEPT ![n] = [at |-> "queue", to |-> to]]
  BY DEF LookUpPeer, MaySend
<1>5. pc \in [Nodes -> [at : {"idle", "queue", "ask"}, to : Nodes \cup {NoNode}]]
  BY <1>1 DEF TypeOK
<1>6. pc' \in [Nodes -> [at : {"idle", "queue", "ask"}, to : Nodes \cup {NoNode}]]
  BY <1>4, <1>5
<1>7. WireInv(wire') /\ NoGrants(wire, wire')
  BY <1>1, <1>3, NoGrantsSame
<1>8. TypeOK'
  BY <1>1, <1>2, <1>3, <1>6, <1>7, TypeFrame DEF portVars, TypeOK
<1>9. PcOK'
  BY <1>1, <1>4, <1>5 DEF PcOK
<1> QED BY <1>3, <1>7, <1>8, <1>9, QuietStep

\* SendPeerMessage, second locked region: the message waits for the peer.
LEMMA QueueForPeerStep ==
  ASSUME IInv, NEW n \in Nodes, QueueForPeer(n)
  PROVE  IInv'
<1> DEFINE to == pc[n].to
<1>1. TypeOK /\ Static /\ PcOK /\ WireInv(wire)
  BY DEF IInv
<1>2. to \in Nodes \ {n}
  BY <1>1 DEF PcOK, QueueForPeer
<1>3. /\ Quiet /\ UNCHANGED portVars
      /\ UNCHANGED <<wire, rejects, got, sent>>
  BY DEF QueueForPeer, Quiet, portVars, lossVars, joinVars, channelVars
<1>4. /\ pending_messages \in [Nodes -> [Nodes -> Seq(Nat)]]
      /\ sent[n][to] \in Nat
      /\ sent \in [Nodes -> [Nodes -> Nat]]
      /\ got \in [Nodes -> [Nodes -> Nat]] /\ rejects \subseteq Nodes \X Channel
  BY <1>1, <1>2 DEF TypeOK
<1>5. pending_messages' \in [Nodes -> [Nodes -> Seq(Nat)]]
  <2>1. Enqueued(pending_messages[n][to], sent[n][to]) \in Seq(Nat)
    BY <1>2, <1>4 DEF Enqueued
  <2>2. pending_messages' = [pending_messages EXCEPT ![n][to] =
               Enqueued(pending_messages[n][to], sent[n][to])]
    BY DEF QueueForPeer
  <2> QED BY <1>2, <1>4, <2>1, <2>2
<1>6. PICK e \in {[at |-> "ask", to |-> to], Idle} : pc' = [pc EXCEPT ![n] = e]
  BY DEF QueueForPeer
<1>7. pc \in [Nodes -> [at : {"idle", "queue", "ask"}, to : Nodes \cup {NoNode}]]
  BY <1>1 DEF TypeOK
<1>8. e \in [at : {"idle", "queue", "ask"}, to : Nodes \cup {NoNode}]
  BY <1>2, <1>6 DEF Idle
<1>9. e.at # "idle" => e.to \in Nodes \ {n}
  BY <1>2, <1>6 DEF Idle
<1>10. pc' \in [Nodes -> [at : {"idle", "queue", "ask"}, to : Nodes \cup {NoNode}]]
  BY <1>6, <1>7, <1>8
<1>11. WireInv(wire') /\ NoGrants(wire, wire')
  BY <1>1, <1>3, NoGrantsSame
<1>12. TypeOK'
  BY <1>1, <1>3, <1>4, <1>5, <1>10, <1>11, TypeFrame DEF portVars
<1>13. PcOK'
  BY <1>1, <1>6, <1>7, <1>9 DEF PcOK
<1> QED BY <1>3, <1>11, <1>12, <1>13, QuietStep

\* The request for an introduction is written to the parent.
LEMMA AskParentStep ==
  ASSUME TypeOK, Static, WireInv(wire), NEW n \in Nodes, NEW to \in Nodes \ {n},
         AskParent(n, to)
  PROVE  /\ WireInv(wire') /\ NoGrants(wire, wire')
         /\ rejects' \subseteq Nodes \X Channel
<1>1. rejects \subseteq Nodes \X Channel
  BY DEF TypeOK
<1>2. CASE GetParentChannel(n) = NoChannel
  <2>1. wire' = wire /\ rejects' = rejects
    BY <1>2 DEF AskParent
  <2> QED BY <1>1, <2>1, NoGrantsSame
<1>3. CASE GetParentChannel(n) # NoChannel
  <2>1. /\ n \in Children /\ parent_name[n] = Parent
        /\ GetParentChannel(n) = Boot(n)
    BY <1>3, ToTheParent
  <2>2. /\ wire' = Write(wire, Boot(n), n, <<RequestIntroduction(to)>>)
        /\ rejects' = rejects \cup Rejected(Boot(n), n)
    BY <1>3, <2>1 DEF AskParent
  <2>3. RequestIntroduction(to) \in ToParent(n)
    BY DEF ToParent
  <2>4. <<RequestIntroduction(to)>> \in Seq(ToParent(n))
    BY <2>3, SeqOne
  <2>5. WireInv(wire')
    BY <2>1, <2>2, <2>4, WriteUp
  <2>6. Boot(n) \in Channel
    BY <2>1, BootChannel
  <2>7. ConnectToPort \notin ToParent(n)
    BY ToParentCases
  <2>8. NoGrants(wire, wire')
    BY <2>2, <2>4, <2>6, <2>7, WriteNoGrants DEF WireInv
  <2> QED BY <1>1, <2>2, <2>5, <2>6, <2>8, RejectedType
<1> QED BY <1>2, <1>3

\* SendPeerMessage, the request after the second region.
LEMMA AskForIntroductionStep ==
  ASSUME IInv, NEW n \in Nodes, AskForIntroduction(n)
  PROVE  IInv'
<1>1. TypeOK /\ Static /\ PcOK /\ WireInv(wire)
  BY DEF IInv
<1>2. pc[n].to \in Nodes \ {n}
  BY <1>1 DEF PcOK, AskForIntroduction
<1>3. /\ Quiet /\ UNCHANGED portVars
      /\ UNCHANGED <<got, sent, pending_messages>>
  BY DEF AskForIntroduction, Quiet, portVars, lossVars, joinVars, peerVars
<1>4. /\ WireInv(wire') /\ NoGrants(wire, wire')
      /\ rejects' \subseteq Nodes \X Channel
  BY <1>1, <1>2, AskParentStep DEF AskForIntroduction
<1>5. /\ pc \in [Nodes -> [at : {"idle", "queue", "ask"},
                           to : Nodes \cup {NoNode}]]
      /\ pc' = [pc EXCEPT ![n] = Idle]
  BY <1>1 DEF TypeOK, AskForIntroduction
<1>6. /\ pc' \in [Nodes -> [at : {"idle", "queue", "ask"},
                            to : Nodes \cup {NoNode}]]
      /\ \A m \in Nodes : pc'[m] = pc[m] \/ pc'[m].at = "idle"
  BY <1>5 DEF Idle
<1>7. TypeOK'
  BY <1>1, <1>3, <1>4, <1>6, TypeFrame DEF portVars, TypeOK
<1>8. PcOK'
  BY <1>1, <1>6 DEF PcOK
<1> QED BY <1>3, <1>4, <1>7, <1>8, QuietStep

\* The same on the I/O thread, where nothing comes in between.
LEMMA SendToUnknownStep ==
  ASSUME IInv, NEW n \in Nodes, NEW to \in Nodes, SendToUnknown(n, to)
  PROVE  IInv'
<1>1. TypeOK /\ Static /\ PcOK /\ WireInv(wire)
  BY DEF IInv
<1>2. to \in Nodes \ {n}
  BY DEF SendToUnknown, MaySend
<1>3. /\ Quiet /\ UNCHANGED portVars
      /\ UNCHANGED <<got, pc>>
  BY DEF SendToUnknown, Quiet, portVars, lossVars, joinVars
<1>4. /\ WireInv(wire') /\ NoGrants(wire, wire')
      /\ rejects' \subseteq Nodes \X Channel
  <2>1. CASE pending_messages[n][to] = <<>>
    BY <1>1, <1>2, <2>1, AskParentStep DEF SendToUnknown
  <2>2. CASE pending_messages[n][to] # <<>>
    <3>1. wire' = wire /\ rejects' = rejects
      BY <2>2 DEF SendToUnknown
    <3> QED BY <1>1, <3>1, NoGrantsSame DEF TypeOK
  <2> QED BY <2>1, <2>2
<1>5. sent' \in [Nodes -> [Nodes -> Nat]] /\ sent[n][to] \in Nat
  BY <1>1, SendTypes DEF SendToUnknown
<1>6. pending_messages' \in [Nodes -> [Nodes -> Seq(Nat)]]
  <2>1. pending_messages \in [Nodes -> [Nodes -> Seq(Nat)]]
    BY <1>1 DEF TypeOK
  <2>2. Enqueued(pending_messages[n][to], sent[n][to] + 1) \in Seq(Nat)
    BY <1>5, <2>1 DEF Enqueued
  <2>3. pending_messages' = [pending_messages EXCEPT ![n][to] =
               Enqueued(pending_messages[n][to], sent[n][to] + 1)]
    BY DEF SendToUnknown
  <2> QED BY <2>1, <2>2, <2>3
<1>7. TypeOK'
  BY <1>1, <1>3, <1>4, <1>5, <1>6, TypeFrame DEF portVars, TypeOK
<1>8. PcOK'
  BY <1>1, <1>3 DEF PcOK
<1> QED BY <1>3, <1>4, <1>7, <1>8, QuietStep

\* What is read off a channel is what may be on it.
LEMMA ArrivedHead ==
  ASSUME NEW w, WireType(w), NEW ch \in Channel, NEW n \in Nodes,
         w[ch][n] # <<>>
  PROVE  Head(w[ch][n]) \in Carries(ch, n)
<1>1. w[ch][n] \in Seq(Carries(ch, n))
  BY DEF WireType
<1> QED BY <1>1, SeqTail

\* A user message is a user message, whatever brought it.
LEMMA ArrivedPorts ==
  ASSUME NEW ch \in Channel, NEW n \in Nodes, NEW m \in Carries(ch, n),
         m.type = "Ports"
  PROVE  m \in PortsMessages /\ m.num \in Nat /\ ~ Handed(m)
<1>1. m \in PortsMessages
  <2>1. m # AcceptParent /\ m # AcceptChild
    BY MessageTypes
  <2> QED BY <2>1, CarriedCases, ToParentCases, ToChildCases
<1> QED BY <1>1 DEF PortsMessages, Handed

\* OnPortsMessage counts what arrived.
LEMMA OnPortsMessageStep ==
  ASSUME IInv, NEW n \in Nodes, NEW ch \in reads[n], OnPortsMessage(n, ch)
  PROVE  IInv'
<1> DEFINE m == Head(wire[ch][n])
<1>1. TypeOK /\ Static /\ PcOK /\ WireInv(wire) /\ WireType(wire)
  BY DEF IInv, WireInv
<1>2. ch \in Channel
  BY <1>1 DEF TypeOK
<1>3. wire[ch][n] # <<>> /\ m.type = "Ports"
  BY DEF OnPortsMessage, Arrived
<1>4. m \in Carries(ch, n)
  BY <1>1, <1>2, <1>3, ArrivedHead
<1>5. m.num \in Nat /\ ~ Handed(m)
  BY <1>2, <1>3, <1>4, ArrivedPorts
<1>6. wire' = TakenFrom(wire, n, ch)
  BY DEF OnPortsMessage, Taken, TakenFrom
<1>7. WireInv(wire') /\ NoGrants(wire, wire')
  BY <1>1, <1>2, <1>3, <1>5, <1>6, TakeStep, TakenNoGrants
<1>8. got' \in [Nodes -> [Nodes -> Nat]]
  <2>1. Far(ch, n) \in Nodes /\ got \in [Nodes -> [Nodes -> Nat]]
    BY <1>1, <1>2, FarEnd DEF TypeOK
  <2>2. got' = [got EXCEPT ![n][Far(ch, n)] = m.num]
    BY DEF OnPortsMessage
  <2> QED BY <1>5, <2>1, <2>2
<1>9. /\ Quiet /\ UNCHANGED portVars
      /\ UNCHANGED <<pending_messages, rejects, pc, sent>>
  BY DEF OnPortsMessage, Quiet, peerVars, joinVars, lossVars, userVars, portVars
<1>10. TypeOK'
  BY <1>1, <1>7, <1>8, <1>9, TypeFrame DEF portVars, TypeOK
<1>11. PcOK'
  BY <1>1, <1>9 DEF PcOK
<1> QED BY <1>7, <1>9, <1>10, <1>11, QuietStep

\* The same for the handlers of reserved ports.
LEMMA PortTypeFrame ==
  ASSUME TypeOK, Quiet, WireInv(wire'),
         UNCHANGED <<pending_messages, pc, sent, got>>,
         rejects' \subseteq Nodes \X Channel,
         reserved' \subseteq Tokens, port_peer' \in [Tokens -> Nodes \cup {NoNode}],
         requests' \subseteq Children, connections' \subseteq Children,
         local_port' \in [Children -> {"uninitialized", "initialized", "closed"}]
  PROVE  TypeOK'
<1>1. wire' \in [Channel -> [Nodes -> Seq(Message)]]
  BY DEF WireInv, WireType
<1> QED BY <1>1 DEF TypeOK, Quiet

\* What is left to show of a step that only concerns ports.
LEMMA PortStep ==
  ASSUME IInv, Quiet, WireInv(wire'), TypeOK', Taker', UNCHANGED pc
  PROVE  IInv'
<1>1. PcOK'
  BY DEF IInv, PcOK
<1> QED BY <1>1, QuietWire, QuietStatic DEF IInv

\* The types of what such a step changes.
LEMMA PortTypes ==
  ASSUME TypeOK
  PROVE  /\ reserved \subseteq Tokens
         /\ port_peer \in [Tokens -> Nodes \cup {NoNode}]
         /\ requests \subseteq Children /\ connections \subseteq Children
         /\ local_port \in [Children -> {"uninitialized", "initialized", "closed"}]
         /\ rejects \subseteq Nodes \X Channel
<1> QED BY DEF TypeOK

\* ReservePort: a new reserved port has no peer.
LEMMA ReservePortStep ==
  ASSUME IInv, NEW t \in Tokens, ReservePort(t)
  PROVE  IInv'
<1>1. TypeOK /\ Taker /\ WireInv(wire)
  BY DEF IInv
<1>2. /\ Quiet /\ UNCHANGED <<pending_messages, pc, sent, got, rejects, wire,
                    port_peer, requests, connections, local_port>>
  BY DEF ReservePort, Quiet, peerVars, channelVars, joinVars, lossVars, userVars
<1>3. reserved' = reserved \cup {t} /\ port_peer[t] = NoNode
  BY DEF ReservePort
<1>4. TypeOK'
  BY <1>1, <1>2, <1>3, PortTypes, PortTypeFrame
<1>5. Taker'
  BY <1>1, <1>2, <1>3 DEF Taker, Granted, Took
<1> QED BY <1>1, <1>2, <1>4, <1>5, PortStep

\* ConnectReservedPorts joins two ports at the parent: neither is reserved any
\* longer, and no child is their peer.
LEMMA ConnectReservedPortsStep ==
  ASSUME IInv, NEW t1 \in Tokens, NEW t2 \in Tokens, ConnectReservedPorts(t1, t2)
  PROVE  IInv'
<1>1. TypeOK /\ Taker /\ WireInv(wire)
  BY DEF IInv
<1>2. /\ Quiet /\ UNCHANGED <<pending_messages, pc, sent, got, rejects, wire,
                    requests, connections, local_port>>
  BY DEF ConnectReservedPorts, Quiet, peerVars, channelVars, joinVars, lossVars,
         userVars
<1>3. /\ t1 \in reserved /\ t2 \in reserved
      /\ reserved' = reserved \ {t1, t2}
      /\ port_peer' = [port_peer EXCEPT ![t1] = Parent, ![t2] = Parent]
  BY DEF ConnectReservedPorts, Unreserved
<1>4. port_peer' \in [Tokens -> Nodes \cup {NoNode}]
  BY <1>1, <1>3, NoNodeIs, PortTypes
<1>5. TypeOK'
  BY <1>1, <1>2, <1>3, <1>4, PortTypes, PortTypeFrame
<1>6. /\ port_peer[t1] = NoNode /\ port_peer[t2] = NoNode
      /\ \A t \in reserved' : port_peer'[t] = NoNode
  BY <1>1, <1>3, PortTypes DEF Taker
<1>7. ASSUME NEW c \in Children, Took(c) PROVE Took(c)'
  <2>1. c # NoNode
    BY NoNodeIs, BootChannel
  <2>2. Wants[c] # t1 /\ Wants[c] # t2
    BY <1>6, <1>7, <2>1 DEF Took
  <2> QED BY <1>1, <1>3, <1>7, <2>2, PortTypes DEF Took
<1>8. Taker'
  BY <1>1, <1>2, <1>6, <1>7 DEF Taker, Granted
<1> QED BY <1>1, <1>2, <1>5, <1>8, PortStep

\* ConnectToParentPort: the request waits or is written.
LEMMA ConnectToParentPortStep ==
  ASSUME IInv, NEW c \in Children, ConnectToParentPort(c)
  PROVE  IInv'
<1> DEFINE ch == GetParentChannel(c)
<1>1. TypeOK /\ Static /\ Taker /\ WireInv(wire) /\ c \in Nodes
  BY BootChannel DEF IInv
<1>2. /\ Quiet /\ UNCHANGED <<pending_messages, pc, sent, got, reserved,
                    port_peer, local_port>>
  BY DEF ConnectToParentPort, Quiet, peerVars, joinVars, lossVars, userVars
<1>3. Wants[c] \in Tokens
  BY WantsAssumption DEF ConnectToParentPort
<1>4. requests' \cup connections' \subseteq requests \cup connections \cup {c}
  BY DEF ConnectToParentPort
<1>5. /\ WireInv(wire') /\ NoGrants(wire, wire')
      /\ rejects' \subseteq Nodes \X Channel
  <2>1. CASE ch = NoChannel
    <3>1. wire' = wire /\ rejects' = rejects
      BY <2>1 DEF ConnectToParentPort
    <3> QED BY <1>1, <3>1, NoGrantsSame, PortTypes
  <2>2. CASE ch # NoChannel
    <3>1. parent_name[c] = Parent /\ ch = Boot(c) /\ Boot(c) \in Channel
      BY <1>1, <2>2, ToTheParent, BootChannel
    <3>2. /\ wire' = Write(wire, Boot(c), c, <<RequestPortConnection(Wants[c])>>)
          /\ rejects' = rejects \cup Rejected(Boot(c), c)
      BY <2>2, <3>1 DEF ConnectToParentPort
    <3>3. RequestPortConnection(Wants[c]) \in ToParent(c)
      BY <1>3 DEF ToParent
    <3>4. <<RequestPortConnection(Wants[c])>> \in Seq(ToParent(c))
      BY <3>3, SeqOne
    <3>5. WireInv(wire')
      BY <1>1, <3>1, <3>2, <3>4, WriteUp
    <3>6. ConnectToPort \notin ToParent(c)
      BY ToParentCases
    <3>7. NoGrants(wire, wire')
      BY <1>1, <3>1, <3>2, <3>4, <3>6, WriteNoGrants DEF WireInv
    <3> QED BY <1>1, <3>1, <3>2, <3>5, <3>7, RejectedType, PortTypes
  <2> QED BY <2>1, <2>2
<1>6. TypeOK'
  <2>1. requests' \subseteq Children /\ connections' \subseteq Children
    BY <1>1, <1>4, PortTypes
  <2> QED BY <1>1, <1>2, <1>5, <2>1, PortTypes, PortTypeFrame
<1>7. Taker'
  BY <1>1, <1>2, <1>3, <1>4, <1>5 DEF Taker, Granted, Took, NoGrants
<1> QED BY <1>1, <1>2, <1>5, <1>6, <1>7, PortStep

\* The user closes the local port.
LEMMA ClosePortStep ==
  ASSUME IInv, NEW c \in Children, ClosePort(c)
  PROVE  IInv'
<1>1. TypeOK /\ Taker /\ WireInv(wire)
  BY DEF IInv
<1>2. /\ Quiet /\ UNCHANGED <<pending_messages, pc, sent, got, reserved, wire,
                    rejects, port_peer, requests, connections>>
  BY DEF ClosePort, Quiet, peerVars, channelVars, joinVars, lossVars, userVars
<1>3. local_port' = [local_port EXCEPT ![c] = "closed"]
  BY DEF ClosePort
<1>4. /\ local_port' \in [Children -> {"uninitialized", "initialized", "closed"}]
      /\ \A d \in Children :
           local_port'[d] = "initialized" => local_port[d] = "initialized"
  BY <1>1, <1>3, PortTypes
<1>5. TypeOK'
  BY <1>1, <1>2, <1>4, PortTypes, PortTypeFrame
<1>6. Taker'
  BY <1>1, <1>2, <1>4 DEF Taker, Granted, Took
<1> QED BY <1>1, <1>2, <1>5, <1>6, PortStep

\* OnConnectToPort: who is told to connect is the peer of the port.
LEMMA OnConnectToPortStep ==
  ASSUME IInv, NEW c \in Children, OnConnectToPort(c)
  PROVE  IInv'
<1>1. /\ TypeOK /\ Taker /\ WireInv(wire) /\ WireType(wire)
      /\ c \in Nodes /\ Boot(c) \in Channel
  BY BootChannel DEF IInv, WireInv
<1>2. /\ Quiet /\ UNCHANGED <<pending_messages, pc, sent, got, reserved,
                    rejects, port_peer, requests>>
  BY DEF OnConnectToPort, Quiet, peerVars, joinVars, lossVars, userVars
<1>3. /\ wire[Boot(c)][c] # <<>>
      /\ Head(wire[Boot(c)][c]).type = "ConnectToPort"
      /\ wire' = TakenFrom(wire, c, Boot(c))
  BY DEF OnConnectToPort, Arrived, Taken, TakenFrom
<1>4. WireInv(wire') /\ NoGrants(wire, wire')
  <2>1. ~ Handed(Head(wire[Boot(c)][c]))
    BY <1>3 DEF Handed
  <2> QED BY <1>1, <1>3, <2>1, TakeStep, TakenNoGrants
<1>5. Took(c)
  <2>1. Head(wire[Boot(c)][c]) \in ToChild(c) \cup {AcceptChild}
    BY <1>1, <1>3, ArrivedHead, CarriesBoot
  <2>2. Head(wire[Boot(c)][c]) = ConnectToPort
    <3>1. Head(wire[Boot(c)][c]) \in ToChild(c)
      BY <1>3, <2>1, MessageTypes
    <3>2. \A m \in ToChild(c) : m.type = "ConnectToPort" => m = ConnectToPort
      BY MessageTypes DEF ToChild
    <3> QED BY <1>3, <3>1, <3>2
  <2>3. wire[Boot(c)][c] \in Seq(Message)
    BY <1>1 DEF WireType
  <2>4. Has(wire[Boot(c)][c], ConnectToPort)
    BY <1>3, <2>2, <2>3, HasHead
  <2> QED BY <1>1, <2>4 DEF Taker, Granted
<1>6. /\ local_port' \in [Children -> {"uninitialized", "initialized", "closed"}]
      /\ \A d \in Children :
           local_port'[d] = "initialized" => local_port[d] = "initialized" \/ d = c
      /\ connections' \subseteq connections
  BY <1>1, PortTypes DEF OnConnectToPort
<1>7. TypeOK'
  <2>1. connections' \subseteq Children
    BY <1>1, <1>6, PortTypes
  <2> QED BY <1>1, <1>2, <1>4, <1>6, <2>1, PortTypes, PortTypeFrame
<1>8. Taker'
  BY <1>1, <1>2, <1>4, <1>5, <1>6 DEF Taker, Granted, Took, NoGrants
<1> QED BY <1>1, <1>2, <1>4, <1>7, <1>8, PortStep

\* OnRequestPortConnection: the token is taken with the port, so that it is
\* granted once.
LEMMA OnRequestPortConnectionStep ==
  ASSUME IInv, NEW c \in Children, OnRequestPortConnection(c)
  PROVE  IInv'
<1> DEFINE t == Head(wire[Boot(c)][Parent]).token
           taken == TakenFrom(wire, Parent, Boot(c))
           peer == peers[Parent][c]
<1>1. /\ TypeOK /\ Taker /\ WireInv(wire) /\ WireType(wire)
      /\ c \in Nodes /\ Parent \in Nodes /\ Boot(c) \in Channel
  BY BootChannel DEF IInv, WireInv
<1>2. /\ Quiet /\ UNCHANGED <<pending_messages, pc, sent, got, requests,
                    connections, local_port>>
  BY DEF OnRequestPortConnection, Quiet, peerVars, joinVars, lossVars, userVars
<1>3. /\ wire[Boot(c)][Parent] # <<>>
      /\ Head(wire[Boot(c)][Parent]).type = "RequestPortConnection"
      /\ reserved' = reserved \ {t}
  BY DEF OnRequestPortConnection, Arrived, Unreserved
<1>4. t \in Tokens /\ t = Wants[c]
  <2>1. Head(wire[Boot(c)][Parent]) \in ToParent(c) \cup {AcceptParent}
    BY <1>1, <1>3, ArrivedHead, CarriesBoot
  <2>2. Head(wire[Boot(c)][Parent]) \in ToParent(c)
    BY <1>3, <2>1, MessageTypes
  <2> QED BY <1>3, <2>2, ToParentCases
<1>5. WireInv(taken) /\ NoGrants(wire, taken) /\ WireType(taken)
  <2>1. ~ Handed(Head(wire[Boot(c)][Parent]))
    BY <1>3 DEF Handed
  <2>2. WireInv(taken)
    BY <1>1, <1>3, <2>1, TakeStep
  <2> QED BY <1>1, <1>3, <2>2, TakenNoGrants DEF WireInv
<1>6. CASE t \in reserved /\ peer # NoChannel
  <2>1. /\ peer = GetPeerChannel(Parent, c) /\ peer = Boot(c)
        /\ taken = Taken(Parent, Boot(c))
    BY <1>1, <1>6, NoNodeIs, PeerChannel DEF GetPeerChannel, Taken, TakenFrom
  <2>2. /\ port_peer' = [port_peer EXCEPT ![t] = c]
        /\ wire' = Write(taken, Boot(c), Parent, <<ConnectToPort>>)
        /\ rejects' = rejects \cup Rejected(Boot(c), Parent)
    BY <1>6, <2>1 DEF OnRequestPortConnection
  <2>3. <<ConnectToPort>> \in Seq(Plain(c))
    <3>1. ConnectToPort \in Plain(c)
      BY MessageTypes DEF Plain, ToChild, Handed
    <3> QED BY <3>1, SeqOne
  <2>4. WireInv(wire')
    BY <1>5, <1>6, <2>2, <2>3, WriteDown
  <2>5. /\ rejects' \subseteq Nodes \X Channel
        /\ port_peer' \in [Tokens -> Nodes \cup {NoNode}]
        /\ reserved' \subseteq Tokens
    BY <1>1, <1>3, <1>4, <2>2, RejectedType, PortTypes
  <2>6. TypeOK'
    BY <1>1, <1>2, <2>4, <2>5, PortTypes, PortTypeFrame
  <2>7. port_peer[t] = NoNode /\ NoNode \notin Children
    BY <1>1, <1>6, NoNodeIs, BootChannel DEF Taker
  <2>8. ASSUME NEW d \in Children, Took(d) PROVE Took(d)'
    <3>1. Wants[d] # t
      BY <2>7, <2>8 DEF Took
    <3> QED BY <1>1, <2>2, <2>8, <3>1, PortTypes DEF Took
  <2>9. Took(c)'
    BY <1>1, <1>4, <2>2, PortTypes DEF Took
  <2>10. ASSUME NEW ch \in Channel, NEW d \in Children, d # c,
                Has(wire'[ch][d], ConnectToPort)
         PROVE  Has(wire[ch][d], ConnectToPort)
    <3>1. d \in Nodes /\ Far(Boot(c), Parent) = c
      BY BootChannel, BootFar
    <3>2. wire'[ch][d] = taken[ch][d]
      BY <1>1, <1>5, <2>2, <2>10, <3>1, WriteAt
    <3> QED BY <1>5, <2>10, <3>2 DEF NoGrants
  <2>11. Granted(wire)'
    BY <1>1, <2>8, <2>9, <2>10 DEF Taker, Granted
  <2>12. \A d \in Children : local_port'[d] = "initialized" => Took(d)'
    BY <1>1, <1>2, <2>8 DEF Taker
  <2>13. \A u \in reserved' : port_peer'[u] = NoNode
    BY <1>1, <1>3, <2>2, PortTypes DEF Taker
  <2>14. Taker'
    BY <1>1, <1>2, <2>11, <2>12, <2>13 DEF Taker
  <2> QED BY <1>1, <1>2, <2>4, <2>6, <2>14, PortStep
<1>7. CASE ~ (t \in reserved /\ peer # NoChannel)
  <2>1. peer = GetPeerChannel(Parent, c) /\ taken = Taken(Parent, Boot(c))
    BY <1>1, NoNodeIs DEF GetPeerChannel, Taken, TakenFrom
  <2>2. wire' = taken /\ UNCHANGED <<port_peer, rejects>>
    BY <1>7, <2>1 DEF OnRequestPortConnection
  <2>3. TypeOK'
    <3>1. reserved' \subseteq Tokens
      BY <1>1, <1>3, PortTypes
    <3> QED BY <1>1, <1>2, <1>5, <2>2, <3>1, PortTypes, PortTypeFrame
  <2>4. Taker'
    BY <1>1, <1>2, <1>3, <1>5, <2>2 DEF Taker, Granted, Took, NoGrants
  <2> QED BY <1>1, <1>2, <1>5, <2>2, <2>3, <2>4, PortStep
<1> QED BY <1>6, <1>7
-----------------------------------------------------------------------------
(* Handlers that change peers or channels: what they leave alone.          *)

\* Numbering survives a step that makes no channel and adds no end.
LEMMA OrderedFrame ==
  ASSUME WireType(wire), WireType(wire'), Ordered(wire), pairs' = pairs,
         \A x, y \in Children : peers'[x][y] \in {peers[x][y], NoChannel},
         \A c \in Children : \/ SameHandles(Inbox(c, wire), Inbox(c, wire'))
                             \/ Inbox(c, wire') = <<>>
  PROVE  Ordered(wire)'
<1>1. ASSUME NEW c \in Children
      PROVE  Inbox(c, wire) \in Seq(Message) /\ Inbox(c, wire') \in Seq(Message)
  BY BoxTypes
<1>2. ASSUME NEW c \in Children, NEW i \in DOMAIN Inbox(c, wire'),
             Handed(Inbox(c, wire')[i])
      PROVE  Inbox(c, wire')[i].handle[3] <= pairs'
  <2>1. SameHandles(Inbox(c, wire), Inbox(c, wire'))
    BY <1>2
  <2>2. PICK k \in DOMAIN Inbox(c, wire) : Inbox(c, wire)[k] = Inbox(c, wire')[i]
    BY <1>2, <2>1 DEF SameHandles, Shifted
  <2> QED BY <1>2, <2>2 DEF Ordered
<1>3. ASSUME NEW c \in Children, NEW i \in DOMAIN Inbox(c, wire'),
             NEW j \in DOMAIN Inbox(c, wire'), i < j,
             Handed(Inbox(c, wire')[i]), Handed(Inbox(c, wire')[j])
      PROVE  Inbox(c, wire')[i].handle[3] < Inbox(c, wire')[j].handle[3]
  <2>1. SameHandles(Inbox(c, wire), Inbox(c, wire'))
    BY <1>3
  <2>2. PICK k, l \in DOMAIN Inbox(c, wire) :
          k < l /\ Inbox(c, wire)[k] = Inbox(c, wire')[i]
            /\ Inbox(c, wire)[l] = Inbox(c, wire')[j]
    BY <1>1, <1>3, <2>1, SameOrder
  <2> QED BY <1>3, <2>2 DEF Ordered
<1>4. ASSUME NEW x \in Children, NEW y \in Children, peers'[x][y] # NoChannel,
             NEW h \in Pair, Has(Inbox(x, wire'), Introduce(y, h))
      PROVE  peers'[x][y][3] < h[3]
  <2>1. SameHandles(Inbox(x, wire), Inbox(x, wire'))
    BY <1>4 DEF Has
  <2>2. Has(Inbox(x, wire), Introduce(y, h))
    BY <1>4, <2>1, SameHas, PairChannel
  <2> QED BY <1>4, <2>2 DEF Ordered
<1>5. \A c : Inbox(c, wire)' = Inbox(c, wire')
  BY DEF Inbox
<1> QED BY <1>2, <1>3, <1>4, <1>5 DEF Ordered

\* So does agreement, if those still attached keep what they know and nothing new
\* is closed between them.
LEMMA AgreeFrame ==
  ASSUME Agree(wire),
         \A x \in Children : Attached(x)' =>
           Attached(x) /\ SameHandles(Inbox(x, wire), Inbox(x, wire')),
         \A x, y \in Children : Attached(x)' /\ Attached(y)' /\ x # y =>
           /\ peers'[x][y] = peers[x][y]
           /\ down' \cap Between(x, y) \subseteq down
  PROVE  Agree(wire)'
<1> SUFFICES ASSUME NEW x \in Children, NEW y \in Children, x # y,
                    Attached(x)', Attached(y)'
             PROVE  Agreed(x, y, wire)'
  BY DEF Agree
<1>1. Agreed(x, y, wire)
  BY DEF Agree
<1>2. SameHandles(Inbox(x, wire), Inbox(x, wire'))
      /\ SameHandles(Inbox(y, wire), Inbox(y, wire'))
  OBVIOUS
<1>3. ASSUME NEW h \in Pair
      PROVE  /\ Knows(x, y, h, wire)' <=> Knows(x, y, h, wire)
             /\ Knows(y, x, h, wire)' <=> Knows(y, x, h, wire)
  <2>1. /\ Has(Inbox(x, wire'), Introduce(y, h)) <=>
             Has(Inbox(x, wire), Introduce(y, h))
        /\ Has(Inbox(y, wire'), Introduce(x, h)) <=>
             Has(Inbox(y, wire), Introduce(x, h))
    BY <1>2, SameHas, PairChannel
  <2>2. \A c : Inbox(c, wire)' = Inbox(c, wire')
    BY DEF Inbox
  <2> QED BY <2>1, <2>2 DEF Knows
<1>4. \A h \in Pair : Common(x, y, h, wire)' <=> Common(x, y, h, wire)
  BY <1>3 DEF Common
<1>5. \A h \in down' \cap Between(x, y) : h \in down \cap Between(x, y)
  OBVIOUS
<1> QED BY <1>1, <1>3, <1>4, <1>5 DEF Agreed

\* A child whose state of joining a step leaves alone.
LEMMA JoiningFrame ==
  ASSUME NEW c \in Children,
         Offered(c, wire) \/ Answered(c, wire) \/ Accepted(c, wire),
         parent_name'[c] = parent_name[c],
         peers'[Parent][c] = peers[Parent][c],
         Boot(c) \in reads'[Parent] <=> Boot(c) \in reads[Parent],
         c \in pending_children' <=> c \in pending_children,
         wire'[Boot(c)][c] = wire[Boot(c)][c],
         wire'[Boot(c)][Parent] = wire[Boot(c)][Parent]
  PROVE  (Offered(c, wire) \/ Answered(c, wire) \/ Accepted(c, wire))'
<1> QED BY DEF Offered, Answered, Accepted, Inbox, Outbox

\* What AddPeer flushes is user messages.
LEMMA FlushedType ==
  ASSUME TypeOK, NEW n \in Nodes, NEW m \in Nodes
  PROVE  Flushed(n, m) \in Seq(PortsMessages)
<1> DEFINE s == pending_messages[n][m]
<1>1. s \in Seq(Nat)
  BY DEF TypeOK
<1>2. \A i \in 1 .. Len(s) : PortsMessage(s[i]) \in PortsMessages
  BY <1>1, PortsMessageType
<1>3. Flushed(n, m) = [i \in 1 .. Len(s) |-> PortsMessage(s[i])]
  BY <1>1 DEF Flushed
<1>4. Len(s) \in Nat
  BY <1>1
<1> HIDE DEF s
<1> QED BY <1>2, <1>3, <1>4

\* The types of what a step of a peer changes.
LEMMA TypeParts ==
  ASSUME TypeOK
  PROVE  /\ peers \in [Nodes -> [Nodes -> Channel \cup {NoChannel}]]
         /\ pending_messages \in [Nodes -> [Nodes -> Seq(Nat)]]
         /\ pending_children \subseteq Children /\ bootstrap \subseteq Children
         /\ parent_name \in [Children -> {Parent, NoNode}]
         /\ reads \in [Nodes -> SUBSET Channel]
         /\ down \subseteq Channel /\ rejects \subseteq Nodes \X Channel
         /\ pairs \in Nat /\ pairs <= MaxPairs
         /\ crashed \subseteq Nodes
         /\ lost \in [Nodes -> SUBSET (Nodes \cup {NoNode})]
<1> QED BY BoundsAssumption DEF TypeOK

\* The types of a handler of the handshake or of an introduction.
LEMMA PeerTypeFrame ==
  ASSUME TypeOK, WireType(wire'),
         peers' \in [Nodes -> [Nodes -> Channel \cup {NoChannel}]],
         \A n, m \in Nodes :
           peers'[n][m] # NoChannel => Links(peers'[n][m], n, m),
         pending_messages' \in [Nodes -> [Nodes -> Seq(Nat)]],
         pending_children' \subseteq Children, bootstrap' \subseteq Children,
         parent_name' \in [Children -> {Parent, NoNode}],
         reads' \in [Nodes -> SUBSET Channel], down' \subseteq Channel,
         rejects' \subseteq Nodes \X Channel, pairs' \in 0 .. MaxPairs,
         crashed' \subseteq Nodes \cap Mortal,
         lost' \in [Nodes -> SUBSET (Nodes \cup {NoNode})],
         requests' \subseteq Children, connections' \subseteq Children,
         pc' \in [Nodes -> [at : {"idle", "queue", "ask"},
                            to : Nodes \cup {NoNode}]],
         UNCHANGED <<reserved, port_peer, local_port, sent, got>>
  PROVE  TypeOK'
<1>1. wire' \in [Channel -> [Nodes -> Seq(Message)]]
  BY DEF WireType
<1> QED BY <1>1 DEF TypeOK

\* ConnectToChild offers the new child its parent.
LEMMA ConnectToChildStep ==
  ASSUME IInv, NEW c \in Children, ConnectToChild(c)
  PROVE  IInv'
<1>1. /\ TypeOK /\ Static /\ PcOK /\ Taker /\ WireInv(wire) /\ WireType(wire)
      /\ c \in Nodes /\ Parent \in Nodes /\ Boot(c) \in Channel /\ c # Parent
      /\ Far(Boot(c), Parent) = c
  BY BootChannel, BootFar DEF IInv, WireInv
<1>2. /\ reads' = [reads EXCEPT ![Parent] = @ \cup {Boot(c)}]
      /\ wire' = Write(wire, Boot(c), Parent, <<AcceptChild>>)
      /\ rejects' = rejects \cup Rejected(Boot(c), Parent)
      /\ pending_children' = pending_children \cup {c}
      /\ Boot(c) \notin reads[Parent] /\ Parent \notin crashed
      /\ UNCHANGED <<peers, pending_messages, down, bootstrap, parent_name, pairs,
                     got, pc, sent, crashed, lost, portVars>>
  BY DEF ConnectToChild, peerVars, lossVars, userVars, portVars, Live
<1>3. WireType(wire')
  <2>1. <<AcceptChild>> \in Seq(Carries(Boot(c), c))
    BY CarriesBoot, SeqOne
  <2> QED BY <1>1, <1>2, <2>1, WriteType
<1>4. TypeOK'
  <2>1. rejects' \subseteq Nodes \X Channel
    BY <1>1, <1>2, RejectedType, TypeParts
  <2>2. reads' \in [Nodes -> SUBSET Channel]
    BY <1>1, <1>2, TypeParts
  <2> QED BY <1>1, <1>2, <1>3, <2>1, <2>2, PeerTypeFrame DEF TypeOK, portVars
<1>5. PcOK'
  BY <1>1, <1>2 DEF PcOK
<1>6. NoGrants(wire, wire')
  <2>1. ConnectToPort \notin {AcceptChild}
    BY MessageTypes
  <2>2. <<AcceptChild>> \in Seq({AcceptChild})
    OBVIOUS
  <2> QED BY <1>1, <1>2, <2>1, <2>2, WriteNoGrants
<1>7. Taker'
  BY <1>1, <1>2, <1>6, TakerFrame
<1>8. \A x : Attached(x)' <=> Attached(x)
  BY <1>2 DEF Attached
<1>9. Static'
  <2>1. Losses'
    BY <1>1, <1>2 DEF Static, Losses
  <2>2. \A n \in Nodes : n # Parent => reads'[n] = reads[n]
    BY <1>1, <1>2, TypeParts
  <2>3. Joins'
    <3>1. \A d \in Children : reads'[d] = reads[d]
      BY <2>2, BootChannel
    <3> QED BY <1>1, <1>2, <3>1 DEF Static, Joins
  <2>4. \A n \in Nodes : \A ch \in reads'[n] :
          ch \in reads[n] \/ (ch = Boot(c) /\ n = Parent)
    BY <1>1, <1>2, TypeParts
  <2>5. Boot(c)[3] <= pairs /\ Parent \in {Boot(c)[1], Boot(c)[2]}
    BY <1>1, BootChannel, TypeParts
  <2>6. Made'
    <3>1. \A n \in Nodes : \A ch \in reads'[n] :
            ch[3] <= pairs' /\ n \in {ch[1], ch[2]}
      BY <1>1, <1>2, <2>4, <2>5 DEF Static, Made
    <3>2. \A x \in Children : reads'[x] = reads[x]
      BY <2>2, BootChannel
    <3> QED BY <1>1, <1>2, <1>8, <3>1, <3>2 DEF Static, Made
  <2> QED BY <2>1, <2>3, <2>6 DEF Static
<1>10. ASSUME NEW d \in Children
       PROVE  /\ Outbox(d, wire') = Outbox(d, wire)
              /\ d # c => Inbox(d, wire') = Inbox(d, wire)
              /\ Boot(c) \notin down =>
                   Inbox(c, wire') = Inbox(c, wire) \o <<AcceptChild>>
  <2>1. Outbox(d, wire') =
          IF Boot(c) = Boot(d) /\ c = Parent /\ Boot(c) \notin down
          THEN Outbox(d, wire) \o <<AcceptChild>> ELSE Outbox(d, wire)
    BY <1>1, <1>2, WriteBoxes
  <2>2. Inbox(d, wire') =
          IF Boot(c) = Boot(d) /\ c = d /\ Boot(c) \notin down
          THEN Inbox(d, wire) \o <<AcceptChild>> ELSE Inbox(d, wire)
    BY <1>1, <1>2, WriteBoxes
  <2>3. Inbox(c, wire') =
          IF Boot(c) = Boot(c) /\ c = c /\ Boot(c) \notin down
          THEN Inbox(c, wire) \o <<AcceptChild>> ELSE Inbox(c, wire)
    BY <1>1, <1>2, WriteBoxes
  <2> QED BY <1>1, <2>1, <2>2, <2>3
<1>11. ASSUME NEW d \in Children
       PROVE  SameHandles(Inbox(d, wire), Inbox(d, wire'))
  <2>1. Inbox(d, wire) \in Seq(Message)
    BY <1>1, BoxTypes
  <2>2. SameHandles(Inbox(d, wire), Inbox(d, wire))
    BY <2>1, SameSame
  <2>3. SameHandles(Inbox(d, wire), Inbox(d, wire) \o <<AcceptChild>>)
    <3> DEFINE T == {AcceptChild}
    <3>1. <<AcceptChild>> \in Seq(T)
      OBVIOUS
    <3>2. \A m \in T : ~ Handed(m)
      BY MessageTypes DEF Handed
    <3> HIDE DEF T
    <3> QED BY <2>1, <3>1, <3>2, SameCat
  <2>4. \/ Inbox(d, wire') = Inbox(d, wire)
        \/ Inbox(d, wire') = Inbox(d, wire) \o <<AcceptChild>>
    BY <1>1, <1>2, WriteBoxes
  <2> QED BY <2>2, <2>3, <2>4
<1>12. Ordered(wire)'
  BY <1>1, <1>2, <1>3, <1>11, OrderedFrame DEF WireInv
<1>13. Agree(wire)'
  BY <1>1, <1>2, <1>8, <1>11, AgreeFrame DEF WireInv
<1>14. ASSUME NEW d \in Children \ crashed
       PROVE  (Offered(d, wire) \/ Answered(d, wire) \/ Accepted(d, wire))'
  <2>1. Offered(d, wire) \/ Answered(d, wire) \/ Accepted(d, wire)
    BY <1>1, <1>2 DEF WireInv, Joining
  <2>2. CASE d # c
    <3>1. Boot(d) # Boot(c)
      BY <2>2, BootIs
    <3>2. Boot(d) \in reads'[Parent] <=> Boot(d) \in reads[Parent]
      BY <1>1, <1>2, <3>1, TypeParts
    <3>3. /\ wire'[Boot(d)][d] = wire[Boot(d)][d]
          /\ wire'[Boot(d)][Parent] = wire[Boot(d)][Parent]
      BY <1>10, <2>2 DEF Inbox, Outbox
    <3> QED BY <1>2, <2>1, <2>2, <3>2, <3>3, JoiningFrame
  <2>3. CASE d = c
    <3>1. Offered(c, wire) /\ Inbox(c, wire) = <<>>
      BY <1>2, <2>1, <2>3 DEF Offered, Answered, Accepted
    <3>2. Boot(c) \notin down
      BY <1>1, <1>2, <1>14, <2>3 DEF Static, Losses
    <3>3. Inbox(c, wire') = <<>> \o <<AcceptChild>>
      BY <1>10, <3>1, <3>2
    <3>4. Inbox(c, wire') = <<AcceptChild>>
      BY <3>3
    <3>5. Outbox(c, wire') = <<>>
      BY <1>10, <3>1 DEF Offered
    <3>6. Boot(c) \in reads'[Parent]
      BY <1>1, <1>2, TypeParts
    <3>7. Offered(c, wire)'
      BY <1>2, <3>1, <3>4, <3>5, <3>6 DEF Offered, Inbox, Outbox
    <3> QED BY <2>3, <3>7
  <2> QED BY <2>2, <2>3
<1>15. Joining(wire)'
  BY <1>2, <1>14 DEF Joining
<1>16. WireInv(wire)'
  BY <1>3, <1>12, <1>13, <1>15 DEF WireInv, WireType
<1> QED BY <1>4, <1>5, <1>7, <1>9, <1>16 DEF IInv

\* ConnectToParent starts to read the channel of the launch.
LEMMA ConnectToParentStep ==
  ASSUME IInv, NEW c \in Children, ConnectToParent(c)
  PROVE  IInv'
<1>1. /\ TypeOK /\ Static /\ PcOK /\ Taker /\ WireInv(wire) /\ WireType(wire)
      /\ c \in Nodes /\ Parent \in Nodes /\ Boot(c) \in Channel /\ c # Parent
  BY BootChannel DEF IInv, WireInv
<1>2. /\ reads' = [reads EXCEPT ![c] = @ \cup {Boot(c)}]
      /\ bootstrap' = bootstrap \cup {c}
      /\ UNCHANGED <<wire, rejects, pending_children, peers, pending_messages,
                     down, parent_name, pairs, got, pc, sent, crashed, lost,
                     portVars>>
  BY DEF ConnectToParent, peerVars, lossVars, userVars, portVars
<1>3. /\ reads'[Parent] = reads[Parent]
      /\ reads' \in [Nodes -> SUBSET Channel]
      /\ \A n \in Nodes : \A ch \in reads'[n] :
          ch \in reads[n] \/ (ch = Boot(c) /\ n = c)
  BY <1>1, <1>2, TypeParts
<1>4. TypeOK'
  BY <1>1, <1>2, <1>3, PeerTypeFrame DEF TypeOK, portVars
<1>5. PcOK'
  BY <1>1, <1>2 DEF PcOK
<1>6. Taker'
  BY <1>1, <1>2, NoGrantsSame, TakerFrame
<1>7. \A x : Attached(x)' <=> Attached(x)
  BY <1>2 DEF Attached
<1>8. Static'
  <2>1. Losses'
    BY <1>1, <1>2 DEF Static, Losses
  <2>2. Joins'
    <3>1. ASSUME NEW d \in Children, Boot(d) \in reads'[d]
          PROVE  d \in bootstrap' \/ parent_name'[d] = Parent
      <4>1. d \in Nodes
        BY BootChannel
      <4> QED BY <1>1, <1>2, <1>3, <3>1, <4>1 DEF Static, Joins
    <3> QED BY <1>1, <1>2, <3>1 DEF Static, Joins
  <2>3. Boot(c)[3] <= pairs /\ c \in {Boot(c)[1], Boot(c)[2]} /\ Boot(c) \notin Pair
    BY <1>1, BootChannel, TypeParts
  <2>4. Made'
    <3>1. \A n \in Nodes : \A ch \in reads'[n] :
            ch[3] <= pairs' /\ n \in {ch[1], ch[2]}
      BY <1>1, <1>2, <1>3, <2>3 DEF Static, Made
    <3>2. \A x, y \in Children :
            reads'[x] \cap Between(x, y) \subseteq reads[x] \cap Between(x, y)
      BY <1>3, <2>3, BootChannel DEF Between
    <3> QED BY <1>1, <1>2, <1>7, <3>1, <3>2 DEF Static, Made
  <2> QED BY <2>1, <2>2, <2>4 DEF Static
<1>9. ASSUME NEW d \in Children
      PROVE  SameHandles(Inbox(d, wire), Inbox(d, wire'))
  BY <1>1, <1>2, BoxTypes, SameSame
<1>10. Ordered(wire)'
  BY <1>1, <1>2, <1>9, OrderedFrame DEF WireInv
<1>11. Agree(wire)'
  BY <1>1, <1>2, <1>7, <1>9, AgreeFrame DEF WireInv
<1>12. ASSUME NEW d \in Children \ crashed, Parent \notin crashed
       PROVE  (Offered(d, wire) \/ Answered(d, wire) \/ Accepted(d, wire))'
  <2>1. Offered(d, wire) \/ Answered(d, wire) \/ Accepted(d, wire)
    BY <1>1, <1>12 DEF WireInv, Joining
  <2> QED BY <1>2, <1>3, <2>1, JoiningFrame
<1>13. Joining(wire)'
  BY <1>2, <1>12 DEF Joining
<1>14. WireInv(wire)'
  BY <1>1, <1>2, <1>10, <1>11, <1>13 DEF WireInv, WireType
<1> QED BY <1>4, <1>5, <1>6, <1>8, <1>14 DEF IInv
-----------------------------------------------------------------------------
(* DropPeer.  It is called for a peer that has given up its parent, or by a *)
(* node that has, or for a parent that is dead.                             *)

\* Who may be dropped by whom.
Blamed(n, name) ==
  \/ n \in Children /\ name \in {Parent, NoNode} /\ Parent \in crashed
  \/ /\ name \in Children /\ name # n
     /\ ~ Attached(name) \/ (n \in Children /\ ~ Attached(n))

\* The channels that go with a peer, and the ends n had not read.
Gone(n, name) == {ch \in reads[n] : RemoteNodeName(n, ch) = name}
Unread(n, name) == UNION {Handles(wire[ch][n]) : ch \in Gone(n, name)}

\* What DropPeer does: the entry goes, the channels of that peer are closed, and
\* with them the ends of channels that were not read from them.
LEMMA DropEffect ==
  ASSUME TypeOK, NEW n \in Nodes, NEW name, DropPeer(n, name)
  PROVE  /\ \A x \in Nodes, y \in Nodes :
              peers'[x][y] = IF x = n /\ y = name THEN NoChannel ELSE peers[x][y]
         /\ peers' \in [Nodes -> [Nodes -> Channel \cup {NoChannel}]]
         /\ pending_messages' \in [Nodes -> [Nodes -> Seq(Nat)]]
         /\ pending_children' =
              pending_children \ (IF n = Parent THEN {name} ELSE {})
         /\ reads' = [reads EXCEPT ![n] = @ \ Gone(n, name)]
         /\ down' = down \cup Gone(n, name) \cup Unread(n, name)
         /\ wire' = [ch \in Channel |-> IF ch \in Gone(n, name)
                       THEN [wire[ch] EXCEPT ![n] = <<>>] ELSE wire[ch]]
         /\ lost' = [lost EXCEPT ![n] = @ \cup {name}]
         /\ UNCHANGED <<rejects, bootstrap, parent_name>>
<1> USE DEF DropPeer
<1>1. /\ peers' = [peers EXCEPT ![n] =
                    [m \in Nodes |-> IF m = name THEN NoChannel ELSE peers[n][m]]]
      /\ pending_messages' = [pending_messages EXCEPT ![n] =
                    [m \in Nodes |-> IF m = name THEN <<>>
                                     ELSE pending_messages[n][m]]]
  OBVIOUS
<1>2. /\ reads' = [reads EXCEPT ![n] = @ \ Gone(n, name)]
      /\ down' = down \cup Gone(n, name) \cup Unread(n, name)
      /\ wire' = [ch \in Channel |-> IF ch \in Gone(n, name)
                       THEN [wire[ch] EXCEPT ![n] = <<>>] ELSE wire[ch]]
  BY DEF Gone, Unread
<1>3. /\ pending_children' =
              pending_children \ (IF n = Parent THEN {name} ELSE {})
      /\ lost' = [lost EXCEPT ![n] = @ \cup {name}]
      /\ UNCHANGED <<rejects, bootstrap, parent_name>>
  OBVIOUS
<1>4. /\ peers \in [Nodes -> [Nodes -> Channel \cup {NoChannel}]]
      /\ pending_messages \in [Nodes -> [Nodes -> Seq(Nat)]]
  BY TypeParts
<1> HIDE DEF DropPeer
<1>5. /\ \A x \in Nodes, y \in Nodes :
              peers'[x][y] = IF x = n /\ y = name THEN NoChannel ELSE peers[x][y]
      /\ peers' \in [Nodes -> [Nodes -> Channel \cup {NoChannel}]]
  BY <1>1, <1>4
<1>6. pending_messages' \in [Nodes -> [Nodes -> Seq(Nat)]]
  <2>1. [m \in Nodes |-> IF m = name THEN <<>> ELSE pending_messages[n][m]]
          \in [Nodes -> Seq(Nat)]
    BY <1>4
  <2> QED BY <1>1, <1>4, <2>1
<1> QED BY <1>2, <1>3, <1>5, <1>6

\* The name a channel is known by is that of the node at its far end, or empty
\* for the parent of a child that does not know it yet.
LEMMA RemoteName ==
  ASSUME TypeOK, Static, NEW n \in Nodes, NEW ch \in reads[n]
  PROVE  /\ ch \in Channel /\ RemoteNodeName(n, ch) \in Nodes \cup {NoNode}
         /\ RemoteNodeName(n, ch) \in Children =>
              Far(ch, n) = RemoteNodeName(n, ch) /\ Links(ch, n, Far(ch, n))
         /\ RemoteNodeName(n, ch) \in {Parent, NoNode} =>
              n \in Children /\ ch = Boot(n) /\ Far(ch, n) = Parent
<1>1. ch \in Channel /\ n \in {ch[1], ch[2]}
  BY TypeParts DEF Static, Made
<1>2. /\ Far(ch, n) \in Nodes /\ Links(ch, n, Far(ch, n))
      /\ n = Parent => Far(ch, n) # Parent
  BY <1>1, FarEnd
<1>3. CASE Far(ch, n) = Parent
  <2>1. n \in Children /\ ch = Boot(n)
    BY <1>1, <1>2, <1>3, ParentChannel
  <2>2. RemoteNodeName(n, ch) = parent_name[n] /\ parent_name[n] \in {Parent, NoNode}
    BY <1>3, <2>1, TypeParts DEF RemoteNodeName
  <2>3. Parent \notin Children /\ NoNode \notin Children
    BY ParentAssumption DEF Nodes
  <2> QED BY <1>1, <1>3, <2>1, <2>2, <2>3, NoNodeIs
<1>4. CASE Far(ch, n) # Parent
  <2>1. RemoteNodeName(n, ch) = Far(ch, n)
    BY <1>4 DEF RemoteNodeName
  <2> QED BY <1>1, <1>2, <1>4, <2>1, NoNodeIs
<1> QED BY <1>3, <1>4

\* Only the channel of a launch carries ends of channels, and they are for the
\* child that reads them.
LEMMA HandlesOf ==
  ASSUME NEW w, WireType(w), NEW ch \in Channel, NEW n \in Nodes,
         NEW h \in Handles(w[ch][n])
  PROVE  /\ h \in Pair /\ h \in Channel /\ n \in {h[1], h[2]}
         /\ n \in Children /\ ch \notin Pair /\ ch = Boot(n)
         /\ \E i \in DOMAIN w[ch][n] : Handed(w[ch][n][i]) /\ h = w[ch][n][i].handle
<1>1. PICK i \in DOMAIN w[ch][n] :
        w[ch][n][i].type = "Introduce" /\ h = w[ch][n][i].handle
  BY DEF Handles
<1>2. h # NoChannel
  BY DEF Handles
<1>3. w[ch][n] \in Seq(Carries(ch, n))
  BY DEF WireType
<1>4. w[ch][n][i] \in Carries(ch, n)
  BY <1>3, SeqIn
<1>5. Handed(w[ch][n][i])
  BY <1>1, <1>2 DEF Handed
<1> QED BY <1>1, <1>4, <1>5, HandedTo, PairChannel

\* What is closed with a peer.
LEMMA DroppedChannels ==
  ASSUME TypeOK, Static, WireInv(wire), NEW n \in Nodes, NEW name,
         Blamed(n, name)
  PROVE  /\ Gone(n, name) \subseteq Channel /\ Unread(n, name) \subseteq Pair
         /\ name \in Children =>
              /\ \A ch \in Gone(n, name) : Links(ch, n, name)
              /\ Unread(n, name) = {}
         /\ name \in {Parent, NoNode} =>
              /\ Gone(n, name) \subseteq {Boot(n)} /\ n \in Children
              /\ \A ch \in Unread(n, name) : n \in {ch[1], ch[2]}
<1>1. WireType(wire)
  BY DEF WireInv
<1>2. \A ch \in Gone(n, name) : ch \in reads[n] /\ RemoteNodeName(n, ch) = name
  BY DEF Gone
<1>3. Gone(n, name) \subseteq Channel
  BY <1>2, TypeParts
<1>4. \A h \in Unread(n, name) : \E ch \in Gone(n, name) : h \in Handles(wire[ch][n])
  BY DEF Unread
<1>5. \A h \in Unread(n, name) : h \in Pair /\ n \in {h[1], h[2]} /\ n \in Children
  BY <1>1, <1>3, <1>4, HandlesOf
<1>6. ASSUME name \in Children
      PROVE  /\ \A ch \in Gone(n, name) : Links(ch, n, name)
             /\ Unread(n, name) = {}
  <2>1. \A ch \in Gone(n, name) : Links(ch, n, name) /\ ch \in Channel
    BY <1>2, <1>6, RemoteName
  <2>2. ASSUME NEW h \in Unread(n, name) PROVE FALSE
    <3>1. PICK ch \in Gone(n, name) : h \in Handles(wire[ch][n])
      BY <1>4
    <3>2. ch \notin Pair /\ n \in Children
      BY <1>1, <1>3, <3>1, HandlesOf
    <3> QED BY <1>6, <2>1, <3>2, ChildChannel
  <2> QED BY <2>1, <2>2
<1>7. ASSUME name \in {Parent, NoNode}
      PROVE  Gone(n, name) \subseteq {Boot(n)} /\ n \in Children
  <2>1. \A ch \in Gone(n, name) : ch = Boot(n)
    BY <1>2, <1>7, RemoteName
  <2>2. n \in Children
    BY <1>7, ParentAssumption DEF Blamed, Nodes
  <2> QED BY <2>1, <2>2
<1> QED BY <1>3, <1>5, <1>6, <1>7

\* While the parent lives no live node has given it up, ...
LEMMA LiveAttached ==
  ASSUME TypeOK, Static, Parent \notin crashed, NEW n \in Nodes, n \notin crashed
  PROVE  Attached(n)
<1>1. lost[n] \subseteq crashed
  BY DEF Static, Losses
<1>2. NoNode \notin crashed
  BY NoNodeIs, TypeParts
<1> QED BY <1>1, <1>2 DEF Attached

\* ... so that only dead children are dropped.
LEMMA BlamedDead ==
  ASSUME TypeOK, Static, Parent \notin crashed, NEW n \in Nodes, n \notin crashed,
         NEW name, Blamed(n, name)
  PROVE  name \in Children /\ name \in crashed /\ name # n
<1>1. Attached(n)
  BY LiveAttached
<1>2. name \in Children /\ name # n /\ ~ Attached(name)
  BY <1>1 DEF Blamed
<1>3. name \in Nodes
  BY <1>2, BootChannel
<1> QED BY <1>2, <1>3, LiveAttached

\* DropPeer keeps the invariant when it is called for one of those.
LEMMA DropStep ==
  ASSUME IInv, NEW n \in Nodes, n \notin crashed, NEW name \in Nodes \cup {NoNode},
         Blamed(n, name), DropPeer(n, name),
         UNCHANGED <<portVars, crashed, userVars, pairs, got>>
  PROVE  IInv'
<1> DEFINE gone == Gone(n, name)
           unread == Unread(n, name)
<1>1. TypeOK /\ Static /\ PcOK /\ Taker /\ WireInv(wire) /\ WireType(wire)
  BY DEF IInv, WireInv
<1>2. /\ UNCHANGED <<crashed, pairs, got, pc, sent, requests, connections,
                     reserved, port_peer, local_port, rejects, bootstrap,
                     parent_name>>
      /\ UNCHANGED portVars
  BY <1>1, DropEffect DEF portVars, userVars
<1>3. /\ \A x \in Nodes, y \in Nodes :
           peers'[x][y] = IF x = n /\ y = name THEN NoChannel ELSE peers[x][y]
      /\ peers' \in [Nodes -> [Nodes -> Channel \cup {NoChannel}]]
      /\ pending_messages' \in [Nodes -> [Nodes -> Seq(Nat)]]
      /\ pending_children' = pending_children \ (IF n = Parent THEN {name} ELSE {})
      /\ reads' = [reads EXCEPT ![n] = @ \ gone]
      /\ down' = down \cup gone \cup unread
      /\ wire' = [ch \in Channel |-> IF ch \in gone
                    THEN [wire[ch] EXCEPT ![n] = <<>>] ELSE wire[ch]]
      /\ lost' = [lost EXCEPT ![n] = @ \cup {name}]
  BY <1>1, DropEffect
<1>4. /\ gone \subseteq Channel /\ unread \subseteq Pair
      /\ name \in Children => /\ \A ch \in gone : Links(ch, n, name)
                              /\ unread = {}
      /\ name \in {Parent, NoNode} =>
           /\ gone \subseteq {Boot(n)} /\ n \in Children
           /\ \A ch \in unread : n \in {ch[1], ch[2]}
  BY <1>1, DroppedChannels
<1>5. gone \subseteq reads[n]
  BY DEF Gone
<1>6. name \in Children \/ name \in {Parent, NoNode}
  BY DEF Nodes
<1>7. \A h \in unread : \E ch \in gone : h \in Handles(wire[ch][n])
  BY DEF Unread
<1> HIDE DEF gone, unread
<1>8. \A ch \in Channel, m \in Nodes :
        wire'[ch][m] = IF ch \in gone /\ m = n THEN <<>> ELSE wire[ch][m]
  BY <1>1, <1>3 DEF WireType
<1>9. WireType(wire')
  <2>1. wire' \in [Channel -> [Nodes -> Seq(Message)]]
    BY <1>1, <1>3 DEF WireType
  <2>2. ASSUME NEW ch \in Channel, NEW m \in Nodes
        PROVE  wire'[ch][m] \in Seq(Carries(ch, m))
    <3>1. <<>> \in Seq(Carries(ch, m)) /\ wire[ch][m] \in Seq(Carries(ch, m))
      BY <1>1 DEF WireType
    <3> QED BY <1>8, <3>1
  <2> QED BY <2>1, <2>2 DEF WireType
<1>10. /\ \A m \in Nodes : reads'[m] \subseteq reads[m]
       /\ \A m \in Nodes : m # n => reads'[m] = reads[m]
       /\ reads'[n] = reads[n] \ gone
       /\ reads' \in [Nodes -> SUBSET Channel]
  BY <1>1, <1>3, TypeParts
<1>11. /\ \A m \in Nodes : m # n => lost'[m] = lost[m]
       /\ lost'[n] = lost[n] \cup {name}
       /\ lost' \in [Nodes -> SUBSET (Nodes \cup {NoNode})]
  BY <1>1, <1>3, TypeParts
<1>12. TypeOK'
  <2>1. down' \subseteq Channel
    BY <1>1, <1>3, <1>4, PairChannel, TypeParts
  <2>2. ASSUME NEW x \in Nodes, NEW y \in Nodes, peers'[x][y] # NoChannel
        PROVE  Links(peers'[x][y], x, y)
    BY <1>1, <1>3, <2>2 DEF TypeOK
  <2>3. pending_children' \subseteq Children
    BY <1>1, <1>3, TypeParts
  <2> QED BY <1>1, <1>2, <1>3, <1>9, <1>10, <1>11, <2>1, <2>2, <2>3,
             PeerTypeFrame DEF TypeOK
<1>13. PcOK'
  BY <1>1, <1>2 DEF PcOK
<1>14. Taker'
  <2>1. NoGrants(wire, wire')
    <3>1. ~ Has(<<>>, ConnectToPort)
      BY DEF Has
    <3> QED BY <1>8, <3>1, BootChannel DEF NoGrants
  <2> QED BY <1>1, <1>2, <2>1, TakerFrame
<1>15. \A x \in Nodes : Attached(x)' => Attached(x)
  BY <1>2, <1>11 DEF Attached
<1>16. Parent \notin crashed => name \in Children /\ name \in crashed /\ name # n
  BY <1>1, BlamedDead
<1>17. name \in {Parent, NoNode} => Parent \in crashed /\ ~ Attached(n)'
  <2>1. Parent \notin Children /\ NoNode \notin Children
    BY ParentAssumption DEF Nodes
  <2> QED BY <1>11, <2>1 DEF Blamed, Attached
<1>18. ASSUME name \in Children, n \in Children, Attached(name), Attached(n)
       PROVE  FALSE
  <2>1. Parent \notin Children /\ NoNode \notin Children
    BY ParentAssumption DEF Nodes
  <2> QED BY <1>18, <2>1 DEF Blamed
<1>p. \A x, y \in Nodes : peers'[x][y] \in {peers[x][y], NoChannel}
  BY <1>3
<1>19. Losses'
  <2>1. ASSUME NEW c \in Children, Boot(c) \in gone
        PROVE  c \in crashed \/ Parent \in crashed
    <3>1. CASE name \in Children
      <4>1. Links(Boot(c), n, name) /\ Boot(c) \in Channel
        BY <1>4, <2>1, <3>1
      <4>2. Boot(c)[1] = Parent /\ Boot(c)[2] = c /\ name # Parent
        BY <3>1, BootChannel
      <4>3. name = c /\ n = Parent
        BY <4>1, <4>2 DEF Links
      <4> QED BY <1>16, <4>3
    <3>2. CASE name \in {Parent, NoNode}
      BY <1>17, <3>2
    <3> QED BY <1>6, <3>1, <3>2
  <2>2. ASSUME NEW c \in Children, Boot(c) \in down'
        PROVE  c \in crashed \/ Parent \in crashed
    <3>1. Boot(c) \notin unread
      BY <1>4, BootChannel
    <3> QED BY <1>1, <1>3, <2>1, <2>2, <3>1 DEF Static, Losses
  <2>3. ASSUME Parent \notin crashed, NEW m \in Nodes \ crashed
        PROVE  lost'[m] \subseteq crashed
    <3>1. lost[m] \subseteq crashed
      BY <1>1, <2>3 DEF Static, Losses
    <3> QED BY <1>11, <1>16, <2>3, <3>1
  <2> QED BY <1>2, <2>2, <2>3 DEF Losses
<1>20. Joins'
  <2>1. ASSUME NEW c \in Children
        PROVE  /\ parent_name'[c] = NoNode => peers'[c][Parent] = NoChannel
               /\ Boot(c) \in reads'[c] =>
                    c \in bootstrap' \/ parent_name'[c] = Parent
    <3>1. c \in Nodes /\ Parent \in Nodes
      BY BootChannel
    <3>2. peers'[c][Parent] \in {peers[c][Parent], NoChannel}
      BY <1>p, <3>1
    <3> QED BY <1>1, <1>2, <1>10, <3>1, <3>2 DEF Static, Joins
  <2> QED BY <2>1 DEF Joins
<1>21. Made'
  <2>1. ASSUME NEW h \in unread PROVE h[3] <= pairs
    <3>1. name \in {Parent, NoNode} /\ n \in Children
      BY <1>4, <1>6
    <3>2. PICK ch \in gone : h \in Handles(wire[ch][n])
      BY <1>7
    <3>3. ch = Boot(n) /\ ch \in Channel
      BY <1>4, <3>1, <3>2
    <3>4. \E i \in DOMAIN wire[ch][n] :
             Handed(wire[ch][n][i]) /\ h = wire[ch][n][i].handle
      BY <1>1, <3>2, <3>3, HandlesOf
    <3> QED BY <1>1, <3>1, <3>3, <3>4 DEF WireInv, Ordered, Inbox
  <2>2. \A ch \in down' : ch[3] <= pairs'
    BY <1>1, <1>2, <1>3, <1>5, <2>1 DEF Static, Made
  <2>3. \A m \in Nodes : \A ch \in reads'[m] : ch[3] <= pairs' /\ m \in {ch[1], ch[2]}
    BY <1>1, <1>2, <1>10 DEF Static, Made
  <2>4. \A x \in Children : x \in Nodes
    BY BootChannel
  <2>5. \A x, y \in Children :
          peers'[x][y] # NoChannel => peers'[x][y][3] <= pairs'
    <3>1. \A x, y \in Children : peers'[x][y] \in {peers[x][y], NoChannel}
      BY <1>p, <2>4
    <3> QED BY <1>1, <1>2, <3>1 DEF Static, Made
  <2>6. ASSUME NEW x \in Children, NEW y \in Children, x # y, Attached(x)',
               Attached(y)', NEW h \in reads'[x] \cap Between(x, y)
        PROVE  peers'[x][y] = h
    <3>1. Attached(x) /\ Attached(y) /\ h \in reads[x]
      BY <1>10, <1>15, <2>4, <2>6
    <3>2. peers[x][y] = h
      BY <1>1, <2>6, <3>1 DEF Static, Made
    <3>3. ~ (x = n /\ y = name)
      BY <1>18, <3>1
    <3> QED BY <1>3, <2>4, <3>2, <3>3
  <2> QED BY <2>2, <2>3, <2>5, <2>6 DEF Made
<1>22. ASSUME NEW c \in Children
       PROVE  /\ Inbox(c, wire') =
                   IF Boot(c) \in gone /\ c = n THEN <<>> ELSE Inbox(c, wire)
              /\ SameHandles(Inbox(c, wire), Inbox(c, wire))
  BY <1>1, <1>8, BootChannel, BoxTypes, SameSame DEF Inbox
<1>23. Ordered(wire)'
  <2>1. \A x, y \in Children : peers'[x][y] \in {peers[x][y], NoChannel}
    BY <1>p, BootChannel
  <2>2. \A c \in Children : \/ SameHandles(Inbox(c, wire), Inbox(c, wire'))
                            \/ Inbox(c, wire') = <<>>
    BY <1>22
  <2> QED BY <1>1, <1>2, <1>9, <2>1, <2>2, OrderedFrame DEF WireInv
<1>24. Agree(wire)'
  <2>1. ASSUME NEW x \in Children, Attached(x)'
        PROVE  Attached(x) /\ SameHandles(Inbox(x, wire), Inbox(x, wire'))
    <3>1. x \in Nodes
      BY BootChannel
    <3>2. ~ (Boot(x) \in gone /\ x = n)
      <4>1. SUFFICES ASSUME Boot(x) \in gone, x = n PROVE FALSE
        OBVIOUS
      <4>2. name \in Children
        BY <1>6, <1>17, <2>1, <4>1
      <4>3. Links(Boot(x), x, name) /\ Boot(x) \in Channel
        BY <1>4, <4>1, <4>2
      <4> QED BY <4>2, <4>3, ChildChannel, BootChannel
    <3> QED BY <1>15, <1>22, <2>1, <3>1, <3>2
  <2>2. ASSUME NEW x \in Children, NEW y \in Children, Attached(x)',
               Attached(y)', x # y
        PROVE  /\ peers'[x][y] = peers[x][y]
               /\ down' \cap Between(x, y) \subseteq down
    <3>1. x \in Nodes /\ y \in Nodes /\ Attached(x) /\ Attached(y)
      BY <1>15, <2>2, BootChannel
    <3>2. ~ (x = n /\ y = name) /\ ~ (y = n /\ x = name)
      BY <1>18, <3>1
    <3>3. ASSUME NEW h \in gone \cap Between(x, y) PROVE FALSE
      <4>1. h \in Pair /\ Links(h, x, y)
        BY DEF Between
      <4>2. name \in Children
        BY <1>4, <1>6, <4>1, BootChannel
      <4>3. Links(h, n, name)
        BY <1>4, <4>2
      <4> QED BY <3>2, <4>1, <4>3, PairChannel DEF Links
    <3>4. ASSUME NEW h \in unread \cap Between(x, y) PROVE FALSE
      <4>1. h \in Pair /\ Links(h, x, y)
        BY DEF Between
      <4>2. name \in {Parent, NoNode}
        BY <1>4, <1>6
      <4>3. n \in {h[1], h[2]}
        BY <1>4, <4>2
      <4>4. n = x \/ n = y
        BY <4>1, <4>3 DEF Links
      <4> QED BY <1>17, <2>2, <4>2, <4>4
    <3> QED BY <1>3, <3>1, <3>2, <3>3, <3>4
  <2> QED BY <1>1, <2>1, <2>2, AgreeFrame DEF WireInv
<1>25. ASSUME NEW d \in Children \ crashed, Parent \notin crashed
       PROVE  (Offered(d, wire) \/ Answered(d, wire) \/ Accepted(d, wire))'
  <2>1. Offered(d, wire) \/ Answered(d, wire) \/ Accepted(d, wire)
    BY <1>1, <1>25 DEF WireInv, Joining
  <2>2. name \in Children /\ name # d
    BY <1>16, <1>25
  <2>3. Boot(d) \notin gone
    <3>1. SUFFICES ASSUME Boot(d) \in gone PROVE FALSE
      OBVIOUS
    <3>2. Links(Boot(d), n, name)
      BY <1>4, <2>2, <3>1
    <3>3. Boot(d)[1] = Parent /\ Boot(d)[2] = d /\ name # Parent
      BY <2>2, BootChannel
    <3> QED BY <2>2, <3>2, <3>3 DEF Links
  <2>4. d \in Nodes /\ Parent \in Nodes /\ Boot(d) \in Channel
    BY BootChannel
  <2>5. /\ wire'[Boot(d)][d] = wire[Boot(d)][d]
        /\ wire'[Boot(d)][Parent] = wire[Boot(d)][Parent]
    BY <1>8, <2>3, <2>4
  <2>6. Boot(d) \in reads'[Parent] <=> Boot(d) \in reads[Parent]
    BY <1>10, <2>3, <2>4
  <2>7. peers'[Parent][d] = peers[Parent][d]
    BY <1>3, <2>2, <2>4
  <2>8. d \in pending_children' <=> d \in pending_children
    BY <1>3, <2>2
  <2> QED BY <1>2, <2>1, <2>5, <2>6, <2>7, <2>8, JoiningFrame
<1>26. Joining(wire)'
  BY <1>2, <1>25 DEF Joining
<1>27. WireInv(wire)'
  BY <1>9, <1>23, <1>24, <1>26 DEF WireInv, WireType
<1> QED BY <1>12, <1>13, <1>14, <1>19, <1>20, <1>21, <1>27 DEF IInv, Static

\* An error on a channel blames the node at its other end.
LEMMA ErrorBlamed ==
  ASSUME IInv, NEW n \in Nodes, n \notin crashed, NEW ch \in reads[n], ch \in down
  PROVE  Blamed(n, RemoteNodeName(n, ch))
<1> DEFINE name == RemoteNodeName(n, ch)
<1>1. TypeOK /\ Static /\ WireInv(wire)
  BY DEF IInv
<1>2. /\ ch \in Channel /\ name \in Nodes \cup {NoNode}
      /\ name \in Children => Far(ch, n) = name /\ Links(ch, n, name)
      /\ name \in {Parent, NoNode} => n \in Children /\ ch = Boot(n)
  BY <1>1, RemoteName
<1> HIDE DEF name
<1> SUFFICES Blamed(n, name)
  BY DEF name
<1>3. CASE name \in {Parent, NoNode}
  BY <1>1, <1>2, <1>3 DEF Blamed, Static, Losses
<1>4. CASE name \in Children
  <2>1. Links(ch, n, name) /\ name # n
    BY <1>2, <1>4, LinkedFar
  <2>2. CASE n \in Children
    <3>1. SUFFICES ASSUME Attached(n), Attached(name) PROVE FALSE
      BY <1>4, <2>1, <2>2 DEF Blamed
    <3>2. ch \in Between(n, name) /\ ch \in Pair
      BY <1>2, <1>4, <2>1, <2>2, ChildChannel
    <3>3. peers[n][name] = ch
      BY <1>1, <1>4, <2>1, <2>2, <3>1, <3>2 DEF Static, Made
    <3>4. Agreed(n, name, wire)
      BY <1>1, <1>4, <2>1, <2>2, <3>1 DEF WireInv, Agree
    <3>5. PICK f \in Pair : Common(n, name, f, wire) /\ f[3] < ch[3]
      BY <3>2, <3>4 DEF Agreed
    <3>6. f # ch /\ f[3] \in Nat /\ ch[3] \in Nat /\ ch # NoChannel
      BY <3>2, <3>5, PairChannel
    <3>7. Has(Inbox(n, wire), Introduce(name, f))
      BY <3>3, <3>5, <3>6 DEF Common, Knows
    <3>8. ch[3] < f[3]
      BY <1>1, <1>4, <2>2, <3>3, <3>6, <3>7 DEF WireInv, Ordered
    <3> QED BY <3>5, <3>6, <3>8
  <2>3. CASE n \notin Children
    <3>1. n = Parent
      BY <2>3 DEF Nodes
    <3>2. ch = Boot(name)
      BY <1>2, <2>1, <3>1, ParentChannel
    <3>3. name \in crashed
      BY <1>1, <1>4, <3>1, <3>2 DEF Static, Losses
    <3> QED BY <1>4, <2>1, <3>3 DEF Blamed, Attached
  <2> QED BY <2>2, <2>3
<1>5. name \in Children \/ name \in {Parent, NoNode}
  BY <1>2 DEF Nodes
<1> QED BY <1>3, <1>4, <1>5

\* OnChannelError drops the peer of the channel that failed.
LEMMA OnChannelErrorStep ==
  ASSUME IInv, NEW n \in Nodes, NEW ch \in reads[n], OnChannelError(n, ch)
  PROVE  IInv'
<1>1. n \notin crashed /\ ch \in down
  BY DEF OnChannelError, HasError, Live
<1>2. Blamed(n, RemoteNodeName(n, ch))
  BY <1>1, ErrorBlamed
<1>3. TypeOK /\ Static
  BY DEF IInv
<1>4. RemoteNodeName(n, ch) \in Nodes \cup {NoNode}
  BY <1>3, RemoteName
<1>5. /\ DropPeer(n, RemoteNodeName(n, ch))
      /\ UNCHANGED <<portVars, crashed, userVars, pairs, got>>
  BY DEF OnChannelError
<1> DEFINE name == RemoteNodeName(n, ch)
<1> HIDE DEF name
<1>6. /\ name \in Nodes \cup {NoNode} /\ Blamed(n, name) /\ DropPeer(n, name)
  BY <1>2, <1>4, <1>5 DEF name
<1> QED BY <1>1, <1>5, <1>6, DropStep

\* A crash closes all channels of the process.
LEMMA CrashStep ==
  ASSUME IInv, NEW n \in Nodes, Crash(n)
  PROVE  IInv'
<1> DEFINE boots == {Boot(c) : c \in {c \in Children : n \in {c, Parent}}}
           unread == UNION {Handles(wire[ch][n]) : ch \in Channel}
<1>1. TypeOK /\ Static /\ PcOK /\ Taker /\ WireInv(wire) /\ WireType(wire)
  BY DEF IInv, WireInv
<1>2. /\ crashed' = crashed \cup {n} /\ n \in Mortal
      /\ down' = down \cup reads[n] \cup boots \cup unread
      /\ wire' = [ch \in Channel |-> [wire[ch] EXCEPT ![n] = <<>>]]
      /\ pc' = [pc EXCEPT ![n] = Idle]
      /\ UNCHANGED portVars
      /\ UNCHANGED <<peers, pending_messages, reads, rejects, pending_children,
                     bootstrap, parent_name, lost, sent, pairs, got, reserved,
                     port_peer, requests, connections, local_port>>
  BY DEF Crash, peerVars, joinVars, portVars
<1>3. \A b \in boots : /\ b \in Channel /\ b[3] = 0 /\ b \notin Pair
                       /\ \E c \in Children : b = Boot(c) /\ n \in {c, Parent}
  BY BootChannel
<1>4. \A h \in unread : \E ch \in Channel : h \in Handles(wire[ch][n])
  OBVIOUS
<1>5. \A h \in unread : /\ h \in Pair /\ h \in Channel /\ n \in {h[1], h[2]}
                        /\ n \in Children
  BY <1>1, <1>4, HandlesOf
<1> HIDE DEF boots, unread
<1>6. \A ch \in Channel, m \in Nodes :
        wire'[ch][m] = IF m = n THEN <<>> ELSE wire[ch][m]
  BY <1>1, <1>2 DEF WireType
<1>7. WireType(wire')
  <2>1. wire' \in [Channel -> [Nodes -> Seq(Message)]]
    BY <1>1, <1>2 DEF WireType
  <2>2. ASSUME NEW ch \in Channel, NEW m \in Nodes
        PROVE  wire'[ch][m] \in Seq(Carries(ch, m))
    <3>1. <<>> \in Seq(Carries(ch, m)) /\ wire[ch][m] \in Seq(Carries(ch, m))
      BY <1>1 DEF WireType
    <3> QED BY <1>6, <3>1
  <2> QED BY <2>1, <2>2 DEF WireType
<1>8. /\ pc' \in [Nodes -> [at : {"idle", "queue", "ask"},
                            to : Nodes \cup {NoNode}]]
      /\ \A m \in Nodes : pc'[m] = pc[m] \/ pc'[m].at = "idle"
  <2>1. pc \in [Nodes -> [at : {"idle", "queue", "ask"}, to : Nodes \cup {NoNode}]]
    BY <1>1 DEF TypeOK
  <2> QED BY <1>2, <2>1 DEF Idle
<1>9. TypeOK'
  <2>1. down' \subseteq Channel
    BY <1>1, <1>2, <1>3, <1>5, TypeParts
  <2>2. crashed' \subseteq Nodes \cap Mortal
    BY <1>1, <1>2 DEF TypeOK
  <2> QED BY <1>1, <1>2, <1>7, <1>8, <2>1, <2>2, PeerTypeFrame DEF TypeOK
<1>10. PcOK'
  BY <1>1, <1>8 DEF PcOK
<1>11. Taker'
  <2>1. NoGrants(wire, wire')
    <3>1. ~ Has(<<>>, ConnectToPort)
      BY DEF Has
    <3> QED BY <1>6, <3>1, BootChannel DEF NoGrants
  <2> QED BY <1>1, <1>2, <2>1, TakerFrame
<1>12. \A x \in Nodes : Attached(x)' => Attached(x) /\ x # n
  BY <1>2 DEF Attached
\* Whatever is closed now has n at one end.
<1>13. \A ch \in down' : ch \in down \/ n \in {ch[1], ch[2]}
  BY <1>1, <1>2, <1>3, <1>5, BootChannel DEF Static, Made
<1>14. Losses'
  <2>1. ASSUME NEW c \in Children, Boot(c) \in down'
        PROVE  c \in crashed' \/ Parent \in crashed'
    BY <1>1, <1>2, <1>13, <2>1, BootChannel DEF Static, Losses
  <2>2. ASSUME Parent \notin crashed', NEW m \in Nodes \ crashed'
        PROVE  lost'[m] \subseteq crashed'
    BY <1>1, <1>2, <2>2 DEF Static, Losses
  <2> QED BY <2>1, <2>2 DEF Losses
<1>15. Joins'
  BY <1>1, <1>2 DEF Static, Joins
<1>16. Made'
  <2>1. ASSUME NEW h \in unread PROVE h[3] <= pairs
    <3>1. PICK ch \in Channel : h \in Handles(wire[ch][n])
      BY <1>4
    <3>2. /\ ch = Boot(n) /\ n \in Children
          /\ \E i \in DOMAIN wire[ch][n] :
               Handed(wire[ch][n][i]) /\ h = wire[ch][n][i].handle
      BY <1>1, <3>1, HandlesOf
    <3> QED BY <1>1, <3>2 DEF WireInv, Ordered, Inbox
  <2>2. \A ch \in down' : ch[3] <= pairs'
    BY <1>1, <1>2, <1>3, <2>1, TypeParts DEF Static, Made
  <2>3. \A x \in Children : x \in Nodes
    BY BootChannel
  <2> QED BY <1>1, <1>2, <1>12, <2>2, <2>3 DEF Static, Made
<1>17. ASSUME NEW c \in Children
       PROVE  /\ Inbox(c, wire') = IF c = n THEN <<>> ELSE Inbox(c, wire)
              /\ SameHandles(Inbox(c, wire), Inbox(c, wire))
  BY <1>1, <1>6, BootChannel, BoxTypes, SameSame DEF Inbox
<1>18. Ordered(wire)'
  <2>1. \A c \in Children : \/ SameHandles(Inbox(c, wire), Inbox(c, wire'))
                            \/ Inbox(c, wire') = <<>>
    BY <1>17
  <2> QED BY <1>1, <1>2, <1>7, <2>1, OrderedFrame DEF WireInv
<1>19. Agree(wire)'
  <2>1. ASSUME NEW x \in Children, Attached(x)'
        PROVE  Attached(x) /\ SameHandles(Inbox(x, wire), Inbox(x, wire'))
    BY <1>12, <1>17, <2>1, BootChannel
  <2>2. ASSUME NEW x \in Children, NEW y \in Children, Attached(x)',
               Attached(y)', x # y
        PROVE  down' \cap Between(x, y) \subseteq down
    <3>1. x # n /\ y # n
      BY <1>12, <2>2, BootChannel
    <3>2. \A h \in Between(x, y) : n \notin {h[1], h[2]}
      BY <3>1 DEF Between, Links
    <3> QED BY <1>13, <3>2
  <2> QED BY <1>1, <1>2, <2>1, <2>2, AgreeFrame DEF WireInv
<1>20. ASSUME NEW d \in Children \ crashed', Parent \notin crashed'
       PROVE  (Offered(d, wire) \/ Answered(d, wire) \/ Accepted(d, wire))'
  <2>1. d # n /\ Parent # n /\ d \notin crashed /\ Parent \notin crashed
    BY <1>2, <1>20
  <2>2. Offered(d, wire) \/ Answered(d, wire) \/ Accepted(d, wire)
    BY <1>1, <2>1 DEF WireInv, Joining
  <2>3. /\ wire'[Boot(d)][d] = wire[Boot(d)][d]
        /\ wire'[Boot(d)][Parent] = wire[Boot(d)][Parent]
    BY <1>6, <2>1, BootChannel
  <2> QED BY <1>2, <2>2, <2>3, JoiningFrame
<1>21. Joining(wire)'
  BY <1>20 DEF Joining
<1>22. WireInv(wire)'
  BY <1>7, <1>18, <1>19, <1>21 DEF WireInv, WireType
<1> QED BY <1>9, <1>10, <1>11, <1>14, <1>15, <1>16, <1>22 DEF IInv, Static
-----------------------------------------------------------------------------
(* The handshake.                                                          *)

\* The frame of AddPeer at n when it takes the channel.
LEMMA AddEffect ==
  ASSUME TypeOK, NEW n \in Nodes, NEW m \in Nodes, NEW ch \in Channel,
         NEW w, NEW r, peers[n][m] = NoChannel, AddPeer(n, m, ch, w, r)
  PROVE  /\ \A x, y \in Nodes :
              peers'[x][y] = IF x = n /\ y = m THEN ch ELSE peers[x][y]
         /\ peers' \in [Nodes -> [Nodes -> Channel \cup {NoChannel}]]
         /\ pending_messages' \in [Nodes -> [Nodes -> Seq(Nat)]]
         /\ \A x \in Nodes :
              reads'[x] = IF x = n THEN reads[x] \cup {ch} ELSE reads[x]
         /\ reads' \in [Nodes -> SUBSET Channel]
         /\ wire' = Write(w, ch, n, Flushed(n, m))
         /\ rejects' \subseteq r \cup (Nodes \X Channel)
         /\ down' = down
<1>1. /\ peers' = [peers EXCEPT ![n][m] = ch]
      /\ reads' = [reads EXCEPT ![n] = @ \cup {ch}]
      /\ wire' = Write(w, ch, n, Flushed(n, m))
      /\ rejects' = IF Flushed(n, m) = <<>> THEN r ELSE r \cup Rejected(ch, n)
      /\ pending_messages' = [pending_messages EXCEPT ![n][m] = <<>>]
      /\ down' = down
  BY DEF AddPeer
<1>2. /\ peers \in [Nodes -> [Nodes -> Channel \cup {NoChannel}]]
      /\ pending_messages \in [Nodes -> [Nodes -> Seq(Nat)]]
      /\ reads \in [Nodes -> SUBSET Channel]
  BY TypeParts
<1>3. /\ \A x, y \in Nodes :
           peers'[x][y] = IF x = n /\ y = m THEN ch ELSE peers[x][y]
      /\ peers' \in [Nodes -> [Nodes -> Channel \cup {NoChannel}]]
  BY <1>1, <1>2
<1>4. pending_messages' \in [Nodes -> [Nodes -> Seq(Nat)]]
  <2>1. <<>> \in Seq(Nat)
    OBVIOUS
  <2> QED BY <1>1, <1>2, <2>1
<1>5. /\ \A x \in Nodes :
           reads'[x] = IF x = n THEN reads[x] \cup {ch} ELSE reads[x]
      /\ reads' \in [Nodes -> SUBSET Channel]
  BY <1>1, <1>2
<1>6. rejects' \subseteq r \cup (Nodes \X Channel)
  BY <1>1, RejectedType
<1> QED BY <1>1, <1>3, <1>4, <1>5, <1>6

\* A message of the type at the head of a channel of a launch, and its removal.
LEMMA ArrivedAt ==
  ASSUME TypeOK, WireType(wire), NEW c \in Children, NEW n \in {c, Parent},
         NEW type, Arrived(n, Boot(c), type)
  PROVE  /\ n \in Nodes /\ n \notin crashed /\ Boot(c) \in reads[n]
         /\ wire[Boot(c)][n] # <<>> /\ Head(wire[Boot(c)][n]).type = type
         /\ Head(wire[Boot(c)][n]) \in Carries(Boot(c), n)
         /\ WireType(TakenFrom(wire, n, Boot(c)))
         /\ NoGrants(wire, TakenFrom(wire, n, Boot(c)))
         /\ Taken(n, Boot(c)) = TakenFrom(wire, n, Boot(c))
<1>1. n \in Nodes /\ Boot(c) \in Channel
  BY BootChannel
<1>2. /\ n \notin crashed /\ Boot(c) \in reads[n]
      /\ wire[Boot(c)][n] # <<>> /\ Head(wire[Boot(c)][n]).type = type
  BY DEF Arrived, Live
<1> QED BY <1>1, <1>2, ArrivedHead, TakenType, TakenNoGrants DEF Taken, TakenFrom

\* The first answer of a child.
LEMMA AnswerType ==
  ASSUME NEW c \in Children, NEW rest \in Seq(ToParent(c)),
         NEW t \in Seq(ToParent(c)), NEW o, o = (<<>> \o (<<AcceptParent>> \o rest)) \o t
  PROVE  o # <<>> /\ Head(o) = AcceptParent /\ Tail(o) \in Seq(ToParent(c))
<1>1. Tail(o) = rest \o t /\ o # <<>> /\ Head(o) = AcceptParent
  OBVIOUS
<1> QED BY <1>1, SeqCat

\* OnAcceptChild: the child learns its parent, answers, and flushes what waited.
LEMMA OnAcceptChildStep ==
  ASSUME IInv, NEW c \in Children, OnAcceptChild(c)
  PROVE  IInv'
<1> DEFINE ch == Boot(c)
           rest == IF c \in requests THEN <<RequestPortConnection(Wants[c])>>
                   ELSE <<>>
           answer == IF c \in requests
                     THEN <<AcceptParent, RequestPortConnection(Wants[c])>>
                     ELSE <<AcceptParent>>
           w1 == TakenFrom(wire, c, ch)
           w2 == Write(w1, ch, c, answer)
<1>1. /\ TypeOK /\ Static /\ PcOK /\ Taker /\ WireInv(wire) /\ WireType(wire)
      /\ c \in Nodes /\ Parent \in Nodes /\ ch \in Channel /\ c # Parent
      /\ Far(ch, c) = Parent /\ Parent # NoNode /\ Parent \notin Children
  BY BootChannel, BootFar, NoNodeIs, ParentAssumption DEF IInv, WireInv
<1>2. Arrived(c, ch, "AcceptChild")
  BY DEF OnAcceptChild
<1>3. /\ c \notin crashed /\ ch \in reads[c] /\ wire[ch][c] # <<>>
      /\ Head(wire[ch][c]).type = "AcceptChild"
      /\ WireType(w1) /\ NoGrants(wire, w1) /\ Taken(c, ch) = w1
  BY <1>1, <1>2, ArrivedAt
<1>4. parent_name[c] \in {Parent, NoNode}
  BY <1>1, TypeParts
<1>5. CASE ~ (c \in bootstrap /\ parent_name[c] = NoNode)
  <2>1. parent_name[c] = Parent
    BY <1>1, <1>3, <1>4, <1>5 DEF Static, Joins
  <2>2. Parent \in crashed
    <3>1. SUFFICES ASSUME Parent \notin crashed PROVE FALSE
      OBVIOUS
    <3>2. Offered(c, wire) \/ Answered(c, wire) \/ Accepted(c, wire)
      BY <1>1, <1>3, <3>1 DEF WireInv, Joining
    <3>3. Inbox(c, wire) \in Seq(ToChild(c))
      BY <1>1, <2>1, <3>2 DEF Offered, Answered, Accepted
    <3>4. Head(Inbox(c, wire)) \in ToChild(c)
      BY <1>3, <3>3, SeqTail DEF Inbox
    <3> QED BY <1>3, <3>4, ToChildCases DEF Inbox
  <2>3. RemoteNodeName(c, ch) = Parent
    BY <1>1, <2>1 DEF RemoteNodeName
  <2>4. /\ DropPeer(c, RemoteNodeName(c, ch)) /\ UNCHANGED <<requests, connections>>
        /\ UNCHANGED <<reserved, port_peer, local_port, crashed, userVars, pairs,
                       got>>
    BY <1>5 DEF OnAcceptChild
  <2>5. DropPeer(c, Parent) /\ UNCHANGED <<portVars, crashed, userVars, pairs, got>>
    BY <2>3, <2>4 DEF portVars
  <2>6. Blamed(c, Parent)
    BY <2>2 DEF Blamed
  <2> QED BY <1>1, <1>3, <2>5, <2>6, DropStep
<1>6. CASE c \in bootstrap /\ parent_name[c] = NoNode
  <2>1. /\ parent_name' = [parent_name EXCEPT ![c] = Parent]
        /\ bootstrap' = bootstrap \ {c}
        /\ connections' = connections \cup (requests \cap {c})
        /\ requests' = requests \ {c}
        /\ AddPeer(c, Parent, ch, w2, rejects \cup Rejected(ch, c))
    BY <1>3, <1>6 DEF OnAcceptChild
  <2>2. UNCHANGED <<pending_children, lost, reserved, port_peer, local_port,
                    crashed, pc, sent, pairs, got>>
    BY <1>6 DEF OnAcceptChild, userVars
  <2>3. peers[c][Parent] = NoChannel
    BY <1>1, <1>6 DEF Static, Joins
  <2>4. /\ \A x, y \in Nodes :
             peers'[x][y] = IF x = c /\ y = Parent THEN ch ELSE peers[x][y]
        /\ peers' \in [Nodes -> [Nodes -> Channel \cup {NoChannel}]]
        /\ pending_messages' \in [Nodes -> [Nodes -> Seq(Nat)]]
        /\ \A x \in Nodes :
             reads'[x] = IF x = c THEN reads[x] \cup {ch} ELSE reads[x]
        /\ reads' \in [Nodes -> SUBSET Channel]
        /\ wire' = Write(w2, ch, c, Flushed(c, Parent))
        /\ rejects' \subseteq (rejects \cup Rejected(ch, c)) \cup (Nodes \X Channel)
        /\ down' = down
    <3> DEFINE r == rejects \cup Rejected(ch, c)
    <3>1. AddPeer(c, Parent, ch, w2, r) /\ TypeOK /\ ch \in Channel
          /\ c \in Nodes /\ Parent \in Nodes
      BY <1>1, <2>1
    <3> HIDE DEF r, w2, ch
    <3> QED BY <2>3, <3>1, AddEffect DEF r
  <2>5. \A x \in Nodes : reads'[x] = reads[x]
    BY <1>3, <2>4
  <2>6. rest \in Seq(ToParent(c)) /\ answer = <<AcceptParent>> \o rest
    <3>1. CASE c \in requests
      <4>1. Wants[c] \in Tokens
        BY <1>1, <3>1 DEF Taker
      <4>2. RequestPortConnection(Wants[c]) \in ToParent(c)
        BY <4>1 DEF ToParent
      <4> QED BY <3>1, <4>2
    <3>2. CASE c \notin requests
      BY <3>2
    <3> QED BY <3>1, <3>2
  <2>7. Flushed(c, Parent) \in Seq(ToParent(c))
    <3>1. PortsMessages \subseteq ToParent(c)
      BY DEF ToParent
    <3> QED BY <1>1, <3>1, FlushedType, SeqSub
  <2>8. answer \in Seq(ToParent(c) \cup {AcceptParent})
    BY <2>6
  <2> DEFINE flushed == Flushed(c, Parent)
  <2>9. flushed \in Seq(ToParent(c)) /\ wire' = Write(w2, ch, c, flushed)
    BY <2>4, <2>7
  <2> HIDE DEF flushed, answer, rest, w1, w2, ch
  <2>10. WireType(w2) /\ WireType(wire')
    <3>1. Carries(ch, Far(ch, c)) = ToParent(c) \cup {AcceptParent}
      BY <1>1, CarriesBoot DEF ch
    <3>2. flushed \in Seq(ToParent(c) \cup {AcceptParent})
      BY <2>9
    <3>3. WireType(w2)
      BY <1>1, <1>3, <2>8, <3>1, WriteType DEF w2
    <3> QED BY <1>1, <2>9, <3>1, <3>2, <3>3, WriteType
  <2>11. NoGrants(wire, wire')
    <3>1. ConnectToPort \notin ToParent(c) /\ ConnectToPort # AcceptParent
      BY ToParentCases, MessageTypes
    <3> DEFINE T == ToParent(c) \cup {AcceptParent}
    <3>2. ConnectToPort \notin T /\ answer \in Seq(T) /\ flushed \in Seq(T)
      BY <2>8, <2>9, <3>1
    <3> HIDE DEF T
    <3>3. NoGrants(w1, w2)
      BY <1>1, <1>3, <3>2, WriteNoGrants DEF w2
    <3>4. NoGrants(w2, wire')
      BY <1>1, <2>9, <2>10, <3>2, WriteNoGrants
    <3> QED BY <1>3, <3>3, <3>4, NoGrantsTrans
  <2>12. TypeOK'
    <3>1. rejects' \subseteq Nodes \X Channel
      BY <1>1, <2>4, RejectedType, TypeParts
    <3>2. parent_name' \in [Children -> {Parent, NoNode}]
      BY <1>1, <2>1, TypeParts
    <3>3. ASSUME NEW x \in Nodes, NEW y \in Nodes, peers'[x][y] # NoChannel
          PROVE  Links(peers'[x][y], x, y)
      <4>1. Links(ch, c, Parent)
        BY BootFar DEF ch
      <4> QED BY <1>1, <2>4, <3>3, <4>1 DEF TypeOK
    <3>4. /\ requests' \subseteq Children /\ connections' \subseteq Children
          /\ bootstrap' \subseteq Children /\ pending_children' \subseteq Children
      BY <1>1, <2>1, <2>2, PortTypes, TypeParts
    <3> QED BY <1>1, <2>2, <2>4, <2>10, <3>1, <3>2, <3>3, <3>4, PeerTypeFrame
               DEF TypeOK
  <2>13. PcOK'
    BY <1>1, <2>2 DEF PcOK
  <2>14. Taker'
    <3>1. requests' \cup connections' \subseteq requests \cup connections
      BY <2>1
    <3>2. Granted(wire)'
      BY <1>1, <2>2, <2>11 DEF Taker, Granted, NoGrants, Took
    <3> QED BY <1>1, <2>2, <3>1, <3>2 DEF Taker, Took
  <2>15. \A x : Attached(x)' <=> Attached(x)
    BY <2>2 DEF Attached
  <2>16. \A x \in Children : x \in Nodes /\ x # Parent
    BY BootChannel
  <2>17. \A x, y \in Children : peers'[x][y] = peers[x][y]
    BY <2>4, <2>16
  <2>18. Static'
    <3>1. Losses'
      BY <1>1, <2>2, <2>4 DEF Static, Losses
    <3>2. Joins'
      <4>1. ASSUME NEW d \in Children
            PROVE  /\ parent_name'[d] = NoNode => peers'[d][Parent] = NoChannel
                   /\ Boot(d) \in reads'[d] =>
                        d \in bootstrap' \/ parent_name'[d] = Parent
        <5>1. CASE d = c
          <6>1. parent_name'[c] = Parent
            BY <1>1, <2>1, TypeParts
          <6> QED BY <1>1, <5>1, <6>1
        <5>2. CASE d # c
          <6>1. parent_name'[d] = parent_name[d] /\ peers'[d][Parent] = peers[d][Parent]
                /\ reads'[d] = reads[d]
            BY <1>1, <2>1, <2>4, <2>16, <5>2, TypeParts
          <6> QED BY <1>1, <2>1, <5>2, <6>1 DEF Static, Joins
        <5> QED BY <5>1, <5>2
      <4> QED BY <4>1 DEF Joins
    <3>3. Made'
      <4>1. pairs' = pairs /\ down' = down
        BY <2>2, <2>4
      <4>2. \A x \in Children : reads'[x] = reads[x]
        BY <2>5, <2>16
      <4>3. \A x \in Nodes : \A g \in reads'[x] :
              g[3] <= pairs' /\ x \in {g[1], g[2]}
        BY <1>1, <2>5, <4>1 DEF Static, Made
      <4> QED BY <1>1, <2>15, <2>17, <4>1, <4>2, <4>3 DEF Static, Made
    <3> QED BY <3>1, <3>2, <3>3 DEF Static
  <2>19. ASSUME NEW d \in Children
         PROVE  /\ Inbox(d, wire') =
                     IF d = c THEN Tail(Inbox(c, wire)) ELSE Inbox(d, wire)
                /\ d # c => Outbox(d, wire') = Outbox(d, wire)
    <3>1. d # Parent /\ (ch = Boot(d) => d = c)
      BY BootChannel, BootIs DEF ch
    <3>2. /\ Inbox(d, w1) = IF ch = Boot(d) /\ c = d THEN Tail(Inbox(d, wire))
                            ELSE Inbox(d, wire)
          /\ Outbox(d, w1) = Outbox(d, wire)
      BY <1>1, TakenBoxes DEF w1
    <3>3. Inbox(d, w2) = Inbox(d, w1) /\ (d # c => Outbox(d, w2) = Outbox(d, w1))
      BY <1>1, <1>3, <3>1, WriteBoxes DEF w2
    <3>4. /\ Inbox(d, wire') = Inbox(d, w2)
          /\ d # c => Outbox(d, wire') = Outbox(d, w2)
      BY <1>1, <2>9, <2>10, <3>1, WriteBoxes
    <3> QED BY <3>1, <3>2, <3>3, <3>4 DEF ch
  <2>20. ASSUME NEW d \in Children
         PROVE  SameHandles(Inbox(d, wire), Inbox(d, wire'))
    <3>1. Inbox(d, wire) \in Seq(Message)
      BY <1>1, BoxTypes
    <3>2. CASE d = c
      <4>1. Inbox(d, wire) # <<>> /\ ~ Handed(Head(Inbox(d, wire)))
        BY <1>3, <3>2 DEF Inbox, Handed, ch
      <4> QED BY <2>19, <3>1, <3>2, <4>1, SameTail
    <3>3. CASE d # c
      BY <2>19, <3>1, <3>3, SameSame
    <3> QED BY <3>2, <3>3
  <2>21. Ordered(wire)'
    BY <1>1, <2>2, <2>10, <2>17, <2>20, OrderedFrame DEF WireInv
  <2>22. Agree(wire)'
    BY <1>1, <2>4, <2>15, <2>17, <2>20, AgreeFrame DEF WireInv
  <2>23. ASSUME NEW d \in Children \ crashed, Parent \notin crashed
         PROVE  (Offered(d, wire) \/ Answered(d, wire) \/ Accepted(d, wire))'
    <3>1. Offered(d, wire) \/ Answered(d, wire) \/ Accepted(d, wire)
      BY <1>1, <2>23 DEF WireInv, Joining
    <3>2. CASE d # c
      <4>1. /\ wire'[Boot(d)][d] = wire[Boot(d)][d]
            /\ wire'[Boot(d)][Parent] = wire[Boot(d)][Parent]
        BY <2>19, <3>2 DEF Inbox, Outbox
      <4>2. parent_name'[d] = parent_name[d] /\ peers'[Parent][d] = peers[Parent][d]
        BY <1>1, <2>1, <2>4, <2>16, <3>2, TypeParts
      <4>3. Boot(d) \in reads'[Parent] <=> Boot(d) \in reads[Parent]
        BY <1>1, <2>5
      <4> QED BY <2>2, <3>1, <4>1, <4>2, <4>3, JoiningFrame
    <3>3. CASE d = c
      <4>1. /\ Outbox(c, wire) = <<>> /\ Inbox(c, wire) = <<AcceptChild>>
            /\ peers[Parent][c] = NoChannel /\ ch \in reads[Parent]
            /\ c \in pending_children
        BY <1>1, <1>3, <1>6, <3>1, <3>3 DEF Offered, Answered, Accepted, Inbox, ch
      <4>2. ch \notin down
        BY <1>1, <2>23, <3>3 DEF Static, Losses, ch
      <4>3. Outbox(c, w1) = Outbox(c, wire)
        BY <1>1, TakenBoxes DEF w1
      <4>4. Outbox(c, w2) = Outbox(c, w1) \o answer
        BY <1>1, <1>3, <4>2, WriteBoxes DEF w2, ch
      <4>5. Outbox(c, wire') = Outbox(c, w2) \o flushed
        BY <1>1, <2>9, <2>10, <4>2, WriteBoxes DEF ch
      <4>6. Outbox(c, wire') = (<<>> \o (<<AcceptParent>> \o rest)) \o flushed
        BY <2>6, <4>1, <4>3, <4>4, <4>5
      <4>7. /\ Outbox(c, wire') # <<>> /\ Head(Outbox(c, wire')) = AcceptParent
            /\ Tail(Outbox(c, wire')) \in Seq(ToParent(c))
        BY <2>6, <2>9, <4>6, AnswerType
      <4>8. Inbox(c, wire') \in Seq(ToChild(c))
        <5>1. Inbox(c, wire') = <<>>
          BY <2>19, <4>1
        <5> QED BY <5>1
      <4>9. /\ parent_name'[c] = Parent /\ peers'[Parent][c] = NoChannel
            /\ Boot(c) \in reads'[Parent] /\ c \in pending_children'
        BY <1>1, <2>1, <2>2, <2>4, <2>5, <4>1, TypeParts DEF ch
      <4>10. Answered(c, wire)'
        BY <4>7, <4>8, <4>9 DEF Answered, Inbox, Outbox
      <4> QED BY <3>3, <4>10
    <3> QED BY <3>2, <3>3
  <2>24. Joining(wire)'
    BY <2>2, <2>23 DEF Joining
  <2>25. WireInv(wire)'
    BY <2>10, <2>21, <2>22, <2>24 DEF WireInv, WireType
  <2> QED BY <2>12, <2>13, <2>14, <2>18, <2>25 DEF IInv
<1> QED BY <1>5, <1>6

\* The parent adds a child that has answered, ...
LEMMA AddChildStep ==
  ASSUME IInv, NEW c \in Children, OnAcceptParent(c), c \in pending_children,
         peers[Parent][c] = NoChannel
  PROVE  IInv'
<1> DEFINE ch == Boot(c)
           w1 == TakenFrom(wire, Parent, ch)
           flushed == Flushed(Parent, c)
<1>1. /\ TypeOK /\ Static /\ PcOK /\ Taker /\ WireInv(wire) /\ WireType(wire)
      /\ c \in Nodes /\ Parent \in Nodes /\ ch \in Channel /\ c # Parent
      /\ Far(ch, Parent) = c /\ Links(ch, Parent, c)
  BY BootChannel, BootFar DEF IInv, WireInv
<1>2. Arrived(Parent, ch, "AcceptParent")
  BY DEF OnAcceptParent
<1>3. /\ Parent \notin crashed /\ ch \in reads[Parent] /\ wire[ch][Parent] # <<>>
      /\ Head(wire[ch][Parent]).type = "AcceptParent"
      /\ WireType(w1) /\ NoGrants(wire, w1) /\ Taken(Parent, ch) = w1
  BY <1>1, <1>2, ArrivedAt
<1>4. AddPeer(Parent, c, ch, w1, rejects)
  BY <1>3 DEF OnAcceptParent
<1>5. /\ UNCHANGED <<bootstrap, parent_name, lost, crashed, pc, sent, pairs, got>>
      /\ UNCHANGED portVars
      /\ pending_children' = pending_children \ {c}
  BY DEF OnAcceptParent, userVars, portVars
<1>6. flushed \in Seq(PortsMessages)
  BY <1>1, FlushedType
<1>7. \A d \in Children : d \in Nodes /\ d # Parent /\ (ch = Boot(d) => d = c)
  BY BootChannel, BootIs
<1> HIDE DEF ch, w1
<1>8. /\ \A x, y \in Nodes :
           peers'[x][y] = IF x = Parent /\ y = c THEN ch ELSE peers[x][y]
      /\ peers' \in [Nodes -> [Nodes -> Channel \cup {NoChannel}]]
      /\ pending_messages' \in [Nodes -> [Nodes -> Seq(Nat)]]
      /\ \A x \in Nodes :
           reads'[x] = IF x = Parent THEN reads[x] \cup {ch} ELSE reads[x]
      /\ reads' \in [Nodes -> SUBSET Channel]
      /\ wire' = Write(w1, ch, Parent, flushed)
      /\ rejects' \subseteq rejects \cup (Nodes \X Channel)
      /\ down' = down
  <2> DEFINE r == rejects
  <2>1. AddPeer(Parent, c, ch, w1, r) /\ TypeOK /\ ch \in Channel
        /\ c \in Nodes /\ Parent \in Nodes
    BY <1>1, <1>4
  <2> HIDE DEF r
  <2> QED BY <2>1, AddEffect DEF r
<1> HIDE DEF flushed
<1>9. \A x \in Nodes : reads'[x] = reads[x]
  BY <1>3, <1>8
<1>10. \A x, y \in Children : peers'[x][y] = peers[x][y]
  BY <1>7, <1>8
<1>11. /\ flushed \in Seq(ToChild(c)) /\ flushed \in Seq(Plain(c))
       /\ flushed \in Seq(Carries(ch, c))
  <2>1. /\ PortsMessages \subseteq ToChild(c) /\ PortsMessages \subseteq Plain(c)
        /\ PortsMessages \subseteq Carries(ch, c)
    BY MessageTypes, CarriesBoot DEF ToChild, Plain, Handed, ch
  <2> QED BY <1>6, <2>1, SeqSub
<1>12. WireType(wire')
  BY <1>1, <1>3, <1>8, <1>11, WriteType
<1>13. NoGrants(wire, wire')
  <2>1. ConnectToPort \notin PortsMessages
    BY MessageTypes
  <2>2. NoGrants(w1, wire')
    BY <1>1, <1>3, <1>6, <1>8, <2>1, WriteNoGrants
  <2> QED BY <1>3, <2>2, NoGrantsTrans
<1>14. TypeOK'
  <2>1. rejects' \subseteq Nodes \X Channel
    BY <1>1, <1>8, TypeParts
  <2>2. ASSUME NEW x \in Nodes, NEW y \in Nodes, peers'[x][y] # NoChannel
        PROVE  Links(peers'[x][y], x, y)
    BY <1>1, <1>8, <2>2 DEF TypeOK
  <2>3. pending_children' \subseteq Children
    BY <1>1, <1>5, TypeParts
  <2> QED BY <1>1, <1>5, <1>8, <1>12, <2>1, <2>2, <2>3, PeerTypeFrame
             DEF TypeOK, portVars
<1>15. PcOK'
  BY <1>1, <1>5 DEF PcOK
<1>16. Taker'
  BY <1>1, <1>5, <1>13, TakerFrame
<1>17. \A x : Attached(x)' <=> Attached(x)
  BY <1>5 DEF Attached
<1>18. Static'
  <2>1. Losses'
    BY <1>1, <1>5, <1>8 DEF Static, Losses
  <2>2. Joins'
    <3>1. \A d \in Children : peers'[d][Parent] = peers[d][Parent]
                              /\ reads'[d] = reads[d]
      BY <1>1, <1>7, <1>8, <1>9
    <3> QED BY <1>1, <1>5, <3>1 DEF Static, Joins
  <2>3. Made'
    <3>1. pairs' = pairs /\ down' = down
      BY <1>5, <1>8
    <3>2. \A x \in Children : reads'[x] = reads[x]
      BY <1>7, <1>9
    <3>3. \A x \in Nodes : \A g \in reads'[x] :
            g[3] <= pairs' /\ x \in {g[1], g[2]}
      BY <1>1, <1>9, <3>1 DEF Static, Made
    <3> QED BY <1>1, <1>10, <1>17, <3>1, <3>2, <3>3 DEF Static, Made
  <2> QED BY <2>1, <2>2, <2>3 DEF Static
<1>19. ASSUME NEW d \in Children
       PROVE  /\ Outbox(d, wire') =
                   IF d = c THEN Tail(Outbox(c, wire)) ELSE Outbox(d, wire)
              /\ \/ Inbox(d, wire') = Inbox(d, wire)
                 \/ d = c /\ Inbox(d, wire') = Inbox(d, wire) \o flushed
  <2>1. /\ Outbox(d, w1) = IF ch = Boot(d) /\ Parent = Parent
                           THEN Tail(Outbox(d, wire)) ELSE Outbox(d, wire)
        /\ Inbox(d, w1) = IF ch = Boot(d) /\ Parent = d
                          THEN Tail(Inbox(d, wire)) ELSE Inbox(d, wire)
    BY <1>1, TakenBoxes DEF w1
  <2>2. /\ Inbox(d, wire') =
              IF ch = Boot(d) /\ Far(ch, Parent) = d /\ ch \notin down
              THEN Inbox(d, w1) \o flushed ELSE Inbox(d, w1)
        /\ Outbox(d, wire') =
              IF ch = Boot(d) /\ Far(ch, Parent) = Parent /\ ch \notin down
              THEN Outbox(d, w1) \o flushed ELSE Outbox(d, w1)
    BY <1>1, <1>3, <1>8, WriteBoxes
  <2> QED BY <1>1, <1>7, <2>1, <2>2 DEF ch
<1>20. ASSUME NEW d \in Children
       PROVE  SameHandles(Inbox(d, wire), Inbox(d, wire'))
  <2>1. Inbox(d, wire) \in Seq(Message)
    BY <1>1, BoxTypes
  <2>2. SameHandles(Inbox(d, wire), Inbox(d, wire))
    BY <2>1, SameSame
  <2>3. SameHandles(Inbox(d, wire), Inbox(d, wire) \o flushed)
    <3>1. \A m \in PortsMessages : ~ Handed(m)
      BY MessageTypes DEF Handed
    <3> QED BY <1>6, <2>1, <3>1, SameCat
  <2> QED BY <1>19, <2>2, <2>3
<1>21. Ordered(wire)'
  BY <1>1, <1>5, <1>10, <1>12, <1>20, OrderedFrame DEF WireInv
<1>22. Agree(wire)'
  BY <1>1, <1>8, <1>10, <1>17, <1>20, AgreeFrame DEF WireInv
<1>23. ASSUME NEW d \in Children \ crashed
       PROVE  (Offered(d, wire) \/ Answered(d, wire) \/ Accepted(d, wire))'
  <2>1. Offered(d, wire) \/ Answered(d, wire) \/ Accepted(d, wire)
    BY <1>1, <1>3 DEF WireInv, Joining
  <2>2. CASE d # c
    <3>1. /\ wire'[Boot(d)][d] = wire[Boot(d)][d]
          /\ wire'[Boot(d)][Parent] = wire[Boot(d)][Parent]
      BY <1>19, <2>2 DEF Inbox, Outbox
    <3>2. peers'[Parent][d] = peers[Parent][d]
      BY <1>1, <1>7, <1>8, <2>2
    <3>3. Boot(d) \in reads'[Parent] <=> Boot(d) \in reads[Parent]
      BY <1>1, <1>9
    <3>4. d \in pending_children' <=> d \in pending_children
      BY <1>5, <2>2
    <3> QED BY <1>5, <2>1, <3>1, <3>2, <3>3, <3>4, JoiningFrame
  <2>3. CASE d = c
    <3>1. Outbox(c, wire) # <<>>
      BY <1>3 DEF Outbox, ch
    <3>2. Answered(c, wire)
      BY <2>1, <2>3, <3>1 DEF Offered, Accepted
    <3>3. /\ Tail(Outbox(c, wire)) \in Seq(ToParent(c))
          /\ Inbox(c, wire) \in Seq(ToChild(c))
      BY <3>2 DEF Answered
    <3>4. Outbox(c, wire') \in Seq(ToParent(c))
      BY <1>19, <3>3
    <3>5. Inbox(c, wire') \in Seq(ToChild(c))
      <4>1. Inbox(c, wire) \o flushed \in Seq(ToChild(c))
        BY <1>11, <3>3, SeqCat
      <4> QED BY <1>19, <3>3, <4>1
    <3>6. /\ parent_name'[c] = Parent /\ peers'[Parent][c] # NoChannel
          /\ Boot(c) \in reads'[Parent]
      <4>1. ch # NoChannel
        BY BootChannel DEF ch
      <4> QED BY <1>1, <1>3, <1>5, <1>8, <1>9, <3>2, <4>1 DEF Answered, ch
    <3>7. Accepted(c, wire)'
      BY <3>4, <3>5, <3>6 DEF Accepted, Inbox, Outbox
    <3> QED BY <2>3, <3>7
  <2> QED BY <2>2, <2>3
<1>24. Joining(wire)'
  BY <1>5, <1>23 DEF Joining
<1>25. WireInv(wire)'
  BY <1>12, <1>21, <1>22, <1>24 DEF WireInv, WireType
<1> QED BY <1>14, <1>15, <1>16, <1>18, <1>25 DEF IInv

\* ... and what else it may find in an AcceptParent is of a child that is gone.
LEMMA LateAnswer ==
  ASSUME IInv, NEW c \in Children, Arrived(Parent, Boot(c), "AcceptParent"),
         c \notin pending_children \/ peers[Parent][c] # NoChannel
  PROVE  c \in crashed
<1>1. WireInv(wire) /\ WireType(wire) /\ TypeOK
  BY DEF IInv, WireInv
<1>2. /\ Parent \notin crashed /\ Outbox(c, wire) # <<>>
      /\ Head(Outbox(c, wire)).type = "AcceptParent"
  BY <1>1, ArrivedAt DEF Outbox
<1>3. ASSUME Outbox(c, wire) \in Seq(ToParent(c)) PROVE FALSE
  BY <1>2, <1>3, SeqTail, ToParentCases
<1>4. SUFFICES ASSUME c \notin crashed PROVE FALSE
  OBVIOUS
<1>5. Offered(c, wire) \/ Answered(c, wire) \/ Accepted(c, wire)
  BY <1>1, <1>2, <1>4 DEF WireInv, Joining
<1> QED BY <1>2, <1>3, <1>5 DEF Offered, Answered, Accepted

\* OnAcceptParent with an entry for the child: its process is dead.
LEMMA RefuseChildStep ==
  ASSUME IInv, NEW c \in Children, OnAcceptParent(c), c \in pending_children,
         peers[Parent][c] # NoChannel
  PROVE  IInv'
<1> DEFINE ch == Boot(c)
<1>1. /\ TypeOK /\ Static /\ PcOK /\ Taker /\ WireInv(wire) /\ WireType(wire)
      /\ c \in Nodes /\ Parent \in Nodes /\ ch \in Channel /\ ch \notin Pair
      /\ ch[3] = 0 /\ c # Parent
  BY BootChannel DEF IInv, WireInv
<1>2. Arrived(Parent, ch, "AcceptParent") /\ c \in crashed
  BY LateAnswer DEF OnAcceptParent
<1>3. /\ Parent \notin crashed /\ ch \in reads[Parent] /\ wire[ch][Parent] # <<>>
      /\ Head(wire[ch][Parent]).type = "AcceptParent"
      /\ WireType(Taken(Parent, ch)) /\ NoGrants(wire, Taken(Parent, ch))
      /\ Taken(Parent, ch) = TakenFrom(wire, Parent, ch)
  BY <1>1, <1>2, ArrivedAt
<1>4. /\ down' = down \cup {ch} /\ wire' = TakenFrom(wire, Parent, ch)
      /\ pending_children' = pending_children \ {c}
      /\ UNCHANGED <<rejects, peers, pending_messages, reads>>
  BY <1>3 DEF OnAcceptParent, AddPeer, peerVars
<1>5. /\ UNCHANGED <<bootstrap, parent_name, lost, crashed, pc, sent, pairs, got>>
      /\ UNCHANGED portVars
  BY DEF OnAcceptParent, userVars, portVars
<1>6. \A d \in Children : d \in Nodes /\ d # Parent /\ (ch = Boot(d) => d = c)
  BY BootChannel, BootIs
<1> HIDE DEF ch
<1>7. WireType(wire') /\ NoGrants(wire, wire')
  BY <1>3, <1>4
<1>8. TypeOK'
  <2>1. pending_children' \subseteq Children /\ down' \subseteq Channel
    BY <1>1, <1>4, TypeParts
  <2> QED BY <1>1, <1>4, <1>5, <1>7, <2>1, PeerTypeFrame DEF TypeOK, portVars
<1>9. PcOK'
  BY <1>1, <1>5 DEF PcOK
<1>10. Taker'
  BY <1>1, <1>5, <1>7, TakerFrame
<1>11. \A x : Attached(x)' <=> Attached(x)
  BY <1>5 DEF Attached
<1>12. Static'
  <2>1. Losses'
    BY <1>1, <1>2, <1>4, <1>5, <1>6 DEF Static, Losses
  <2>2. Joins'
    BY <1>1, <1>4, <1>5 DEF Static, Joins
  <2>3. Made'
    <3>1. ch[3] <= pairs
      BY <1>1, TypeParts
    <3> QED BY <1>1, <1>4, <1>5, <1>11, <3>1 DEF Static, Made
  <2> QED BY <2>1, <2>2, <2>3 DEF Static
<1>13. ASSUME NEW d \in Children
       PROVE  /\ Inbox(d, wire') = Inbox(d, wire)
              /\ d # c => Outbox(d, wire') = Outbox(d, wire)
              /\ SameHandles(Inbox(d, wire), Inbox(d, wire'))
  <2>1. /\ Inbox(d, wire') = Inbox(d, wire)
        /\ d # c => Outbox(d, wire') = Outbox(d, wire)
    BY <1>1, <1>4, <1>6, TakenBoxes
  <2> QED BY <1>1, <2>1, BoxTypes, SameSame
<1>14. Ordered(wire)'
  BY <1>1, <1>4, <1>5, <1>7, <1>13, OrderedFrame DEF WireInv
<1>15. Agree(wire)'
  <2>1. \A x, y \in Children : down' \cap Between(x, y) \subseteq down
    BY <1>1, <1>4 DEF Between
  <2> QED BY <1>1, <1>4, <1>11, <1>13, <2>1, AgreeFrame DEF WireInv
<1>16. ASSUME NEW d \in Children \ crashed
       PROVE  (Offered(d, wire) \/ Answered(d, wire) \/ Accepted(d, wire))'
  <2>1. Offered(d, wire) \/ Answered(d, wire) \/ Accepted(d, wire)
    BY <1>1, <1>3 DEF WireInv, Joining
  <2>2. d # c
    BY <1>2
  <2>3. /\ wire'[Boot(d)][d] = wire[Boot(d)][d]
        /\ wire'[Boot(d)][Parent] = wire[Boot(d)][Parent]
    BY <1>13, <2>2 DEF Inbox, Outbox
  <2>4. d \in pending_children' <=> d \in pending_children
    BY <1>4, <2>2
  <2> QED BY <1>4, <1>5, <2>1, <2>3, <2>4, JoiningFrame
<1>17. Joining(wire)'
  BY <1>5, <1>16 DEF Joining
<1>18. WireInv(wire)'
  BY <1>7, <1>14, <1>15, <1>17 DEF WireInv, WireType
<1> QED BY <1>8, <1>9, <1>10, <1>12, <1>18 DEF IInv

\* OnAcceptParent, in all three cases.
LEMMA OnAcceptParentStep ==
  ASSUME IInv, NEW c \in Children, OnAcceptParent(c)
  PROVE  IInv'
<1>1. CASE c \in pending_children
  BY <1>1, AddChildStep, RefuseChildStep
<1>2. CASE c \notin pending_children
  <2>1. /\ Arrived(Parent, Boot(c), "AcceptParent") /\ DropPeer(Parent, c)
        /\ UNCHANGED <<portVars, crashed, userVars, pairs, got>>
    BY <1>2 DEF OnAcceptParent
  <2>2. c \in crashed
    BY <1>2, <2>1, LateAnswer
  <2>3. Parent \notin crashed /\ Parent \in Nodes /\ c \in Nodes /\ c # Parent
    BY <2>1, BootChannel DEF Arrived, Live
  <2>4. Blamed(Parent, c)
    BY <2>2, <2>3 DEF Blamed, Attached
  <2> QED BY <2>1, <2>3, <2>4, DropStep
<1> QED BY <1>1, <1>2
-----------------------------------------------------------------------------
(* Introductions.                                                          *)

\* The state of joining, when only messages and other peers have changed.
LEMMA JoiningMoved ==
  ASSUME NEW v, Joining(v), UNCHANGED <<crashed, parent_name, pending_children>>,
         \A d \in Children :
           /\ peers'[Parent][d] = peers[Parent][d]
           /\ Boot(d) \in reads'[Parent] <=> Boot(d) \in reads[Parent]
           /\ Inbox(d, wire') = Inbox(d, v) /\ Outbox(d, wire') = Outbox(d, v)
  PROVE  Joining(wire)'
<1>1. ASSUME NEW d \in Children \ crashed, Parent \notin crashed
      PROVE  (Offered(d, wire) \/ Answered(d, wire) \/ Accepted(d, wire))'
  <2>1. Offered(d, v) \/ Answered(d, v) \/ Accepted(d, v)
    BY <1>1 DEF Joining
  <2>2. Inbox(d, wire)' = Inbox(d, v) /\ Outbox(d, wire)' = Outbox(d, v)
    BY DEF Inbox, Outbox
  <2> QED BY <2>1, <2>2 DEF Offered, Answered, Accepted
<1> QED BY <1>1 DEF Joining

\* The child takes an Introduce.
LEMMA TakeIntroduce ==
  ASSUME IInv, NEW c \in Children, Arrived(c, Boot(c), "Introduce"),
         NEW m, m = Head(wire[Boot(c)][c]), NEW v, v = TakenFrom(wire, c, Boot(c))
  PROVE  /\ c \notin crashed /\ m \in ToChild(c) /\ m.name \in Nodes
         /\ m = Introduce(m.name, m.handle)
         /\ m.handle # NoChannel =>
              /\ m.name \in Children /\ m.name # c
              /\ m.handle \in Between(c, m.name) /\ m.handle[3] <= pairs
         /\ WireType(v) /\ NoGrants(wire, v) /\ Joining(v)
         /\ Inbox(c, wire) # <<>> /\ m = Head(Inbox(c, wire))
         /\ Inbox(c, v) = Tail(Inbox(c, wire))
         /\ \A d \in Children : /\ d # c => Inbox(d, v) = Inbox(d, wire)
                                /\ Outbox(d, v) = Outbox(d, wire)
         /\ Taken(c, Boot(c)) = v
<1>1. TypeOK /\ WireInv(wire) /\ WireType(wire) /\ Joining(wire) /\ Ordered(wire)
  BY DEF IInv, WireInv
<1>2. c \in Nodes /\ Boot(c) \in Channel /\ c # Parent
  BY BootChannel
<1>3. /\ c \notin crashed /\ wire[Boot(c)][c] # <<>> /\ m.type = "Introduce"
      /\ m \in Carries(Boot(c), c)
      /\ WireType(v) /\ NoGrants(wire, v) /\ Taken(c, Boot(c)) = v
  BY <1>1, ArrivedAt
<1>4. m \in ToChild(c)
  BY <1>3, CarriesBoot, MessageTypes
<1>5. /\ m = Introduce(m.name, m.handle) /\ m.name \in Nodes
      /\ m.handle # NoChannel =>
           m.name \in Children /\ m.handle \in Between(c, m.name)
  BY <1>3, <1>4, ToChildCases
<1>6. Joining(v)
  <2>1. Head(wire[Boot(c)][c]).type \notin {"AcceptChild", "AcceptParent"}
    BY <1>3
  <2> QED BY <1>1, <1>2, <1>3, <2>1, TakeJoining
<1>7. Inbox(c, wire) # <<>> /\ m = Head(Inbox(c, wire))
  BY <1>3 DEF Inbox
<1>8. Inbox(c, v) = Tail(Inbox(c, wire))
  BY <1>1, <1>2, TakenBoxes
<1>9. ASSUME NEW d \in Children
      PROVE  /\ d # c => Inbox(d, v) = Inbox(d, wire)
             /\ Outbox(d, v) = Outbox(d, wire)
  BY <1>1, <1>2, TakenBoxes
<1>10. ASSUME m.handle # NoChannel
       PROVE  m.name # c /\ m.handle[3] <= pairs
  <2>1. Handed(m)
    BY <1>3, <1>10 DEF Handed
  <2>2. Inbox(c, wire)[1] = m /\ 1 \in DOMAIN Inbox(c, wire)
    BY <1>1, <1>7, BoxTypes, SeqTail
  <2>3. m.handle[3] <= pairs
    BY <1>1, <2>1, <2>2 DEF Ordered
  <2>4. m.handle \in Channel /\ Links(m.handle, c, m.name)
    BY <1>5, <1>10, PairChannel DEF Between
  <2> QED BY <2>3, <2>4, LinkedFar
<1> QED BY <1>3, <1>4, <1>5, <1>6, <1>7, <1>8, <1>9, <1>10

\* What is left of a sequence is in order, and after what was taken.
LEMMA OrderedTail ==
  ASSUME WireType(wire), Ordered(wire), NEW c \in Children, NEW v,
         Inbox(c, wire) # <<>>, Inbox(c, v) = Tail(Inbox(c, wire)),
         \A d \in Children : d # c => Inbox(d, v) = Inbox(d, wire)
  PROVE  /\ Ordered(v)
         /\ Handed(Head(Inbox(c, wire))) =>
              \A y, h : h # NoChannel /\ Has(Inbox(c, v), Introduce(y, h)) =>
                Head(Inbox(c, wire)).handle[3] < h[3]
<1> DEFINE s == Inbox(c, wire)
           t == Inbox(c, v)
<1>1. s \in Seq(Message) /\ s # <<>>
  BY BoxTypes
<1>2. t = Tail(s) /\ s[1] = Head(s) /\ 1 \in DOMAIN s
  BY <1>1, SeqTail
<1> HIDE DEF s, t
<1>3. \A i \in DOMAIN t : /\ i + 1 \in DOMAIN s /\ s[i + 1] = t[i]
                          /\ 1 < i + 1 /\ i \in Nat
  BY <1>1, <1>2
<1>4. ASSUME NEW d \in Children, NEW i \in DOMAIN Inbox(d, v),
             Handed(Inbox(d, v)[i])
      PROVE  Inbox(d, v)[i].handle[3] <= pairs
  <2>1. CASE d = c
    BY <1>3, <1>4, <2>1 DEF Ordered, s, t
  <2>2. CASE d # c
    BY <1>4, <2>2 DEF Ordered
  <2> QED BY <2>1, <2>2
<1>5. ASSUME NEW d \in Children, NEW i \in DOMAIN Inbox(d, v),
             NEW j \in DOMAIN Inbox(d, v), i < j,
             Handed(Inbox(d, v)[i]), Handed(Inbox(d, v)[j])
      PROVE  Inbox(d, v)[i].handle[3] < Inbox(d, v)[j].handle[3]
  <2>1. CASE d = c
    <3>1. i \in DOMAIN t /\ j \in DOMAIN t
      BY <1>5, <2>1 DEF t
    <3>2. i + 1 < j + 1
      BY <1>3, <1>5, <3>1
    <3> QED BY <1>3, <1>5, <2>1, <3>1, <3>2 DEF Ordered, s, t
  <2>2. CASE d # c
    BY <1>5, <2>2 DEF Ordered
  <2> QED BY <2>1, <2>2
<1>6. ASSUME NEW x \in Children, NEW y \in Children, peers[x][y] # NoChannel,
             NEW h \in Pair, Has(Inbox(x, v), Introduce(y, h))
      PROVE  peers[x][y][3] < h[3]
  <2>1. Has(Inbox(x, wire), Introduce(y, h))
    <3>1. CASE x = c
      BY <1>1, <1>2, <1>6, <3>1, HasTail DEF s, t
    <3>2. CASE x # c
      BY <1>6, <3>2
    <3> QED BY <3>1, <3>2
  <2> QED BY <1>6, <2>1 DEF Ordered
<1>7. ASSUME Handed(Head(s)), NEW y, NEW h, h # NoChannel, Has(t, Introduce(y, h))
      PROVE  Head(s).handle[3] < h[3]
  <2>1. PICK i \in DOMAIN t : t[i] = Introduce(y, h)
    BY <1>7 DEF Has
  <2>2. Handed(t[i]) /\ t[i].handle = h
    BY <1>7, <2>1, MessageTypes DEF Handed
  <2>3. /\ i + 1 \in DOMAIN s /\ s[i + 1] = t[i] /\ 1 < i + 1
        /\ 1 \in DOMAIN s /\ s[1] = Head(s)
    BY <1>2, <1>3, <2>1
  <2> QED BY <1>7, <2>2, <2>3 DEF Ordered, s
<1> QED BY <1>4, <1>5, <1>6, <1>7 DEF Ordered, s, t

\* An introduction is its name and its handle.
LEMMA IntroduceIs ==
  ASSUME NEW p, NEW q, NEW g, NEW h
  PROVE  Introduce(p, g) = Introduce(q, h) <=> p = q /\ g = h
<1> QED BY MessageTypes

\* Two children agree as long as they know the same and no channel is closed.
LEMMA AgreeKnown ==
  ASSUME Agree(wire), NEW x \in Children, NEW y \in Children, x # y,
         Attached(x), Attached(y),
         \A g \in Pair : /\ Knows(x, y, g, wire)' <=> Knows(x, y, g, wire)
                         /\ Knows(y, x, g, wire)' <=> Knows(y, x, g, wire),
         down' \cap Between(x, y) \subseteq down
  PROVE  Agreed(x, y, wire)'
<1>1. Agreed(x, y, wire)
  BY DEF Agree
<1>2. \A g \in Pair : Common(x, y, g, wire)' <=> Common(x, y, g, wire)
  BY DEF Common
<1>3. \A h \in down' \cap Between(x, y) : h \in down \cap Between(x, y)
  OBVIOUS
<1> QED BY <1>1, <1>2, <1>3 DEF Agreed

\* A child takes the first channel to another as its own.
LEMMA AdoptStep ==
  ASSUME IInv, NEW c \in Children, Arrived(c, Boot(c), "Introduce"),
         NEW m, m = Head(wire[Boot(c)][c]), NEW v, v = TakenFrom(wire, c, Boot(c)),
         m.handle # NoChannel, peers[c][m.name] = NoChannel,
         AddPeer(c, m.name, m.handle, v, rejects),
         UNCHANGED <<bootstrap, parent_name, pending_children, lost, crashed, pc,
                     sent, pairs, got, portVars>>
  PROVE  IInv'
<1> DEFINE y == m.name
           h == m.handle
           flushed == Flushed(c, y)
<1>1. /\ TypeOK /\ Static /\ PcOK /\ Taker /\ WireInv(wire) /\ WireType(wire)
      /\ Ordered(wire) /\ Agree(wire)
  BY DEF IInv, WireInv
<1>2. c \in Nodes /\ Boot(c) \in Channel /\ c # Parent /\ Parent \notin Children
  BY BootChannel, ParentAssumption
<1>3. /\ c \notin crashed /\ y \in Nodes /\ m = Introduce(y, h)
      /\ y \in Children /\ y # c /\ h \in Between(c, y) /\ h[3] <= pairs
      /\ WireType(v) /\ NoGrants(wire, v) /\ Joining(v)
      /\ Inbox(c, wire) # <<>> /\ m = Head(Inbox(c, wire))
      /\ Inbox(c, v) = Tail(Inbox(c, wire))
      /\ \A d \in Children : /\ d # c => Inbox(d, v) = Inbox(d, wire)
                             /\ Outbox(d, v) = Outbox(d, wire)
  BY TakeIntroduce
<1>4. h \in Pair /\ Links(h, c, y) /\ h # NoChannel
  BY <1>3 DEF Between
<1>5. /\ h \in Channel /\ Far(h, c) = y /\ c \in {h[1], h[2]} /\ y \in {h[1], h[2]}
      /\ \A d : Links(h, c, d) => d = y
  BY <1>4, PairChannel, LinkedFar
<1>6. flushed \in Seq(PortsMessages)
  BY <1>1, <1>2, <1>3, FlushedType
<1>7. AddPeer(c, y, h, v, rejects) /\ peers[c][y] = NoChannel
  OBVIOUS
<1> HIDE DEF y, h
<1>8. /\ \A p, q \in Nodes :
           peers'[p][q] = IF p = c /\ q = y THEN h ELSE peers[p][q]
      /\ peers' \in [Nodes -> [Nodes -> Channel \cup {NoChannel}]]
      /\ pending_messages' \in [Nodes -> [Nodes -> Seq(Nat)]]
      /\ \A p \in Nodes :
           reads'[p] = IF p = c THEN reads[p] \cup {h} ELSE reads[p]
      /\ reads' \in [Nodes -> SUBSET Channel]
      /\ wire' = Write(v, h, c, flushed)
      /\ rejects' \subseteq rejects \cup (Nodes \X Channel)
      /\ down' = down
  <2> DEFINE r == rejects
  <2>1. AddPeer(c, y, h, v, r) /\ TypeOK /\ h \in Channel /\ c \in Nodes
        /\ y \in Nodes
    BY <1>1, <1>2, <1>3, <1>5, <1>7
  <2> HIDE DEF r, flushed
  <2>2. peers[c][y] = NoChannel
    BY <1>7
  <2>3. /\ \A p, q \in Nodes :
             peers'[p][q] = IF p = c /\ q = y THEN h ELSE peers[p][q]
        /\ peers' \in [Nodes -> [Nodes -> Channel \cup {NoChannel}]]
        /\ pending_messages' \in [Nodes -> [Nodes -> Seq(Nat)]]
        /\ \A p \in Nodes :
             reads'[p] = IF p = c THEN reads[p] \cup {h} ELSE reads[p]
        /\ reads' \in [Nodes -> SUBSET Channel]
        /\ wire' = Write(v, h, c, Flushed(c, y))
        /\ rejects' \subseteq r \cup (Nodes \X Channel)
        /\ down' = down
    BY ONLY <2>1, <2>2, AddEffect
  <2> QED BY <2>3 DEF r, flushed
<1> HIDE DEF flushed
<1>p. \A p, q \in Nodes :
        peers'[p][q] = IF p = c /\ q = y THEN h ELSE peers[p][q]
  BY <1>8
<1>r. \A p \in Nodes :
        reads'[p] = IF p = c THEN reads[p] \cup {h} ELSE reads[p]
  BY <1>8
<1>9. \A d \in Children : d \in Nodes /\ d # Parent
  BY BootChannel
<1>10. WireType(wire')
  <2>1. flushed \in Seq(Carries(h, Far(h, c)))
    BY <1>4, <1>5, <1>6 DEF Carries
  <2> QED BY <1>3, <1>5, <1>8, <2>1, WriteType
<1>11. NoGrants(wire, wire')
  <2>1. ConnectToPort \notin PortsMessages
    BY MessageTypes
  <2>2. NoGrants(v, wire')
    BY <1>3, <1>5, <1>6, <1>8, <2>1, WriteNoGrants
  <2> QED BY <1>3, <2>2, NoGrantsTrans
<1>12. TypeOK'
  <2>1. rejects' \subseteq Nodes \X Channel
    BY <1>1, <1>8, TypeParts
  <2>2. ASSUME NEW p \in Nodes, NEW q \in Nodes, peers'[p][q] # NoChannel
        PROVE  Links(peers'[p][q], p, q)
    <3>1. peers[p][q] # NoChannel => Links(peers[p][q], p, q)
      BY <1>1 DEF TypeOK
    <3> QED BY <1>4, <1>p, <2>2, <3>1
  <2> QED BY <1>1, <1>8, <1>10, <2>1, <2>2, PeerTypeFrame DEF TypeOK, portVars
<1>13. PcOK'
  BY <1>1 DEF PcOK
<1>14. Taker'
  BY <1>1, <1>11, TakerFrame
<1>15. \A x : Attached(x)' <=> Attached(x)
  BY DEF Attached
<1>16. \A d \in Children : Inbox(d, wire') = Inbox(d, v) /\ Outbox(d, wire') = Outbox(d, v)
  <2>1. \A d \in Children : h # Boot(d)
    BY <1>4, BootChannel
  <2> QED BY <1>3, <1>5, <1>8, <2>1, WriteBoxes
<1>17. Static'
  <2>1. Losses'
    BY <1>1, <1>8 DEF Static, Losses
  <2>2. Joins'
    <3>1. ASSUME NEW d \in Children
          PROVE  /\ peers'[d][Parent] = peers[d][Parent]
                 /\ Boot(d) \in reads'[d] <=> Boot(d) \in reads[d]
      <4>1. h # Boot(d) /\ Parent \in Nodes /\ d \in Nodes /\ y # Parent
        BY <1>2, <1>3, <1>4, BootChannel
      <4>2. peers'[d][Parent] = peers[d][Parent]
        BY <1>p, <4>1
      <4>3. Boot(d) \in reads'[d] <=> Boot(d) \in reads[d]
        BY <1>r, <4>1
      <4> QED BY <4>2, <4>3
    <3> QED BY <1>1, <3>1 DEF Static, Joins
  <2>3. Made'
    <3>1. \A n \in Nodes : \A g \in reads'[n] :
            g[3] <= pairs' /\ n \in {g[1], g[2]}
      <4>1. h[3] <= pairs /\ c \in {h[1], h[2]}
        BY <1>3, <1>5
      <4>2. \A n \in Nodes : \A g \in reads[n] :
              g[3] <= pairs /\ n \in {g[1], g[2]}
        BY <1>1 DEF Static, Made
      <4>3. SUFFICES ASSUME NEW n \in Nodes, NEW g \in reads'[n]
                     PROVE  g[3] <= pairs' /\ n \in {g[1], g[2]}
        OBVIOUS
      <4>4. g \in reads[n] \/ (n = c /\ g = h)
        BY <1>r, <4>3
      <4>5. pairs' = pairs
        OBVIOUS
      <4> QED BY <4>1, <4>2, <4>4, <4>5
    <3>2. \A p, q \in Children : peers'[p][q] # NoChannel => peers'[p][q][3] <= pairs'
      <4>1. h[3] <= pairs
        BY <1>3
      <4> QED BY <1>1, <1>p, <1>9, <4>1 DEF Static, Made
    <3>3. ASSUME NEW p \in Children, NEW q \in Children, p # q, Attached(p)',
                 Attached(q)', NEW g \in reads'[p] \cap Between(p, q)
          PROVE  peers'[p][q] = g
      <4>1. g \in Pair /\ Links(g, p, q) /\ g # NoChannel
        BY PairChannel DEF Between
      <4>2. CASE g \in reads[p]
        <5>1. peers[p][q] = g
          BY <1>1, <1>15, <3>3, <4>2 DEF Static, Made
        <5> QED BY <1>7, <1>8, <1>9, <4>1, <5>1
      <4>3. CASE g \notin reads[p]
        <5>1. p = c /\ g = h
          BY <1>8, <1>9, <4>3
        <5>2. q = y
          BY <1>5, <4>1, <5>1
        <5> QED BY <1>8, <1>9, <5>1, <5>2
      <4> QED BY <4>2, <4>3
    <3> QED BY <1>1, <1>8, <3>1, <3>2, <3>3 DEF Static, Made
  <2> QED BY <2>1, <2>2, <2>3 DEF Static
<1>18. /\ Ordered(v)
       /\ \A q, g : g # NoChannel /\ Has(Inbox(c, v), Introduce(q, g)) => h[3] < g[3]
  <2>1. Handed(m) /\ m.handle = h
    <3>1. m = Introduce(y, h)
      BY <1>3
    <3> QED BY <1>4, <3>1, MessageTypes DEF Handed
  <2> QED BY <1>1, <1>3, <2>1, OrderedTail
<1>19. Ordered(wire)'
  <2>1. ASSUME NEW p \in Children, NEW q \in Children, peers'[p][q] # NoChannel,
               NEW g \in Pair, Has(Inbox(p, wire'), Introduce(q, g))
        PROVE  peers'[p][q][3] < g[3]
    <3>1. Has(Inbox(p, v), Introduce(q, g)) /\ g # NoChannel
      BY <1>16, <2>1, PairChannel
    <3>2. CASE p = c /\ q = y
      BY <1>8, <1>9, <1>18, <3>1, <3>2
    <3>3. CASE ~ (p = c /\ q = y)
      <4>1. peers'[p][q] = peers[p][q]
        BY <1>8, <1>9, <3>3
      <4> QED BY <1>18, <2>1, <3>1, <4>1 DEF Ordered
    <3> QED BY <3>2, <3>3
  <2>2. \A d \in Children : Inbox(d, wire)' = Inbox(d, v)
    BY <1>16 DEF Inbox
  <2>3. \A d \in Children : Inbox(d, wire)' = Inbox(d, wire')
    BY DEF Inbox
  <2> QED BY <1>18, <2>1, <2>2, <2>3 DEF Ordered
<1>20. ASSUME NEW p \in Children, NEW q \in Children, NEW g \in Pair
       PROVE  Knows(p, q, g, wire)' <=> Knows(p, q, g, wire)
  <2>1. /\ Inbox(p, wire)' = Inbox(p, v) /\ g # NoChannel
        /\ Inbox(p, wire) \in Seq(Message)
    BY <1>1, <1>16, PairChannel, BoxTypes DEF Inbox
  <2>2. CASE p # c
    <3>1. peers'[p][q] = peers[p][q] /\ Inbox(p, v) = Inbox(p, wire)
      BY <1>3, <1>8, <1>9, <2>2
    <3> QED BY <2>1, <3>1 DEF Knows
  <2>3. CASE p = c
    <3>1. /\ Has(Tail(Inbox(c, wire)), Introduce(q, g)) =>
               Has(Inbox(c, wire), Introduce(q, g))
          /\ Has(Inbox(c, wire), Introduce(q, g)) /\ Introduce(q, g) # m =>
               Has(Tail(Inbox(c, wire)), Introduce(q, g))
      BY <1>3, <2>1, <2>3, HasTail
    <3>2. Has(Inbox(c, wire), m)
      BY <1>3, <2>1, <2>3, HasHead
    <3>3. Introduce(q, g) = m <=> q = y /\ g = h
      <4>1. m = Introduce(y, h)
        BY <1>3
      <4> QED BY <4>1, IntroduceIs
    <3>4. peers'[c][q] = IF q = y THEN h ELSE peers[c][q]
      BY <1>2, <1>8, <1>9
    <3> QED BY <1>3, <1>7, <2>1, <2>3, <3>1, <3>2, <3>3, <3>4 DEF Knows
  <2> QED BY <2>2, <2>3
<1>21. Agree(wire)'
  <2> SUFFICES ASSUME NEW p \in Children, NEW q \in Children, p # q,
                      Attached(p)', Attached(q)'
               PROVE  Agreed(p, q, wire)'
    BY DEF Agree
  <2>1. Attached(p) /\ Attached(q) /\ down' \cap Between(p, q) \subseteq down
    BY <1>8, <1>15
  <2> QED BY <1>1, <1>20, <2>1, AgreeKnown
<1>22. Joining(wire)'
  <2>1. ASSUME NEW d \in Children
        PROVE  /\ peers'[Parent][d] = peers[Parent][d]
               /\ Boot(d) \in reads'[Parent] <=> Boot(d) \in reads[Parent]
    BY <1>2, <1>8, <1>9, BootChannel
  <2> QED BY <1>3, <1>16, <2>1, JoiningMoved
<1>23. WireInv(wire)'
  BY <1>10, <1>19, <1>21, <1>22 DEF WireInv, WireType
<1> QED BY <1>12, <1>13, <1>14, <1>17, <1>23 DEF IInv

\* It closes every other one: the two have an older one, on which they agree.
LEMMA RefuseStep ==
  ASSUME IInv, NEW c \in Children, Arrived(c, Boot(c), "Introduce"),
         NEW m, m = Head(wire[Boot(c)][c]), NEW v, v = TakenFrom(wire, c, Boot(c)),
         m.handle # NoChannel, peers[c][m.name] # NoChannel,
         down' = down \cup {m.handle}, wire' = v,
         UNCHANGED <<rejects, peers, pending_messages, reads,
                     bootstrap, parent_name, pending_children, lost, crashed, pc,
                     sent, pairs, got, portVars>>
  PROVE  IInv'
<1> DEFINE y == m.name
           h == m.handle
           Ends(p, q) == (p = c /\ q = y) \/ (p = y /\ q = c)
<1>1. /\ TypeOK /\ Static /\ PcOK /\ Taker /\ WireInv(wire) /\ WireType(wire)
      /\ Ordered(wire) /\ Agree(wire)
  BY DEF IInv, WireInv
<1>2. c \in Nodes /\ Boot(c) \in Channel /\ c # Parent
  BY BootChannel
<1>3. /\ c \notin crashed /\ y \in Nodes /\ m = Introduce(y, h)
      /\ y \in Children /\ y # c /\ h \in Between(c, y) /\ h[3] <= pairs
      /\ WireType(v) /\ NoGrants(wire, v) /\ Joining(v)
      /\ Inbox(c, wire) # <<>> /\ m = Head(Inbox(c, wire))
      /\ Inbox(c, v) = Tail(Inbox(c, wire))
      /\ \A d \in Children : /\ d # c => Inbox(d, v) = Inbox(d, wire)
                             /\ Outbox(d, v) = Outbox(d, wire)
  BY TakeIntroduce
<1>4. /\ h \in Pair /\ Links(h, c, y) /\ h # NoChannel
      /\ down' = down \cup {h} /\ peers[c][y] # NoChannel
  BY <1>3 DEF Between
<1> HIDE DEF y, h
<1>5. h \in Channel /\ (\A p, q : Links(h, p, q) => Ends(p, q))
  BY <1>4, PairChannel DEF Links
<1>6. TypeOK'
  <2>1. down' \subseteq Channel
    BY <1>1, <1>4, <1>5, TypeParts
  <2> QED BY <1>1, <1>3, <2>1, PeerTypeFrame DEF TypeOK, portVars
<1>7. PcOK'
  BY <1>1 DEF PcOK
<1>8. Taker'
  BY <1>1, <1>3, TakerFrame
<1>9. \A x : Attached(x)' <=> Attached(x)
  BY DEF Attached
<1>10. Static'
  <2>1. Losses'
    <3>1. \A d \in Children : h # Boot(d)
      BY <1>4, BootChannel
    <3> QED BY <1>1, <1>4, <3>1 DEF Static, Losses
  <2>2. Joins'
    BY <1>1 DEF Static, Joins
  <2>3. Made'
    BY <1>1, <1>3, <1>4, <1>9 DEF Static, Made
  <2> QED BY <2>1, <2>2, <2>3 DEF Static
<1>11. Ordered(wire)'
  <2>1. Ordered(v)
    BY <1>1, <1>3, OrderedTail
  <2> QED BY <2>1 DEF Ordered, Inbox
<1>12. ASSUME NEW p \in Children, NEW q \in Children, NEW g \in Pair
       PROVE  /\ Knows(p, q, g, wire)' => Knows(p, q, g, wire)
              /\ Knows(p, q, g, wire) /\ ~ (p = c /\ q = y /\ g = h) =>
                   Knows(p, q, g, wire)'
  <2>1. Inbox(p, wire)' = Inbox(p, v) /\ Inbox(p, wire) \in Seq(Message)
    BY <1>1, BoxTypes DEF Inbox
  <2>2. CASE p # c
    BY <1>3, <2>1, <2>2 DEF Knows
  <2>3. CASE p = c
    <3>1. /\ Has(Tail(Inbox(c, wire)), Introduce(q, g)) =>
               Has(Inbox(c, wire), Introduce(q, g))
          /\ Has(Inbox(c, wire), Introduce(q, g)) /\ Introduce(q, g) # m =>
               Has(Tail(Inbox(c, wire)), Introduce(q, g))
      BY <1>3, <2>1, <2>3, HasTail
    <3>2. Introduce(q, g) = m => q = y /\ g = h
      <4>1. m = Introduce(y, h)
        BY <1>3
      <4> QED BY <4>1, IntroduceIs
    <3> QED BY <1>3, <2>1, <2>3, <3>1, <3>2 DEF Knows
  <2> QED BY <2>2, <2>3
\* Two that agree on f with an older one than h agree after the step.
<1>13. ASSUME NEW p \in Children, NEW q \in Children, Ends(p, q),
              Attached(p), Attached(q)
       PROVE  Agreed(p, q, wire)'
  <2>1. p # q /\ Agreed(p, q, wire) /\ ((p = c /\ q = y) \/ (p = y /\ q = c))
    <3>1. c # y
      BY <1>3
    <3>2. p # q /\ ((p = c /\ q = y) \/ (p = y /\ q = c))
      BY <1>13, <3>1
    <3> QED BY <1>1, <1>13, <3>2 DEF Agree
  <2>2. Agreed(c, y, wire)
    BY <1>1, <1>13, <2>1 DEF Agree
  <2>3. /\ peers[c][y] \in Pair /\ peers[c][y][3] < h[3]
    <3>1. peers[c][y] \in Pair
      BY <1>1, <1>2, <1>3, <1>4, PeerChannel, BootChannel
    <3>2. Has(Inbox(c, wire), Introduce(y, h))
      <4>1. Inbox(c, wire) \in Seq(Message)
        BY <1>1, BoxTypes
      <4> QED BY <1>3, <4>1, HasHead
    <3> QED BY <1>1, <1>3, <1>4, <3>1, <3>2 DEF Ordered
  <2>4. PICK f0 \in Pair : Common(c, y, f0, wire) /\ f0[3] <= peers[c][y][3]
    BY <2>2, <2>3 DEF Agreed, Knows
  <2>5. f0[3] \in Nat /\ h[3] \in Nat /\ peers[c][y][3] \in Nat
    BY <1>4, <2>3, PairChannel
  <2>6. f0[3] < h[3] /\ f0 # h
    BY <2>3, <2>4, <2>5
  <2>7. ASSUME NEW f \in Pair, Common(p, q, f, wire), f # h
        PROVE  Common(p, q, f, wire)'
    BY <1>12, <2>7 DEF Common
  <2>8. Common(p, q, f0, wire)'
    <3>1. Common(p, q, f0, wire)
      BY <2>1, <2>4 DEF Common
    <3> QED BY <2>6, <2>7, <3>1
  <2>9. ASSUME NEW g \in Pair, Knows(p, q, g, wire)'
        PROVE  \E f \in Pair : Common(p, q, f, wire)' /\ f[3] <= g[3]
    <3>1. Knows(p, q, g, wire) /\ g[3] \in Nat
      BY <1>12, <2>9, PairChannel
    <3>2. PICK f \in Pair : Common(p, q, f, wire) /\ f[3] <= g[3]
      BY <2>1, <3>1 DEF Agreed
    <3>3. CASE f = h
      BY <2>5, <2>6, <2>8, <3>1, <3>2, <3>3
    <3>4. CASE f # h
      BY <2>7, <3>2, <3>4
    <3> QED BY <3>3, <3>4
  <2>10. ASSUME NEW g \in down' \cap Between(p, q)
         PROVE  \E f \in Pair : Common(p, q, f, wire)' /\ f[3] < g[3]
    <3>1. CASE g = h
      BY <2>6, <2>8, <3>1
    <3>2. CASE g # h
      <4>1. g \in down \cap Between(p, q) /\ g[3] \in Nat
        BY <1>4, <2>10, <3>2, PairChannel DEF Between
      <4>2. PICK f \in Pair : Common(p, q, f, wire) /\ f[3] < g[3]
        BY <2>1, <4>1 DEF Agreed
      <4>3. CASE f = h
        BY <2>5, <2>6, <2>8, <4>1, <4>2, <4>3
      <4>4. CASE f # h
        BY <2>7, <4>2, <4>4
      <4> QED BY <4>3, <4>4
    <3> QED BY <3>1, <3>2
  <2> QED BY <2>9, <2>10 DEF Agreed
<1>14. Agree(wire)'
  <2> SUFFICES ASSUME NEW p \in Children, NEW q \in Children, p # q,
                      Attached(p)', Attached(q)'
               PROVE  Agreed(p, q, wire)'
    BY DEF Agree
  <2>1. Attached(p) /\ Attached(q)
    BY <1>9
  <2>2. CASE Ends(p, q)
    BY <1>13, <2>1, <2>2
  <2>3. CASE ~ Ends(p, q)
    <3>1. down' \cap Between(p, q) \subseteq down
      BY <1>4, <1>5, <2>3 DEF Between
    <3>2. \A g \in Pair : /\ Knows(p, q, g, wire)' <=> Knows(p, q, g, wire)
                          /\ Knows(q, p, g, wire)' <=> Knows(q, p, g, wire)
      BY <1>12, <2>3
    <3> QED BY <1>1, <2>1, <3>1, <3>2, AgreeKnown
  <2> QED BY <2>2, <2>3
<1>15. Joining(wire)'
  BY <1>3, JoiningMoved
<1>16. WireInv(wire)'
  BY <1>3, <1>11, <1>14, <1>15 DEF WireInv, WireType
<1> QED BY <1>6, <1>7, <1>8, <1>10, <1>16 DEF IInv

\* OnIntroduce: no handle, adopted or refused.
LEMMA OnIntroduceStep ==
  ASSUME IInv, NEW c \in Children, OnIntroduce(c)
  PROVE  IInv'
<1> DEFINE m == Head(wire[Boot(c)][c])
           v == TakenFrom(wire, c, Boot(c))
<1>1. TypeOK /\ WireInv(wire) /\ c \in Nodes /\ Boot(c) \in Channel
  BY BootChannel DEF IInv
<1>2. Arrived(c, Boot(c), "Introduce")
  BY DEF OnIntroduce
<1>3. RemoteNodeName(c, Boot(c)) = parent_name[c]
  BY BootFar DEF RemoteNodeName
<1>4. Taken(c, Boot(c)) = v /\ m.name \in Nodes
  BY <1>2, TakeIntroduce
<1>5. /\ IF m.handle # NoChannel
         THEN AddPeer(c, m.name, m.handle, v, rejects)
         ELSE /\ pending_messages' = [pending_messages EXCEPT ![c][m.name] = <<>>]
              /\ wire' = v
              /\ UNCHANGED <<peers, reads, down, rejects>>
      /\ UNCHANGED <<bootstrap, parent_name, pending_children, lost, crashed, pc,
                     sent, pairs, got, portVars>>
  BY <1>3, <1>4 DEF OnIntroduce, joinVars, userVars
<1>6. CASE m.handle # NoChannel
  <2>1. AddPeer(c, m.name, m.handle, v, rejects)
    BY <1>5, <1>6
  <2>2. CASE peers[c][m.name] = NoChannel
    BY <1>2, <1>5, <1>6, <2>1, <2>2, AdoptStep
  <2>3. CASE peers[c][m.name] # NoChannel
    <3>1. /\ down' = down \cup {m.handle} /\ wire' = v
          /\ UNCHANGED <<rejects, peers, pending_messages, reads>>
      BY <2>1, <2>3 DEF AddPeer, peerVars
    <3> QED BY <1>2, <1>5, <1>6, <2>3, <3>1, RefuseStep
  <2> QED BY <2>2, <2>3
<1>7. CASE m.handle = NoChannel
  <2>1. /\ pending_messages' = [pending_messages EXCEPT ![c][m.name] = <<>>]
        /\ wire' = v /\ UNCHANGED <<peers, reads, down, rejects>>
    BY <1>5, <1>7
  <2>2. /\ wire[Boot(c)][c] # <<>> /\ ~ Handed(m)
        /\ m.type \notin {"AcceptChild", "AcceptParent"}
    BY <1>2, <1>7 DEF Arrived, Handed
  <2>3. WireInv(wire')
    BY <1>1, <2>1, <2>2, TakeStep
  <2>4. NoGrants(wire, wire')
    BY <1>1, <2>1, <2>2, TakenNoGrants DEF WireInv
  <2>5. Quiet /\ UNCHANGED <<pc, sent, got>> /\ UNCHANGED portVars
    BY <1>5, <2>1 DEF Quiet
  <2>6. pending_messages' \in [Nodes -> [Nodes -> Seq(Nat)]]
    <3>1. /\ <<>> \in Seq(Nat)
          /\ pending_messages \in [Nodes -> [Nodes -> Seq(Nat)]]
      BY <1>1, TypeParts
    <3> QED BY <1>1, <1>4, <2>1, <3>1
  <2>7. TypeOK'
    BY <1>1, <2>1, <2>3, <2>5, <2>6, TypeFrame DEF portVars, TypeOK
  <2>8. PcOK'
    BY <2>5 DEF IInv, PcOK
  <2> QED BY <2>3, <2>4, <2>5, <2>7, <2>8, QuietStep
<1> QED BY <1>6, <1>7

\* One more message at the end of a queue, ...
LEMMA HasAppend ==
  ASSUME NEW S, NEW s \in Seq(S), NEW x, NEW t, t = s \o <<x>>
  PROVE  \A m : Has(t, m) <=> Has(s, m) \/ m = x
<1> SUFFICES ASSUME NEW m PROVE Has(s \o <<x>>, m) <=> Has(s, m) \/ m = x
  OBVIOUS
<1> DEFINE T == {x}
<1>1. <<x>> \in Seq(T)
  OBVIOUS
<1>2. Has(<<x>>, m) <=> m = x
  BY DEF Has
<1> HIDE DEF T
<1>3. Has(s \o <<x>>, m) <=> Has(s, m) \/ Has(<<x>>, m)
  BY <1>1, HasCat
<1> QED BY <1>2, <1>3

\* ... and the places before it.
LEMMA AppendAt ==
  ASSUME NEW S, NEW s \in Seq(S), NEW x, NEW t, t = s \o <<x>>
  PROVE  /\ \A i \in DOMAIN t : i \in DOMAIN s => t[i] = s[i]
         /\ \A i \in DOMAIN t : i \notin DOMAIN s => t[i] = x
         /\ \A i, j \in DOMAIN t : i < j => i \in DOMAIN s
<1> QED OBVIOUS

\* The parent makes a channel for two of its children and sends out its ends.
LEMMA IntroduceStep ==
  ASSUME IInv, NEW c \in Children, NEW name \in Children, c # name,
         Parent \notin crashed,
         peers[Parent][c] # NoChannel, peers[Parent][name] # NoChannel,
         NEW w1, WireInv(w1), NoGrants(wire, w1),
         NEW h, h = <<c, name, pairs + 1>>, pairs < MaxPairs, pairs' = pairs + 1,
         wire' = Write(Write(w1, Boot(c), Parent, <<Introduce(name, h)>>),
                       Boot(name), Parent, <<Introduce(c, h)>>),
         down' = IF {Boot(c), Boot(name)} \cap down = {} THEN down
                 ELSE down \cup {h},
         rejects' \subseteq Nodes \X Channel,
         UNCHANGED <<peers, pending_messages, reads, bootstrap, parent_name,
                     pending_children, lost, crashed, pc, sent, got, portVars>>
  PROVE  IInv'
<1> DEFINE x1 == Introduce(name, h)
           x2 == Introduce(c, h)
           w2 == Write(w1, Boot(c), Parent, <<x1>>)
           Other(d) == IF d = c THEN name ELSE c
<1>1. /\ TypeOK /\ Static /\ PcOK /\ Taker
      /\ WireType(w1) /\ Joining(w1) /\ Ordered(w1) /\ Agree(w1)
  BY DEF IInv, WireInv
<1>2. /\ c \in Nodes /\ name \in Nodes /\ Parent \in Nodes /\ c # Parent
      /\ name # Parent /\ Boot(c) \in Channel /\ Boot(name) \in Channel
      /\ Far(Boot(c), Parent) = c /\ Far(Boot(name), Parent) = name
      /\ Boot(c) # Boot(name)
  BY BootChannel, BootFar, BootIs
<1>3. pairs \in Nat /\ pairs + 1 \in 1 .. MaxPairs /\ MaxPairs \in Nat
  BY <1>1, TypeParts, BoundsAssumption
<1>4. h[1] = c /\ h[2] = name /\ h[3] = pairs + 1 /\ h \in Pair
  BY <1>3 DEF Pair
<1>5. /\ h # NoChannel /\ h \in Channel /\ Links(h, c, name)
      /\ \A p, q : Links(h, p, q) => (p = c /\ q = name) \/ (p = name /\ q = c)
      /\ Far(h, c) = name /\ Far(h, name) = c
  BY <1>4, PairChannel DEF Links, Far
<1>6. x1 \in ToChild(c) /\ x2 \in ToChild(name)
  BY <1>4, <1>5 DEF ToChild
<1>7. /\ Handed(x1) /\ x1.handle = h /\ Handed(x2) /\ x2.handle = h
      /\ x1 # ConnectToPort /\ x2 # ConnectToPort
  BY <1>5, MessageTypes DEF Handed
<1>8. \A q, g : /\ Introduce(q, g) = x1 <=> q = name /\ g = h
                /\ Introduce(q, g) = x2 <=> q = c /\ g = h
  BY IntroduceIs
<1>9. wire' = Write(w2, Boot(name), Parent, <<x2>>)
  OBVIOUS
<1>10. h \notin down
  BY <1>1, <1>3, <1>4 DEF Static, Made
<1> HIDE DEF x1, x2, w2
<1>11. WireType(w2) /\ WireType(wire')
  <2>1. <<x1>> \in Seq(Carries(Boot(c), c)) /\ <<x2>> \in Seq(Carries(Boot(name), name))
    BY <1>6, CarriesBoot, SeqOne
  <2>2. WireType(w2)
    BY <1>1, <1>2, <2>1, WriteType DEF w2
  <2> QED BY <1>2, <1>9, <2>1, <2>2, WriteType
<1>12. NoGrants(wire, wire')
  <2> DEFINE T1 == {x1}
             T2 == {x2}
  <2>1. /\ <<x1>> \in Seq(T1) /\ <<x2>> \in Seq(T2)
        /\ ConnectToPort \notin T1 /\ ConnectToPort \notin T2
    BY <1>7
  <2> HIDE DEF T1, T2
  <2>2. NoGrants(w1, w2)
    BY <1>1, <1>2, <2>1, WriteNoGrants DEF w2
  <2>3. NoGrants(w2, wire')
    BY <1>2, <1>9, <1>11, <2>1, WriteNoGrants
  <2> QED BY <2>2, <2>3, NoGrantsTrans
<1>13. ASSUME NEW d \in Children
       PROVE  /\ Outbox(d, wire') = Outbox(d, w1)
              /\ Inbox(d, wire') =
                   IF d = c /\ Boot(c) \notin down THEN Inbox(d, w1) \o <<x1>>
                   ELSE IF d = name /\ Boot(name) \notin down
                   THEN Inbox(d, w1) \o <<x2>> ELSE Inbox(d, w1)
  <2>1. (Boot(c) = Boot(d) => d = c) /\ (Boot(name) = Boot(d) => d = name)
    BY BootIs
  <2>2. /\ Inbox(d, w2) =
              IF Boot(c) = Boot(d) /\ c = d /\ Boot(c) \notin down
              THEN Inbox(d, w1) \o <<x1>> ELSE Inbox(d, w1)
        /\ Outbox(d, w2) = Outbox(d, w1)
    BY <1>1, <1>2, WriteBoxes DEF w2
  <2>3. /\ Inbox(d, wire') =
              IF Boot(name) = Boot(d) /\ name = d /\ Boot(name) \notin down
              THEN Inbox(d, w2) \o <<x2>> ELSE Inbox(d, w2)
        /\ Outbox(d, wire') = Outbox(d, w2)
    BY <1>2, <1>9, <1>11, WriteBoxes
  <2> QED BY <2>1, <2>2, <2>3
\* So that a child gets nothing new, or its end of h.
<1>14. ASSUME NEW d \in Children
       PROVE  /\ Inbox(d, w1) \in Seq(Message)
              /\ \/ Inbox(d, wire') = Inbox(d, w1)
                 \/ /\ d \in {c, name}
                    /\ Inbox(d, wire') = Inbox(d, w1) \o <<Introduce(Other(d), h)>>
              /\ d \in {c, name} /\ Boot(d) \notin down =>
                   Inbox(d, wire') = Inbox(d, w1) \o <<Introduce(Other(d), h)>>
              /\ d \in {c, name} => Introduce(Other(d), h) \in ToChild(d)
  <2>1. Inbox(d, w1) \in Seq(Message)
    BY <1>1, BoxTypes
  <2>2. d = c => Introduce(Other(d), h) = x1
    BY DEF x1
  <2>3. d = name => Introduce(Other(d), h) = x2
    BY DEF x2
  <2> QED BY <1>6, <1>13, <2>1, <2>2, <2>3
<1>15. \A d : Handed(Introduce(Other(d), h)) /\ Introduce(Other(d), h).handle = h
  BY <1>5, MessageTypes DEF Handed
<1>16. \A d, q, g : Introduce(q, g) = Introduce(Other(d), h) <=> q = Other(d) /\ g = h
  BY IntroduceIs
<1>17. \A d \in {c, name} : Other(d) \in {c, name} /\ Other(d) # d /\ Other(Other(d)) = d
  OBVIOUS
<1> DEFINE End(d) == Introduce(Other(d), h)
<1>e. /\ \A d : Handed(End(d)) /\ End(d).handle = h
      /\ \A d, q, g : Introduce(q, g) = End(d) <=> q = Other(d) /\ g = h
      /\ \A d \in {c, name} : End(d) \in ToChild(d)
  BY <1>14, <1>15, <1>16
<1>f. ASSUME NEW d \in Children
      PROVE  /\ \/ Inbox(d, wire') = Inbox(d, w1)
                \/ d \in {c, name} /\ Inbox(d, wire') = Inbox(d, w1) \o <<End(d)>>
             /\ d \in {c, name} /\ Boot(d) \notin down =>
                  Inbox(d, wire') = Inbox(d, w1) \o <<End(d)>>
  BY <1>14
<1> HIDE DEF Other, End
<1>g. ASSUME NEW d \in Children, Inbox(d, wire') = Inbox(d, w1) \o <<End(d)>>
      PROVE  /\ \A i \in DOMAIN Inbox(d, wire') : i \in DOMAIN Inbox(d, w1) =>
                  Inbox(d, wire')[i] = Inbox(d, w1)[i]
             /\ \A i \in DOMAIN Inbox(d, wire') : i \notin DOMAIN Inbox(d, w1) =>
                  Inbox(d, wire')[i] = End(d)
             /\ \A i, j \in DOMAIN Inbox(d, wire') :
                  i < j => i \in DOMAIN Inbox(d, w1)
             /\ \A m : Has(Inbox(d, wire'), m) <=> Has(Inbox(d, w1), m) \/ m = End(d)
  <2> DEFINE s == Inbox(d, w1)
             t == Inbox(d, wire')
  <2>1. s \in Seq(Message) /\ t = s \o <<End(d)>>
    BY <1>14, <1>g
  <2> HIDE DEF s, t
  <2> SUFFICES /\ \A i \in DOMAIN t : i \in DOMAIN s => t[i] = s[i]
               /\ \A i \in DOMAIN t : i \notin DOMAIN s => t[i] = End(d)
               /\ \A i, j \in DOMAIN t : i < j => i \in DOMAIN s
               /\ \A m : Has(t, m) <=> Has(s, m) \/ m = End(d)
    BY DEF s, t
  <2>2. /\ \A i \in DOMAIN t : i \in DOMAIN s => t[i] = s[i]
        /\ \A i \in DOMAIN t : i \notin DOMAIN s => t[i] = End(d)
        /\ \A i, j \in DOMAIN t : i < j => i \in DOMAIN s
    BY ONLY <2>1, AppendAt
  <2>3. \A m : Has(t, m) <=> Has(s, m) \/ m = End(d)
    <3> SUFFICES ASSUME NEW m PROVE Has(t, m) <=> Has(s, m) \/ m = End(d)
      OBVIOUS
    <3>1. s \in Seq(Message) /\ t = s \o <<End(d)>>
      BY <2>1
    <3> DEFINE x == End(d)
    <3> HIDE DEF x
    <3>2. t = s \o <<x>>
      BY <2>1 DEF x
    <3>3. Has(t, m) <=> Has(s, m) \/ m = x
      BY ONLY <3>1, <3>2, HasAppend
    <3> QED BY <3>3 DEF x
  <2> QED BY <2>2, <2>3
<1>18. TypeOK'
  <2>1. down' \subseteq Channel
    BY <1>1, <1>5, TypeParts
  <2>2. pairs' \in 0 .. MaxPairs
    BY <1>3
  <2> QED BY <1>1, <1>11, <2>1, <2>2, PeerTypeFrame DEF TypeOK, portVars
<1>19. PcOK'
  BY <1>1 DEF PcOK
<1>20. Taker'
  BY <1>1, <1>12, TakerFrame
<1>21. \A x : Attached(x)' <=> Attached(x)
  BY DEF Attached
<1>22. down' \subseteq down \cup {h}
  OBVIOUS
<1>23. Static'
  <2>1. Losses'
    <3>1. \A d \in Children : h # Boot(d)
      BY <1>4, BootChannel
    <3>2. \A d \in Children : Boot(d) \in down' => Boot(d) \in down
      BY <1>22, <3>1
    <3> QED BY <1>1, <3>2 DEF Static, Losses
  <2>2. Joins'
    BY <1>1 DEF Static, Joins
  <2>3. Made'
    <3>1. \A g \in down' : g[3] <= pairs'
      <4>1. SUFFICES ASSUME NEW g \in down' PROVE g[3] <= pairs + 1
        OBVIOUS
      <4>2. CASE g = h
        BY <1>3, <1>4, <4>2
      <4>3. CASE g \in down
        <5>1. g[3] <= pairs /\ g[3] \in Nat
          BY <1>1, <4>3, TypeParts, ChannelEnds DEF Static, Made
        <5> QED BY <1>3, <5>1
      <4> QED BY <1>22, <4>2, <4>3
    <3>2. ASSUME NEW n \in Nodes, NEW g \in reads'[n]
          PROVE  g[3] <= pairs' /\ n \in {g[1], g[2]}
      <4>1. g[3] <= pairs /\ g[3] \in Nat /\ n \in {g[1], g[2]}
        BY <1>1, TypeParts, ChannelEnds DEF Static, Made
      <4> QED BY <1>3, <4>1
    <3>3. ASSUME NEW p \in Children, NEW q \in Children, peers'[p][q] # NoChannel
          PROVE  peers'[p][q][3] <= pairs'
      <4>1. p \in Nodes /\ q \in Nodes
        BY BootChannel
      <4>2. peers[p][q][3] <= pairs /\ peers[p][q] \in Channel
        BY <1>1, <3>3, <4>1, TypeParts DEF Static, Made
      <4>3. peers[p][q][3] \in Nat
        BY <4>2, ChannelEnds
      <4> QED BY <1>3, <4>2, <4>3
    <3> QED BY <1>1, <1>21, <3>1, <3>2, <3>3 DEF Static, Made
  <2> QED BY <2>1, <2>2, <2>3 DEF Static
\* The numbers of the handles that are on their way already.
<1>24. ASSUME NEW d \in Children, NEW i \in DOMAIN Inbox(d, w1),
              Handed(Inbox(d, w1)[i])
       PROVE  /\ Inbox(d, w1)[i].handle[3] \in Nat
              /\ Inbox(d, w1)[i].handle[3] <= pairs
  <2>1. d \in Nodes /\ Boot(d) \in Channel
    BY BootChannel
  <2>2. w1[Boot(d)][d] \in Seq(Carries(Boot(d), d))
    BY <1>1, <2>1 DEF WireType
  <2>3. Inbox(d, w1)[i] \in Carries(Boot(d), d)
    BY <1>24, <2>2, SeqIn DEF Inbox
  <2>4. Inbox(d, w1)[i].handle \in Pair
    BY <1>24, <2>1, <2>3, HandedTo
  <2> QED BY <1>1, <1>24, <2>4, PairChannel DEF Ordered
<1>25. Ordered(wire)'
  <2>1. ASSUME NEW d \in Children, NEW i \in DOMAIN Inbox(d, wire'),
               Handed(Inbox(d, wire')[i])
        PROVE  Inbox(d, wire')[i].handle[3] <= pairs + 1
    <3>1. CASE Inbox(d, wire') = Inbox(d, w1)
      BY <1>3, <1>24, <2>1, <3>1
    <3>2. CASE Inbox(d, wire') = Inbox(d, w1) \o <<End(d)>>
      <4>1. CASE i \in DOMAIN Inbox(d, w1)
        <5>1. Inbox(d, wire')[i] = Inbox(d, w1)[i]
          BY <1>g, <3>2, <4>1
        <5> QED BY <1>3, <1>24, <2>1, <4>1, <5>1
      <4>2. CASE i \notin DOMAIN Inbox(d, w1)
        <5>1. Inbox(d, wire')[i] = End(d)
          BY <1>g, <3>2, <4>2
        <5> QED BY <1>3, <1>4, <1>e, <5>1
      <4> QED BY <4>1, <4>2
    <3> QED BY <1>f, <3>1, <3>2
  <2>2. ASSUME NEW d \in Children, NEW i \in DOMAIN Inbox(d, wire'),
               NEW j \in DOMAIN Inbox(d, wire'), i < j,
               Handed(Inbox(d, wire')[i]), Handed(Inbox(d, wire')[j])
        PROVE  Inbox(d, wire')[i].handle[3] < Inbox(d, wire')[j].handle[3]
    <3>1. CASE Inbox(d, wire') = Inbox(d, w1)
      BY <1>1, <2>2, <3>1 DEF Ordered
    <3>2. CASE Inbox(d, wire') = Inbox(d, w1) \o <<End(d)>>
      <4>1. i \in DOMAIN Inbox(d, w1) /\ Inbox(d, wire')[i] = Inbox(d, w1)[i]
        BY <1>g, <2>2, <3>2
      <4>2. CASE j \in DOMAIN Inbox(d, w1)
        <5>1. Inbox(d, wire')[j] = Inbox(d, w1)[j]
          BY <1>g, <3>2, <4>2
        <5> QED BY <1>1, <2>2, <4>1, <4>2, <5>1 DEF Ordered
      <4>3. CASE j \notin DOMAIN Inbox(d, w1)
        <5>1. Inbox(d, wire')[j] = End(d)
          BY <1>g, <3>2, <4>3
        <5>2. /\ Inbox(d, w1)[i].handle[3] \in Nat
              /\ Inbox(d, w1)[i].handle[3] <= pairs
          BY <1>24, <2>2, <4>1
        <5> QED BY <1>3, <1>4, <1>e, <4>1, <5>1, <5>2
      <4> QED BY <4>2, <4>3
    <3> QED BY <1>f, <3>1, <3>2
  <2>3. ASSUME NEW p \in Children, NEW q \in Children, peers[p][q] # NoChannel,
               NEW g \in Pair, Has(Inbox(p, wire'), Introduce(q, g))
        PROVE  peers[p][q][3] < g[3]
    <3>1. CASE Has(Inbox(p, w1), Introduce(q, g))
      BY <1>1, <2>3, <3>1 DEF Ordered
    <3>2. CASE ~ Has(Inbox(p, w1), Introduce(q, g))
      <4>1. g = h
        <5>1. Inbox(p, wire') # Inbox(p, w1)
          BY <2>3, <3>2
        <5>2. Inbox(p, wire') = Inbox(p, w1) \o <<End(p)>>
          BY <1>f, <5>1
        <5>3. Introduce(q, g) = End(p)
          BY <1>g, <2>3, <3>2, <5>2
        <5> QED BY <1>e, <5>3
      <4>2. p \in Nodes /\ q \in Nodes
        BY BootChannel
      <4>3. peers[p][q][3] <= pairs /\ peers[p][q] \in Channel
        BY <1>1, <2>3, <4>2, TypeParts DEF Static, Made
      <4>4. peers[p][q][3] \in Nat
        BY <4>3, ChannelEnds
      <4> QED BY <1>3, <1>4, <4>1, <4>3, <4>4
    <3> QED BY <3>1, <3>2
  <2>4. \A d : Inbox(d, wire)' = Inbox(d, wire')
    BY DEF Inbox
  <2> QED BY <2>1, <2>2, <2>3, <2>4 DEF Ordered
<1>26. ASSUME NEW p \in Children, NEW q \in Children, NEW g \in Pair
       PROVE  /\ Knows(p, q, g, w1) => Knows(p, q, g, wire)'
              /\ Knows(p, q, g, wire)' =>
                   \/ Knows(p, q, g, w1)
                   \/ g = h /\ p \in {c, name} /\ q = Other(p)
  <2>1. Inbox(p, wire)' = Inbox(p, wire')
    BY DEF Inbox
  <2>2. Has(Inbox(p, w1), Introduce(q, g)) => Has(Inbox(p, wire'), Introduce(q, g))
    BY <1>f, <1>g
  <2>3. Has(Inbox(p, wire'), Introduce(q, g)) =>
          \/ Has(Inbox(p, w1), Introduce(q, g))
          \/ g = h /\ p \in {c, name} /\ q = Other(p)
    <3>1. SUFFICES ASSUME Has(Inbox(p, wire'), Introduce(q, g)),
                          ~ Has(Inbox(p, w1), Introduce(q, g))
                   PROVE  g = h /\ p \in {c, name} /\ q = Other(p)
      OBVIOUS
    <3>2. Inbox(p, wire') # Inbox(p, w1)
      BY <3>1
    <3>3. p \in {c, name} /\ Inbox(p, wire') = Inbox(p, w1) \o <<End(p)>>
      BY <1>f, <3>2
    <3>4. Introduce(q, g) = End(p)
      BY <1>g, <3>1, <3>3
    <3> QED BY <1>e, <3>3, <3>4
  <2> QED BY <2>1, <2>2, <2>3 DEF Knows
<1>27. ASSUME NEW p \in {c, name}, Attached(p)
       PROVE  Boot(p) \notin down /\ Knows(p, Other(p), h, wire)'
  <2>1. p \in Children /\ p \notin crashed
    BY <1>27 DEF Attached
  <2>2. Boot(p) \notin down
    BY <1>1, <2>1 DEF Static, Losses
  <2>3. Has(Inbox(p, wire'), Introduce(Other(p), h))
    <3>1. Inbox(p, wire') = Inbox(p, w1) \o <<End(p)>>
      BY <1>f, <2>1, <2>2
    <3>2. Has(Inbox(p, wire'), End(p))
      BY <1>g, <2>1, <3>1
    <3> QED BY <3>2 DEF End
  <2>4. Inbox(p, wire)' = Inbox(p, wire')
    BY DEF Inbox
  <2> QED BY <2>2, <2>3, <2>4 DEF Knows
<1>28. ASSUME NEW p \in Children, NEW q \in Children, p # q, Attached(p), Attached(q)
       PROVE  Agreed(p, q, wire)'
  <2>1. Agreed(p, q, w1)
    BY <1>1, <1>28 DEF Agree
  <2>2. \A f \in Pair : Common(p, q, f, w1) => Common(p, q, f, wire)'
    BY <1>26 DEF Common
  <2>3. ASSUME p \in {c, name}, q = Other(p)
        PROVE  Common(p, q, h, wire)' /\ down' = down
    <3>1. q \in {c, name} /\ Other(q) = p
      BY <1>17, <2>3
    <3>2. Boot(p) \notin down /\ Boot(q) \notin down
      BY <1>27, <1>28, <2>3, <3>1
    <3>3. Knows(p, q, h, wire)' /\ Knows(q, p, h, wire)'
      BY <1>27, <1>28, <2>3, <3>1
    <3>4. Boot(c) \notin down /\ Boot(name) \notin down
      BY <1>17, <2>3, <3>1, <3>2 DEF Other
    <3> QED BY <3>3, <3>4 DEF Common
  <2>4. ASSUME NEW g \in Pair, Knows(p, q, g, wire)'
        PROVE  \E f \in Pair : Common(p, q, f, wire)' /\ f[3] <= g[3]
    <3>1. CASE Knows(p, q, g, w1)
      BY <2>1, <2>2, <3>1 DEF Agreed
    <3>2. CASE ~ Knows(p, q, g, w1)
      <4>1. g = h /\ Common(p, q, h, wire)'
        BY <1>26, <2>3, <2>4, <3>2
      <4>2. g[3] <= g[3]
        BY <1>3, <1>4, <4>1
      <4> QED BY <4>1, <4>2
    <3> QED BY <3>1, <3>2
  <2>5. ASSUME NEW g \in down' \cap Between(p, q)
        PROVE  \E f \in Pair : Common(p, q, f, wire)' /\ f[3] < g[3]
    <3>1. g \in down
      <4>1. SUFFICES ASSUME g = h PROVE FALSE
        BY <1>22
      <4>2. (p = c /\ q = name) \/ (p = name /\ q = c)
        BY <1>5, <4>1 DEF Between
      <4>3. p \in {c, name} /\ q = Other(p)
        BY <4>2 DEF Other
      <4> QED BY <1>10, <2>3, <4>1, <4>3
    <3> QED BY <2>1, <2>2, <3>1 DEF Agreed
  <2> QED BY <2>4, <2>5 DEF Agreed
<1>29. Agree(wire)'
  BY <1>21, <1>28 DEF Agree
<1>30. ASSUME NEW d \in Children \ crashed
       PROVE  (Offered(d, wire) \/ Answered(d, wire) \/ Accepted(d, wire))'
  <2>1. Offered(d, w1) \/ Answered(d, w1) \/ Accepted(d, w1)
    BY <1>1 DEF Joining
  <2>2. /\ Inbox(d, wire)' = Inbox(d, wire') /\ Outbox(d, wire)' = Outbox(d, w1)
    BY <1>13 DEF Inbox, Outbox
  <2>3. CASE Inbox(d, wire') = Inbox(d, w1)
    BY <2>1, <2>2, <2>3 DEF Offered, Answered, Accepted
  <2>4. CASE Inbox(d, wire') # Inbox(d, w1)
    <3>1. /\ d \in {c, name} /\ End(d) \in ToChild(d)
          /\ Inbox(d, wire') = Inbox(d, w1) \o <<End(d)>>
      BY <1>e, <1>f, <2>4
    <3>2. Accepted(d, w1)
      BY <2>1, <3>1 DEF Offered, Answered
    <3>3. Inbox(d, wire') \in Seq(ToChild(d))
      <4>1. Inbox(d, w1) \in Seq(ToChild(d))
        BY <3>2 DEF Accepted
      <4>2. <<End(d)>> \in Seq(ToChild(d))
        BY <3>1, SeqOne
      <4> QED BY <3>1, <4>1, <4>2, SeqCat
    <3> QED BY <2>2, <3>2, <3>3 DEF Accepted
  <2> QED BY <2>3, <2>4
<1>31. Joining(wire)'
  BY <1>30 DEF Joining
<1>32. WireInv(wire)'
  BY <1>11, <1>25, <1>29, <1>31 DEF WireInv, WireType
<1> QED BY <1>18, <1>19, <1>20, <1>23, <1>32 DEF IInv

\* OnRequestIntroduction: nobody of that name, or a new channel to both.
LEMMA OnRequestIntroductionStep ==
  ASSUME IInv, NEW c \in Children, OnRequestIntroduction(c)
  PROVE  IInv'
<1> DEFINE ch == Boot(c)
           name == Head(wire[ch][Parent]).name
           w1 == TakenFrom(wire, Parent, ch)
<1>1. /\ TypeOK /\ Static /\ PcOK /\ Taker /\ WireInv(wire) /\ WireType(wire)
      /\ c \in Nodes /\ Parent \in Nodes /\ ch \in Channel /\ c # Parent
  BY BootChannel DEF IInv, WireInv
<1>2. Arrived(Parent, ch, "RequestIntroduction")
  BY DEF OnRequestIntroduction
<1>3. /\ Parent \notin crashed /\ wire[ch][Parent] # <<>>
      /\ Head(wire[ch][Parent]).type = "RequestIntroduction"
      /\ Head(wire[ch][Parent]) \in Carries(ch, Parent)
      /\ NoGrants(wire, w1) /\ Taken(Parent, ch) = w1
  BY <1>1, <1>2, ArrivedAt
<1>4. name \in Nodes \ {c}
  <2>1. Head(wire[ch][Parent]) \in ToParent(c)
    BY <1>3, CarriesBoot, MessageTypes
  <2> QED BY <1>3, <2>1, ToParentCases
<1>5. /\ GetPeerChannel(Parent, c) = peers[Parent][c]
      /\ GetPeerChannel(Parent, name) = peers[Parent][name]
  BY <1>1, <1>4, NoNodeIs DEF GetPeerChannel
<1>6. WireInv(w1)
  <2>1. /\ ~ Handed(Head(wire[ch][Parent]))
        /\ Head(wire[ch][Parent]).type \notin {"AcceptChild", "AcceptParent"}
    BY <1>3 DEF Handed
  <2> QED BY <1>1, <1>3, <2>1, TakeStep
<1>7. CASE peers[Parent][c] = NoChannel
  <2>1. c \in crashed
    <3>1. SUFFICES ASSUME c \notin crashed PROVE FALSE
      OBVIOUS
    <3>2. Offered(c, wire) \/ Answered(c, wire) \/ Accepted(c, wire)
      BY <1>1, <1>3, <3>1 DEF WireInv, Joining
    <3>3. Outbox(c, wire) # <<>> /\ Head(Outbox(c, wire)) # AcceptParent
      BY <1>3, MessageTypes DEF Outbox
    <3> QED BY <1>7, <3>2, <3>3 DEF Offered, Answered, Accepted
  <2>2. /\ DropPeer(Parent, c)
        /\ UNCHANGED <<portVars, crashed, userVars, pairs, got>>
    BY <1>5, <1>7 DEF OnRequestIntroduction
  <2>3. Blamed(Parent, c)
    BY <1>1, <2>1 DEF Blamed, Attached
  <2> QED BY <1>1, <1>3, <2>2, <2>3, DropStep
<1>8. CASE peers[Parent][c] # NoChannel
  <2>1. peers[Parent][c] = ch
    BY <1>1, <1>8, PeerChannel
  <2>2. UNCHANGED <<peers, pending_messages, reads, bootstrap, parent_name,
                    pending_children, lost, crashed, pc, sent, got, portVars>>
    BY <1>4, <1>5, <1>8 DEF OnRequestIntroduction, peerVars, joinVars, userVars
  <2>3. CASE peers[Parent][name] = NoChannel
    <3>1. /\ wire' = Write(w1, ch, Parent, <<Introduce(name, NoChannel)>>)
          /\ rejects' = rejects \cup Rejected(ch, Parent)
          /\ UNCHANGED <<pairs, down>>
      BY <1>3, <1>4, <1>5, <1>8, <2>1, <2>3 DEF OnRequestIntroduction
    <3>2. Introduce(name, NoChannel) \in Plain(c)
      BY <1>4, MessageTypes DEF Plain, ToChild, Handed
    <3>3. <<Introduce(name, NoChannel)>> \in Seq(Plain(c))
      BY <3>2, SeqOne
    <3>4. WireInv(wire')
      BY <1>6, <1>8, <3>1, <3>3, WriteDown
    <3>5. NoGrants(wire, wire')
      <4> DEFINE T == {Introduce(name, NoChannel)}
      <4>1. /\ <<Introduce(name, NoChannel)>> \in Seq(T)
            /\ ConnectToPort \notin T /\ WireType(w1)
        BY <1>6, MessageTypes DEF WireInv
      <4> HIDE DEF T
      <4>2. NoGrants(w1, wire')
        BY <1>1, <3>1, <4>1, WriteNoGrants
      <4> QED BY <1>3, <4>2, NoGrantsTrans
    <3>6. Quiet /\ UNCHANGED <<pending_messages, pc, sent, got>> /\ UNCHANGED portVars
      BY <2>2, <3>1 DEF Quiet
    <3>7. rejects' \subseteq Nodes \X Channel
      BY <1>1, <3>1, RejectedType, TypeParts
    <3>8. TypeOK'
      BY <1>1, <3>4, <3>6, <3>7, TypeFrame DEF portVars, TypeOK
    <3>9. PcOK'
      BY <1>1, <3>6 DEF PcOK
    <3> QED BY <3>4, <3>5, <3>6, <3>8, <3>9, QuietStep
  <2>4. CASE peers[Parent][name] # NoChannel
    <3> DEFINE h == <<c, name, pairs + 1>>
    <3>1. name \in Children /\ peers[Parent][name] = Boot(name)
      BY <1>1, <1>4, <2>4, PeerChannel
    <3>2. /\ pairs < MaxPairs /\ pairs' = pairs + 1
          /\ wire' = IntroduceBoth(w1, c, name, h)
          /\ rejects' = rejects \cup Rejected(ch, Parent)
                                \cup Rejected(Boot(name), Parent)
          /\ down' = IF {ch, Boot(name)} \cap down = {} THEN down
                     ELSE down \cup {h}
      BY <1>3, <1>4, <1>5, <1>8, <2>1, <2>4, <3>1 DEF OnRequestIntroduction
    <3>3. wire' = Write(Write(w1, Boot(c), Parent, <<Introduce(name, h)>>),
                        Boot(name), Parent, <<Introduce(c, h)>>)
      BY <2>1, <3>1, <3>2 DEF IntroduceBoth
    <3>4. rejects' \subseteq Nodes \X Channel
      <4>1. Boot(name) \in Channel
        BY <3>1, BootChannel
      <4>2. /\ Rejected(ch, Parent) \subseteq Nodes \X Channel
            /\ Rejected(Boot(name), Parent) \subseteq Nodes \X Channel
        BY <1>1, <4>1, RejectedType
      <4>3. rejects \subseteq Nodes \X Channel
        BY <1>1, TypeParts
      <4> QED BY <3>2, <4>2, <4>3
    <3>5. down' = IF {Boot(c), Boot(name)} \cap down = {} THEN down
                  ELSE down \cup {h}
      BY <3>2
    <3>6. c # name
      BY <1>4
    <3> HIDE DEF name, w1
    <3> QED BY <1>3, <1>6, <1>8, <2>2, <2>4, <3>1, <3>2, <3>3, <3>4, <3>5, <3>6,
               IntroduceStep
  <2> QED BY <2>3, <2>4
<1> QED BY <1>7, <1>8
-----------------------------------------------------------------------------
(* The initial state, and the theorems.                                    *)

\* The invariant holds before anybody is launched.
LEMMA InitHolds == Init => IInv
<1> SUFFICES ASSUME Init PROVE IInv
  OBVIOUS
<1>1. /\ peers = [n \in Nodes |-> [m \in Nodes |-> NoChannel]]
      /\ pending_messages = [n \in Nodes |-> [m \in Nodes |-> <<>>]]
      /\ pending_children = {} /\ bootstrap = {}
      /\ parent_name = [c \in Children |-> NoNode]
      /\ wire = [ch \in Channel |-> [n \in Nodes |-> <<>>]]
      /\ reads = [n \in Nodes |-> {}]
      /\ down = {} /\ rejects = {} /\ pairs = 0 /\ crashed = {}
      /\ lost = [n \in Nodes |-> {}]
      /\ reserved = {} /\ requests = {} /\ connections = {}
      /\ port_peer = [t \in Tokens |-> NoNode]
      /\ local_port = [c \in Children |-> "uninitialized"]
      /\ pc = [n \in Nodes |-> Idle]
      /\ sent = [n \in Nodes |-> [m \in Nodes |-> 0]]
      /\ got = [n \in Nodes |-> [m \in Nodes |-> 0]]
  BY DEF Init
<1>2. \A c \in Children : /\ c \in Nodes /\ Boot(c) \in Channel /\ Parent \in Nodes
                          /\ c # Parent
  BY BootChannel
<1>3. WireType(wire)
  <2>1. wire \in [Channel -> [Nodes -> Seq(Message)]]
    <3>1. <<>> \in Seq(Message)
      OBVIOUS
    <3> QED BY <1>1, <3>1
  <2>2. ASSUME NEW ch \in Channel, NEW n \in Nodes
        PROVE  wire[ch][n] \in Seq(Carries(ch, n))
    <3>1. wire[ch][n] = <<>>
      BY <1>1
    <3> QED BY <3>1
  <2> QED BY <2>1, <2>2 DEF WireType
<1>4. \A c \in Children : Inbox(c, wire) = <<>> /\ Outbox(c, wire) = <<>>
  BY <1>1, <1>2 DEF Inbox, Outbox
<1>5. TypeOK
  <2>1. /\ peers \in [Nodes -> [Nodes -> Channel \cup {NoChannel}]]
        /\ \A n, m \in Nodes : peers[n][m] = NoChannel
    BY <1>1
  <2>2. pending_messages \in [Nodes -> [Nodes -> Seq(Nat)]]
    <3>1. <<>> \in Seq(Nat)
      OBVIOUS
    <3> QED BY <1>1, <3>1
  <2>3. /\ parent_name \in [Children -> {Parent, NoNode}]
        /\ reads \in [Nodes -> SUBSET Channel]
        /\ lost \in [Nodes -> SUBSET (Nodes \cup {NoNode})]
        /\ port_peer \in [Tokens -> Nodes \cup {NoNode}]
        /\ local_port \in [Children -> {"uninitialized", "initialized", "closed"}]
    BY <1>1
  <2>4. pc \in [Nodes -> [at : {"idle", "queue", "ask"}, to : Nodes \cup {NoNode}]]
    BY <1>1 DEF Idle
  <2>5. sent \in [Nodes -> [Nodes -> Nat]] /\ got \in [Nodes -> [Nodes -> Nat]]
    BY <1>1
  <2>6. /\ pending_children \subseteq Children /\ bootstrap \subseteq Children
        /\ down \subseteq Channel /\ rejects \subseteq Nodes \X Channel
        /\ pairs \in 0 .. MaxPairs /\ crashed \subseteq Nodes \cap Mortal
        /\ reserved \subseteq Tokens /\ requests \subseteq Children
        /\ connections \subseteq Children
    BY <1>1, BoundsAssumption
  <2>7. wire \in [Channel -> [Nodes -> Seq(Message)]]
    BY <1>3 DEF WireType
  <2> QED BY <2>1, <2>2, <2>3, <2>4, <2>5, <2>6, <2>7 DEF TypeOK
<1>6. PcOK
  <2>1. \A n \in Nodes : pc[n].at = "idle"
    BY <1>1 DEF Idle
  <2> QED BY <2>1 DEF PcOK
<1>7. \A x, y \in Nodes : peers[x][y] = NoChannel
  BY <1>1
<1>8. Static
  <2>1. Losses
    BY <1>1 DEF Losses
  <2>2. Joins
    BY <1>1, <1>2, <1>7 DEF Joins
  <2>3. Made
    BY <1>1, <1>2, <1>7 DEF Made
  <2> QED BY <2>1, <2>2, <2>3 DEF Static
<1>9. Taker
  <2>1. Granted(wire)
    <3>1. \A ch \in Channel, c \in Children : wire[ch][c] = <<>>
      BY <1>1, <1>2
    <3> QED BY <3>1 DEF Granted, Has
  <2>2. \A c \in Children : local_port[c] # "initialized"
    BY <1>1
  <2> QED BY <1>1, <2>1, <2>2 DEF Taker
<1>10. Joining(wire)
  <2>1. ASSUME NEW c \in Children PROVE Offered(c, wire)
    BY <1>1, <1>2, <1>4, <1>7 DEF Offered
  <2> QED BY <2>1 DEF Joining
<1>11. Ordered(wire)
  BY <1>2, <1>4, <1>7 DEF Ordered, Has
<1>12. Agree(wire)
  <2>1. ASSUME NEW x \in Children, NEW y \in Children, NEW h \in Pair
        PROVE  ~ Knows(x, y, h, wire)
    BY <1>2, <1>4, <1>7, PairChannel DEF Knows, Has
  <2> QED BY <1>1, <2>1 DEF Agree, Agreed
<1> QED BY <1>3, <1>5, <1>6, <1>8, <1>9, <1>10, <1>11, <1>12 DEF IInv, WireInv

\* A step that changes nothing keeps it.
LEMMA StutterStep ==
  ASSUME IInv, UNCHANGED vars
  PROVE  IInv'
<1>1. /\ Quiet /\ UNCHANGED portVars
      /\ UNCHANGED <<pending_messages, wire, rejects, pc, sent, got>>
  BY DEF vars, Quiet, peerVars, channelVars, joinVars, portVars, lossVars, userVars
<1>2. WireInv(wire') /\ NoGrants(wire, wire')
  BY <1>1, NoGrantsSame DEF IInv
<1>3. TypeOK'
  BY <1>1, <1>2, TypeFrame DEF IInv, TypeOK, portVars
<1>4. PcOK'
  BY <1>1 DEF IInv, PcOK
<1> QED BY <1>1, <1>2, <1>3, <1>4, QuietStep

\* Every step of a controller, of its user or of the network keeps it.
LEMMA NextStep ==
  ASSUME IInv, Next
  PROVE  IInv'
<1>1. ASSUME NEW c \in Children, Join(c) PROVE IInv'
  BY <1>1, ConnectToChildStep, ConnectToParentStep DEF Join
<1>2. ASSUME NEW c \in Children, Handle(c) PROVE IInv'
  BY <1>2, OnAcceptChildStep, OnAcceptParentStep, OnRequestIntroductionStep,
     OnIntroduceStep, OnRequestPortConnectionStep, OnConnectToPortStep DEF Handle
<1>3. ASSUME NEW c \in Children, UsePort(c) PROVE IInv'
  BY <1>3, ConnectToParentPortStep, ClosePortStep DEF UsePort
<1>4. ASSUME NEW n \in Nodes, NEW to \in Nodes, Send(n, to) PROVE IInv'
  BY <1>4, SendToPeerStep, LookUpPeerStep, SendToUnknownStep DEF Send
<1>5. ASSUME NEW n \in Nodes, SendOn(n) PROVE IInv'
  BY <1>5, QueueForPeerStep, AskForIntroductionStep DEF SendOn
<1>6. ASSUME NEW n \in Nodes, Receive(n) PROVE IInv'
  BY <1>6, OnPortsMessageStep, OnChannelErrorStep DEF Receive
<1>7. ASSUME NEW n \in Nodes, Crash(n) PROVE IInv'
  BY <1>7, CrashStep
<1>8. ASSUME NEW t \in Tokens, ReservePort(t) PROVE IInv'
  BY <1>8, ReservePortStep
<1>9. ASSUME NEW t1 \in Tokens, NEW t2 \in Tokens, ConnectReservedPorts(t1, t2)
      PROVE  IInv'
  BY <1>9, ConnectReservedPortsStep
<1> QED BY <1>1, <1>2, <1>3, <1>4, <1>5, <1>6, <1>7, <1>8, <1>9 DEF Next

\* The invariant holds in every state of the controllers, whatever the numbers of
\* children, messages, introductions and crashes.
THEOREM Invariance == Spec => []IInv
<1>1. IInv /\ [Next]_vars => IInv'
  BY NextStep, StutterStep
<1> QED BY <1>1, InitHolds, PTL DEF Spec

\* The tables of the controllers keep their types: in particular the channel that
\* peers_ has under a name leads to the node of that name (AddPeer, DropPeer).
THEOREM TypeCorrect == Spec => []TypeOK
<1>1. IInv => TypeOK
  BY DEF IInv
<1> QED BY <1>1, Invariance, PTL

\* A reserved port is given to one child: OnRequestPortConnection takes the token
\* out of reserved_ports_ with the port, and ConnectToPort goes to that child only.
THEOREM OneTakerHolds == Spec => []OneTaker
<1>1. IInv => OneTaker
  BY DEF IInv, Taker, Took, OneTaker
<1> QED BY <1>1, Invariance, PTL

\* While the parent lives no controller reports a live node as lost: DropPeer runs
\* for an error of a channel whose other process is gone, and no handler rejects
\* what a live node sent.
THEOREM NoFalseLossHolds == Spec => []NoFalseLoss
<1>1. IInv => NoFalseLoss
  <2>1. ASSUME IInv, NEW n \in Live, Parent \in Live PROVE lost[n] \subseteq crashed
    BY <2>1 DEF IInv, Static, Losses, Live
  <2> QED BY <2>1 DEF NoFalseLoss
<1> QED BY <1>1, Invariance, PTL
=============================================================================
