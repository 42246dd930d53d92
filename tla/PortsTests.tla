----------------------------- MODULE PortsTests ------------------------------
(***************************************************************************)
(* The unit tests of ports_unittest.cc, run on the model.  Their delegate  *)
(* queues what a node forwards and hands it over in a random order, one    *)
(* order per execution; here every order is tried.  A test is the sequence *)
(* of its calls, each with what the test expects of it.                    *)
(***************************************************************************)
EXTENDS PortsProperties, SequencesExt

CONSTANTS
  node0, node1,
  x,      \* the pipe between node0 and node1
  y,      \* the pipe X-Y on node0
  a, b    \* the pipes on node0 whose ends are sent

VARIABLES
  test,    \* the test that runs
  pc,      \* its next call
  agenda,  \* calls that the delegates make before the test goes on
  mode,    \* what the delegate of a node does when it is notified
  saved,   \* saved_messages_ of the delegate of a node
  dropping \* nodes whose delegate drops what is forwarded

testVars == <<test, pc, agenda, mode, saved, dropping>>

x0 == <<x, 0>>
x1 == <<x, 1>>
y0 == <<y, 0>>
y1 == <<y, 1>>
a0 == <<a, 0>>
a1 == <<a, 1>>
b0 == <<b, 0>>
b1 == <<b, 1>>

TestHome == [e \in End |-> IF e = x1 THEN node1 ELSE node0]
TestMaxGen == [c \in Pipes |-> IF c \in {a, b} THEN 3 ELSE 0]
TestEmbedder == [e \in End |-> [sends |-> 9, polls |-> TRUE, closes |-> TRUE]]
NoCargo == [c \in Pipes |-> {}]
-----------------------------------------------------------------------------
(* The calls.  An end stands for the port that holds it: a received port   *)
(* is the same end as the one that was sent.                               *)

Call(op, e, arg) == [op |-> op, e |-> e, arg |-> arg]
Uninitialized(e) == Call("uninitialized", e, {})
Initialize(e) == Call("initialize", e, {})
Pair(pipe) == Call("pair", <<pipe, 0>>, {})
Send(e, ends) == Call("send", e, ends)
SendRefused(e, ends) == Call("refused", e, ends)
TrySend(e) == Call("try", e, {})
Close(e) == Call("close", e, {})
\* GetMessage returns the message with this number, none (0), or an error (-1).
Get(e, body) == Call("get", e, body)
\* GetSavedMessage returns message body that was read at end e; the ports in it
\* are closed, or not.
GetSaved(e, body) == Call("saved", e, body)
GetSavedAndClose(e, body) == Call("savedclose", e, body)
NoneSaved == Call("nonesaved", <<x, 0>>, node0)
\* CanShutdownCleanly(false), and with local ports allowed, at one node.
Clean(n) == Call("clean", <<x, 0>>, n)
CleanButLocal(n) == Call("local", <<x, 0>>, n)
NotClean(n) == Call("notclean", <<x, 0>>, n)
Mode(n, m) == Call("mode", <<x, 0>>, <<n, m>>)
PeerIsClosed(e) == Call("peerclosed", e, {})
\* set_drop_messages for node1; the end of node1; LostConnectionToNode at node0.
DropMessages == Call("drop", <<x, 0>>, node1)
Gone == Call("gone", <<x, 0>>, node1)
LostConnection == Call("lost", <<x, 0>>, node1)
PumpTasks == Call("pump", <<x, 0>>, {})
\* One turn of the loop in PortStatusChanged(p).
ReadPort(p) == Call("read", EndOf(p), p)

Join == <<Uninitialized(x0), Uninitialized(x1), Initialize(x0), Initialize(x1)>>
BothClean == <<Clean(node0), Clean(node1)>>
SaveBoth == <<Mode(node0, "save"), Mode(node1, "save")>>
-----------------------------------------------------------------------------
(* The tests.                                                              *)

Basic1 ==
  Join \o <<Pair(a), Send(x0, {a1}), Close(a0), Close(x0), Close(x1), PumpTasks>>
       \o BothClean

Basic2 ==
  Join \o <<Pair(b), Send(x0, {b1}), Send(b0, {}), Close(b0), Close(x0), Close(x1),
            PumpTasks>>
       \o BothClean

Basic3 ==
  Join \o <<Pair(a), Send(x0, {a1}), Send(a0, {}), Send(x0, {a0}),
            Pair(b), Send(x0, {b1}), Send(b0, {}), Close(b0),
            Close(x0), Close(x1), PumpTasks>>
       \o BothClean

\* Once node0 has lost the connection nothing of node1 reaches it: the calls that
\* these two tests make at node1 after that are left out.
LostConnectionToNode1 ==
  Join \o <<DropMessages, Pair(a), Send(x0, {a1}), PumpTasks, Gone,
            LostConnection, PumpTasks, Close(a0), Close(x0), PumpTasks, Clean(node0)>>

LostConnectionToNode2 ==
  Join \o <<Mode(node1, "leave"), Pair(a), Send(x0, {a1}), PumpTasks, DropMessages,
            Gone, LostConnection, PumpTasks, Get(a0, -1), Close(a0), Close(x0), PumpTasks,
            Clean(node0)>>

GetMessage1 ==
  <<Pair(a), Get(a0, 0), Close(a1), Get(a0, 0), PumpTasks, Get(a0, -1), Close(a0),
    Clean(node0)>>

GetMessage2 ==
  <<Mode(node0, "leave"), Pair(a), Send(a1, {}), Get(a0, 1), Close(a0), Close(a1),
    Clean(node0)>>

GetMessage3 ==
  <<Mode(node0, "leave"), Pair(a), Send(a1, {}), Send(a1, {}), Send(a1, {}),
    Get(a0, 1), Get(a0, 2), Get(a0, 3), Close(a0), Close(a1), Clean(node0)>>

\* a1 goes to node1 and back, and a message is sent to where it was.
Delegation1 ==
  SaveBoth \o Join
    \o <<Pair(a), Send(x0, {a1}), PumpTasks, GetSaved(x1, 1),
         Send(x1, {a1}), PumpTasks, Send(a0, {}), PumpTasks,
         GetSaved(x0, 1), GetSaved(a1, 1),
         Close(a0), Close(a1), Close(x0), Close(x1)>>
    \o BothClean

\* One round of ten: a1 goes to node1, b1 after it over a, and "hello" after b1.
Delegation2 ==
  SaveBoth \o Join
    \o <<Pair(a), Pair(b), Send(x0, {a1}), Send(a0, {b1}), Send(b0, {}), PumpTasks,
         Close(a0), Close(b0), Close(x0), Close(x1),
         GetSavedAndClose(x1, 1), GetSavedAndClose(a1, 1), GetSavedAndClose(b1, 1),
         PumpTasks>>
    \o BothClean

SendUninitialized ==
  <<Uninitialized(x0), Uninitialized(x1)>> \o SaveBoth
    \o <<SendRefused(x0, {}), SendRefused(x1, {}), Close(x0), Close(x1)>>
    \o BothClean

SendFailure ==
  <<Mode(node0, "save"), Pair(a), SendRefused(a0, {a0}), SendRefused(a0, {a1}),
    PumpTasks, NoneSaved, Send(a0, {}), Send(a1, {}), PumpTasks,
    GetSavedAndClose(a1, 1), GetSavedAndClose(a0, 1), PumpTasks,
    Close(a0), Close(a1), PumpTasks, Clean(node0)>>

DontLeakUnreceivedPorts ==
  <<Mode(node0, "leave"), Pair(a), Pair(b), Send(a0, {b1}), PumpTasks,
    Close(b0), Close(a0), Close(a1), PumpTasks, Clean(node0)>>

AllowShutdownWithLocalPortsOpen ==
  <<Mode(node0, "save"), Pair(a), Pair(b), Send(a0, {b1}), GetSaved(a1, 1),
    CleanButLocal(node0), PumpTasks, CleanButLocal(node0), NotClean(node0),
    Close(a0), Close(a1), Close(b0), Close(b1), PumpTasks, Clean(node0)>>

\* a1 is sent three times, leaving three proxies in a row.
ProxyCollapse1 ==
  <<Mode(node0, "save"), Pair(a), Pair(y),
    Send(y0, {a1}), GetSaved(y1, 1), Send(y0, {a1}), GetSaved(y1, 2),
    Send(y0, {a1}), GetSaved(y1, 3),
    Close(y0), Close(y1), Close(a0), Close(a1), PumpTasks, Clean(node0)>>

\* Both ends are sent, which leaves a proxy on each side.
ProxyCollapse2 ==
  <<Mode(node0, "save"), Pair(a), Pair(y),
    Send(y0, {a1}), GetSaved(y1, 1), Send(y0, {a0}), GetSaved(y1, 2),
    Close(y0), Close(y1), Close(a1), Close(a0), PumpTasks, Clean(node0)>>

\* The port that a1 becomes is not notified of the message that a1 has before
\* a1 forwards it.
SendWithClosedPeer ==
  <<Mode(node0, "leave"), Pair(a), Send(a0, {}), Close(a0), PumpTasks,
    Pair(y), Mode(node0, "save"), Send(y0, {a1}), Close(y0), Close(y1),
    GetSaved(y1, 1), PumpTasks, GetSaved(a1, 1), PeerIsClosed(a1), Close(a1),
    Clean(node0)>>

SendWithClosedPeerSent ==
  <<Mode(node0, "save"), Pair(y), Pair(a),
    Send(y0, {a0}), GetSaved(y1, 1), Send(y0, {a0}), GetSaved(y1, 2),
    Mode(node0, "leave"), Send(a0, {}), Close(a0), PumpTasks,
    Mode(node0, "save"), Send(y0, {a1}), Close(y0), Close(y1), GetSaved(y1, 3),
    PumpTasks, GetSaved(a1, 1), PeerIsClosed(a1), Close(a1), PumpTasks, Clean(node0)>>

Tests ==
  <<Basic1, Basic2, Basic3, LostConnectionToNode1, LostConnectionToNode2,
    GetMessage1, GetMessage2, GetMessage3, Delegation1, Delegation2,
    SendUninitialized, SendFailure, DontLeakUnreceivedPorts,
    AllowShutdownWithLocalPortsOpen, ProxyCollapse1, ProxyCollapse2,
    SendWithClosedPeer, SendWithClosedPeerSent>>
-----------------------------------------------------------------------------
(* Running a test.                                                         *)

TestInit ==
  /\ Init
  /\ test \in DOMAIN Tests
  /\ pc = 1
  /\ agenda = <<>>
  /\ mode = [n \in Nodes |-> "echo"]
  /\ saved = [n \in Nodes |-> <<>>]
  /\ dropping = {}

PortsOf(e) == {p \in PortName : EndOf(p) = e /\ Held(p)}

\* The ports that PortStatusChanged is called for in this step, after all its
\* other effects (node.cc:127, 408, 489, 717), where the delegate reads.  A
\* closure that comes to a port again notifies again: see DoPumpTask.
Notified ==
  {p \in PortName :
     /\ ports'[p].state = "Receiving"
     /\ \/ ports[p].state = "Uninitialized"
        \/ ports[p].state = "Receiving" /\ ports'[p].peer_closed # ports[p].peer_closed
        \/ \E m \in ports'[p].message_queue.heap \ ports[p].message_queue.heap :
             AcceptSignals(ports[p].message_queue, m)}

\* The delegate reads these ports before the call that notified it returns.
Reads(notified) ==
  LET read == SetToSeq({p \in notified : mode[ports[p].node] # "leave"})
  IN [i \in DOMAIN read |-> ReadPort(read[i])]

\* The next call: the delegates' come first.
At(op) ==
  IF agenda # <<>> THEN Head(agenda).op = op
  ELSE pc <= Len(Tests[test]) /\ Tests[test][pc].op = op

It == IF agenda # <<>> THEN Head(agenda) ELSE Tests[test][pc]

Goes ==
  /\ IF agenda # <<>> THEN agenda' = Reads(Notified) \o Tail(agenda) /\ pc' = pc
     ELSE agenda' = Reads(Notified) /\ pc' = pc + 1
  /\ UNCHANGED <<test, mode, dropping>>

GoesOn == Goes /\ UNCHANGED saved

\* GetMessage at p returns a message.
Readable(p) ==
  /\ ports[p].state = "Receiving"
  /\ CanAcceptMoreMessages(ports[p])
  /\ HasNextMessage(ports[p].message_queue)

\* TestNodeDelegate::PortStatusChanged: gets the next message and saves it, or
\* sends a message to every port in it and closes that port, and so on until
\* there is none.
OnPortStatusChanged ==
  LET p == It.arg
      n == ports[p].node
      Ends(m) == SetToSeq({EndOf(q) : q \in m.ports})
      Echo(e) == <<TrySend(e), Close(e)>>
  IN /\ At("read")
     /\ IF ~Readable(p)
        THEN agenda' = Tail(agenda) /\ UNCHANGED <<saved, vars>>
        ELSE \E m \in ports[p].message_queue.heap :
               /\ GetMessage(p, m)
               /\ IF mode[n] = "save"
                  THEN /\ saved' = [saved EXCEPT ![n] = Append(@,
                              [e |-> EndOf(p), body |-> m.body, ends |-> Ends(m)])]
                       /\ UNCHANGED agenda
                  ELSE /\ agenda' = FlattenSeq([i \in DOMAIN Ends(m) |->
                                      Echo(Ends(m)[i])]) \o agenda
                       /\ UNCHANGED saved
     /\ UNCHANGED <<test, pc, mode, dropping>>

\* SendMessage returns OK.
Accepts(p, cargo) ==
  /\ ~ports[p].peer_closed
  /\ p \notin cargo
  /\ ports[p].peer_port_name \notin cargo

CargoOf(ends) == UNION {PortsOf(e) : e \in ends}

DoUninitialized == At("uninitialized") /\ CreateUninitializedPort(It.e) /\ GoesOn

DoInitialize == At("initialize") /\ InitializePort(It.e) /\ GoesOn

DoPair == At("pair") /\ CreatePortPair(It.e[1]) /\ GoesOn

DoSend ==
  /\ At("send")
  /\ \E p \in PortsOf(It.e) : SendMessage(p, CargoOf(It.arg))
  /\ GoesOn

DoTrySend ==
  /\ At("try")
  /\ IF \E p \in PortsOf(It.e) : Accepts(p, {})
     THEN \E p \in PortsOf(It.e) : SendMessage(p, {})
     ELSE UNCHANGED vars
  /\ GoesOn

DoClose ==
  /\ At("close")
  /\ \E p \in PortName : EndOf(p) = It.e /\ ClosePort(p)
  /\ GoesOn

DoGet ==
  /\ At("get")
  /\ \E p \in PortsOf(It.e) :
       IF It.arg > 0
       THEN \E m \in ports[p].message_queue.heap : GetMessage(p, m)
       ELSE GetNothing(p)
  /\ GoesOn

\* The node whose delegate has a saved message read at end e first.
SavedAt(e) ==
  {n \in Nodes : saved[n] # <<>> /\ Head(saved[n]).e = e}

DoGetSaved ==
  /\ At("saved")
  /\ \E n \in SavedAt(It.e) : saved' = [saved EXCEPT ![n] = Tail(@)]
  /\ UNCHANGED vars
  /\ Goes

\* ClosePortsInMessage for a saved message.
DoGetSavedAndClose ==
  /\ At("savedclose")
  /\ \E n \in SavedAt(It.e) :
       LET ends == Head(saved[n]).ends
       IN /\ saved' = [saved EXCEPT ![n] = Tail(@)]
          /\ agenda' = [i \in DOMAIN ends |-> Close(ends[i])]
  /\ pc' = pc + 1
  /\ UNCHANGED <<test, mode, dropping>>
  /\ UNCHANGED vars

\* WillSendMessage_Locked gives the message the next sequence number and takes
\* it back when a port in it cannot be sent; the checks before it touch nothing.
Backpedaled_not(port) ==
  [port EXCEPT !.next_sequence_num_to_send = @ + 1]

Backpedaled(port) ==
  LET numbered == [port EXCEPT !.next_sequence_num_to_send = @ + 1]
  IN [numbered EXCEPT !.next_sequence_num_to_send = @ - 1]

\* SendMessage returns an error.
DoSendRefused ==
  /\ At("refused")
  /\ \E p \in PortName :
       /\ EndOf(p) = It.e
       /\ Held(p) \/ ports[p].state = "Uninitialized"
       /\ ports' = IF /\ p \notin CargoOf(It.arg)
                      /\ ports[p].state = "Receiving"
                      /\ ~ports[p].peer_closed
                   THEN [ports EXCEPT ![p] = Backpedaled(@)]
                   ELSE ports
  /\ UNCHANGED <<net, oops, crashed, idle, life, sent, got, eof>>
  /\ GoesOn

\* Expectations about the state change nothing.
DoExpect ==
  /\ \/ At("nonesaved") \/ At("clean") \/ At("local")
     \/ At("notclean") \/ At("peerclosed")
  /\ UNCHANGED vars
  /\ GoesOn

DoMode ==
  /\ At("mode")
  /\ mode' = [mode EXCEPT ![It.arg[1]] = It.arg[2]]
  /\ pc' = pc + 1
  /\ UNCHANGED <<test, agenda, saved, dropping>>
  /\ UNCHANGED vars

DoDropMessages ==
  /\ At("drop")
  /\ dropping' = {It.arg}
  /\ pc' = pc + 1
  /\ UNCHANGED <<test, agenda, mode, saved>>
  /\ UNCHANGED vars

DoGone == At("gone") /\ Crash(It.arg) /\ GoesOn

DoLostConnection == At("lost") /\ LostConnectionToNode(node0, It.arg) /\ GoesOn

\* What is in the queue: a message that the delegate drops never gets there.
Queue == {envelope \in DOMAIN net : envelope.from \notin dropping}

\* PumpTasks hands over one task of the queue, or has handed over all.
DoPumpTask ==
  /\ At("pump")
  /\ \E envelope \in Queue :
       LET p == envelope.event.port_name
           closed == {p} \cap {q \in PortName : ports[q].state = "Receiving"}
       IN /\ Deliver(envelope)
          /\ agenda' = Reads(Notified \cup
                 IF envelope.event.type = "ObserveClosure" THEN closed ELSE {})
  /\ UNCHANGED <<test, pc, mode, saved, dropping>>

DoPumpTasksReturn ==
  /\ At("pump")
  /\ Queue = {}
  /\ UNCHANGED vars
  /\ GoesOn

Finished ==
  /\ pc > Len(Tests[test]) /\ agenda = <<>>
  /\ UNCHANGED vars
  /\ UNCHANGED testVars

TestNext ==
  \/ OnPortStatusChanged \/ DoUninitialized \/ DoInitialize \/ DoPair \/ DoSend
  \/ DoTrySend \/ DoClose \/ DoGet \/ DoGetSaved
  \/ DoGetSavedAndClose \/ DoSendRefused \/ DoExpect \/ DoMode \/ DoDropMessages \/ DoGone
  \/ DoLostConnection \/ DoPumpTask \/ DoPumpTasksReturn \/ Finished

allVars == <<vars, testVars>>

\* WF_allVars(DoPumpTask), which is enabled when the queue has a task: PumpTasks
\* is a loop.
FairPump ==
  []<>~(At("pump") /\ Queue # {}) \/ []<><<DoPumpTask>>_allVars

TestSpec == TestInit /\ [][TestNext]_allVars /\ FairPump
-----------------------------------------------------------------------------
(* Properties.                                                             *)

\* Node::CanShutdownCleanly.
CanShutdownCleanly(n, allow_local_ports) ==
  \A p \in PortName :
    ports[p].state # "Absent" /\ ports[p].node = n =>
      /\ allow_local_ports
      /\ ports[p].peer_node_name = n \/ ports[p].state = "Receiving"

\* GetMessage at p returns the message with this number, none (0) or
\* ERROR_PORT_PEER_CLOSED (-1).
Returns(p, body) ==
  IF ~CanAcceptMoreMessages(ports[p]) THEN body = -1
  ELSE IF body = 0 THEN ~HasNextMessage(ports[p].message_queue)
  ELSE \E m \in NextMessages(ports[p].message_queue) : m.body = body

\* The expectation of a call.
Met(c) ==
  CASE c.op = "send" -> \E p \in PortsOf(c.e) :
         Accepts(p, CargoOf(c.arg)) /\ Cardinality(CargoOf(c.arg)) = Cardinality(c.arg)
    [] c.op = "refused" -> \A p \in PortsOf(c.e) : ~Accepts(p, CargoOf(c.arg))
    [] c.op = "close" -> \E p \in PortName :
         EndOf(p) = c.e /\ (Held(p) \/ ports[p].state = "Uninitialized")
    [] c.op = "get" -> \E p \in PortsOf(c.e) : Returns(p, c.arg)
    [] c.op \in {"saved", "savedclose"} ->
         \E n \in SavedAt(c.e) : Head(saved[n]).body = c.arg
    [] c.op = "read" -> ports[c.arg].state = "Receiving"
    [] c.op = "nonesaved" -> saved[c.arg] = <<>>
    [] c.op = "clean" -> CanShutdownCleanly(c.arg, FALSE)
    [] c.op = "local" -> CanShutdownCleanly(c.arg, TRUE)
    [] c.op = "notclean" -> ~CanShutdownCleanly(c.arg, FALSE)
    [] c.op = "peerclosed" -> \E p \in PortsOf(c.e) :
         ports[p].peer_closed /\ Returns(p, -1)
    [] OTHER -> TRUE

\* Whatever order PumpTasks hands its tasks over in (ports_unittest.cc:75,
\* priority(rand())), every expectation of every test is met.
Passes == agenda # <<>> \/ pc <= Len(Tests[test]) => Met(It)

\* PumpTasks returns: the traffic that ports cause by themselves dies out, and
\* announcements of proxies do not circulate for ever (node.cc:584 fears "a busy
\* loop").
PumpTasksReturns == []<>~(At("pump") /\ Queue # {})
=============================================================================
