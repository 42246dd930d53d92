-------------------------------- MODULE Core --------------------------------
(***************************************************************************)
(* The handle table of a process and the dispatchers behind its handles:   *)
(* message pipe ends, shared buffers and wrapped platform handles.  Any    *)
(* thread calls with any handle.  A call takes handles_lock_ and the locks *)
(* of dispatchers one after the other, so other calls run in between; an   *)
(* action is what happens under one lock.                                  *)
(*                                                                         *)
(* A pipe end is a port of the node, which Ports models: here it is a      *)
(* queue that moves along with the end, and an end that was sent gets a    *)
(* new port, so the PortRef of the dispatcher that sent it is stale.  Both *)
(* ends of a pipe are in this process.                                     *)
(***************************************************************************)
EXTENDS Naturals, Sequences, FiniteSets, SequencesExt

CONSTANTS
  Thread,      \* the threads that call
  LastHandle,  \* the last MojoHandle (2^32 - 1 in the code)
  MaxPipes,    \* bound on the message pipes that are created
  Things,      \* what else is created: a subset of {"buffer", "platform"}
  Bundles,     \* the handles a message is given, in order
  Waits,       \* the handles and signals that are waited for
  MaxCalls,    \* bound on the calls, apart from those that create or wait
  Platform     \* whether calls of the platform succeed: {TRUE} or BOOLEAN

ASSUME CoreAssumption ==
  /\ LastHandle \in Nat \ {0}
  /\ MaxPipes \in Nat /\ MaxCalls \in Nat
  /\ Bundles \subseteq Seq(1..LastHandle)
  /\ Waits \subseteq (1..LastHandle) \X {"readable", "writable", "peerClosed"}
  /\ Things \subseteq {"buffer", "platform"}
  /\ Platform \subseteq BOOLEAN

VARIABLES
  table,     \* handles_: the handles with an entry
  busy,      \* those whose entry is busy
  next,      \* next_available_handle_
  disp,      \* [Handle -> Dispatcher]: the dispatcher that was given a handle
  pipes,     \* message pipes created
  gen,       \* [End -> Nat]: the current port of an end
  shut,      \* ends whose port is closed
  queue,     \* [End -> Seq(Message)]: unread messages
  event,     \* handles whose dispatcher OnPortStatusChanged is to be called on
  waiter,    \* where the MojoWait of one more thread stands, on a message pipe
  call,      \* [Thread -> Call]: where the call of a thread stands
  calls,     \* calls made
  lost,      \* ends that were dropped with a message nobody gets
  failed     \* the checks that failed

vars == <<table, busy, next, disp, pipes, gen, shut, queue, event, waiter, call,
          calls, lost, failed>>
nodeVars == <<pipes, gen, shut, queue, lost>>

Handle == 1..LastHandle
INVALID == 0
End == (1..MaxPipes) \X {0, 1}
Peer(e) == <<e[1], 1 - e[2]>>

\* res is the end of a pipe; port is the end's port that port_ refers to; closed
\* is port_closed_, is_closed_ or shared_buffer_ == nullptr.
NoEnd == <<0, 0>>
Dispatcher ==
  [kind: {"none", "pipe"} \cup Things, res: End \cup {NoEnd}, port: Nat,
   closed: BOOLEAN, inTransit: BOOLEAN, transferred: BOOLEAN]
None == [kind |-> "none", res |-> NoEnd, port |-> 0, closed |-> TRUE,
         inTransit |-> FALSE, transferred |-> FALSE]
\* A message: what it carries, in order.
Cargo == [kind: {"pipe"} \cup Things, res: End \cup {NoEnd}]
Idle == [at |-> "idle", h |-> 0, hs |-> <<>>, ok |-> FALSE, sent |-> FALSE]
\* A wait was asked for, its awakable is in the dispatcher's list, or it is over.
Wait == [at: {"none", "asked", "added", "over"}, h: 0..LastHandle,
         signal: {"none", "readable", "writable", "peerClosed"}]
NotWaiting == [at |-> "none", h |-> 0, signal |-> "none"]

\* A check that fails ends the process: nothing is called or goes on.
At(t, where) == call[t].at = where /\ failed = {}
Calls(t) ==
  /\ call[t] = Idle
  /\ failed = {}
  /\ calls < MaxCalls
  /\ calls' = calls + 1

New(kind, res, port) ==
  [kind |-> kind, res |-> res, port |-> port, closed |-> FALSE,
   inTransit |-> FALSE, transferred |-> FALSE]

Init ==
  /\ table = {}
  /\ busy = {}
  /\ next = 1
  /\ disp = [h \in Handle |-> None]
  /\ pipes = 0
  /\ gen = [e \in End |-> 0]
  /\ shut = {}
  /\ queue = [e \in End |-> <<>>]
  /\ event = {}
  /\ waiter = NotWaiting
  /\ call = [t \in Thread |-> Idle]
  /\ calls = 0
  /\ lost = {}
  /\ failed = {}

-----------------------------------------------------------------------------
(* The port of a message pipe end, as the node answers (external).         *)

\* GetStatus and the other calls with a PortRef find a port that receives.
Receives(d) == d.port = gen[d.res] /\ d.res \notin shut

PeerClosed(e) == Peer(e) \in shut

\* Leaves what the unread messages carry.
Inside_none(ends) == ends

\* The ends that unread messages of other ends carry.
Unread(ends) ==
  {c.res : c \in {x \in UNION {UNION {ToSet(m) : m \in ToSet(queue[e])} : e \in ends} :
                   x.kind = "pipe"}}

\* Ends in unread messages, and those they carry in turn: the least set with them.
Inside(ends) ==
  {e \in End : \A s \in SUBSET End : ends \subseteq s /\ Unread(s) \subseteq s => e \in s}

\* The dispatchers that observe a port.
Observers(ends) ==
  {h \in Handle : /\ disp[h].kind = "pipe" /\ disp[h].res \in ends
                  /\ disp[h].port = gen[disp[h].res]
                  /\ ~disp[h].closed /\ ~disp[h].transferred}

\* NodeController::ClosePort; what the unread messages carry is closed too.
ClosePorts(ends) ==
  LET all == Inside(ends)
  IN /\ shut' = shut \cup all
     /\ queue' = [e \in End |-> IF e \in all THEN <<>> ELSE queue[e]]
     /\ event' = event \cup Observers({Peer(e) : e \in all} \ (shut \cup all))

-----------------------------------------------------------------------------
(* Signals of a message pipe end and waiting for them.                     *)

\* GetHandleSignalsStateNoLock.
Satisfies(d, signal) ==
  /\ Receives(d)
  /\ \/ signal = "readable" /\ queue[d.res] # <<>>
     \/ signal = "writable" /\ ~PeerClosed(d.res)
     \/ signal = "peerClosed" /\ PeerClosed(d.res)

CanSatisfy(d, signal) ==
  /\ Receives(d)
  /\ \/ signal = "peerClosed"
     \/ signal = "readable" /\ (queue[d.res] # <<>> \/ ~PeerClosed(d.res))
     \/ signal = "writable" /\ ~PeerClosed(d.res)

\* A status that the node does not give must have its reason: the CHECK of
\* GetHandleSignalsStateNoLock.
StatusOK(d) == Receives(d) \/ d.inTransit \/ d.transferred \/ d.closed
StatusCheck(d) == IF StatusOK(d) THEN failed ELSE failed \cup {"status"}

\* AwakeForStateChange, and CancelAll: who waited is told, and has yet to leave.
Awakes(h, d) ==
  /\ waiter.at = "added" /\ waiter.h = h
  /\ Satisfies(d, waiter.signal) \/ ~CanSatisfy(d, waiter.signal)
Awoken == [waiter EXCEPT !.at = "over"]
AwakeForStateChange(h, d) == waiter' = IF Awakes(h, d) THEN Awoken ELSE waiter
CancelAll(hs) ==
  waiter' = IF waiter.at = "added" /\ waiter.h \in hs THEN Awoken ELSE waiter

\* MojoWait on a message pipe: WaitManyInternal looks the handle up.
WaitFor(h, signal) ==
  /\ waiter = NotWaiting
  /\ failed = {}
  /\ h \in table
  /\ disp[h].kind = "pipe"
  /\ waiter' = [at |-> "asked", h |-> h, signal |-> signal]
  /\ UNCHANGED <<table, busy, next, disp, event, call, calls, failed>>
  /\ UNCHANGED nodeVars

\* AddAwakable, under signal_lock_: nothing is added to a dispatcher that is closed
\* or in transit, or when the signal is there or cannot come.
AddAwakable ==
  LET d == disp[waiter.h]
      open == ~d.closed /\ ~d.inTransit
  IN /\ waiter.at = "asked"
     /\ failed = {}
     /\ failed' = IF open THEN StatusCheck(d) ELSE failed
     /\ waiter' = [waiter EXCEPT !.at =
                     IF open /\ ~Satisfies(d, waiter.signal) /\ CanSatisfy(d, waiter.signal)
                     THEN "added" ELSE "over"]
     /\ UNCHANGED <<table, busy, next, disp, event, call, calls>>
     /\ UNCHANGED nodeVars

\* RemoveAwakable, once the waiter is awake or the deadline is over; for a waiter
\* that was not added it is GetHandleSignalsState.
RemoveAwakable ==
  /\ waiter.at \in {"added", "over"}
  /\ failed = {}
  /\ failed' = StatusCheck(disp[waiter.h])
  /\ waiter' = NotWaiting
  /\ UNCHANGED <<table, busy, next, disp, event, call, calls>>
  /\ UNCHANGED nodeVars

\* Only looks for messages.
OnPortStatusChanged_messages(h) ==
  /\ failed = {}
  /\ h \in event
  /\ event' = event \ {h}
  /\ IF disp[h].transferred \/ queue[disp[h].res] = <<>> THEN UNCHANGED <<waiter, failed>>
     ELSE /\ failed' = StatusCheck(disp[h])
          /\ AwakeForStateChange(h, disp[h])
  /\ UNCHANGED <<table, busy, next, disp, call, calls>>
  /\ UNCHANGED nodeVars

OnPortStatusChanged(h) ==
  /\ failed = {}
  /\ h \in event
  /\ event' = event \ {h}
  /\ IF disp[h].transferred THEN UNCHANGED <<waiter, failed>>
     ELSE /\ failed' = StatusCheck(disp[h])
          /\ AwakeForStateChange(h, disp[h])
  /\ UNCHANGED <<table, busy, next, disp, call, calls>>
  /\ UNCHANGED nodeVars

-----------------------------------------------------------------------------
(* Creating handles.                                                       *)

\* AddDispatcher: the handle after the last one is MOJO_HANDLE_INVALID.
After(n) == (n + 1) % (LastHandle + 1)

\* The table is full.  CreateSharedBuffer closes the dispatcher it has made.  The
\* others end in a failure: CreatePlatformHandleWrapper and DuplicateBufferHandle,
\* which closes the dispatcher it was to copy, let go of an open dispatcher, whose
\* destructor checks that it is closed; so does CreateMessagePipe for its first end,
\* and for the second it calls Close through a null pointer.
OutOfHandles(closes) ==
  /\ failed' = IF closes THEN failed ELSE failed \cup {"full"}
  /\ UNCHANGED <<table, next, disp>>

AddDispatcher(d, closes) ==
  IF next = INVALID THEN OutOfHandles(closes)
  ELSE /\ table' = table \cup {next}
       /\ disp' = [disp EXCEPT ![next] = d]
       /\ next' = After(next)
       /\ UNCHANGED failed

\* A bound: the client creates what it needs before it makes other calls, and
\* the message pipes first.
Creates == calls = 0 /\ failed = {}

CreateMessagePipe ==
  /\ Creates
  /\ pipes < MaxPipes
  /\ pipes' = pipes + 1
  /\ IF next = INVALID \/ After(next) = INVALID THEN OutOfHandles(FALSE)
     ELSE /\ table' = table \cup {next, After(next)}
          /\ disp' = [disp EXCEPT ![next] = New("pipe", <<pipes + 1, 0>>, 0),
                                  ![After(next)] = New("pipe", <<pipes + 1, 1>>, 0)]
          /\ next' = After(After(next))
          /\ UNCHANGED failed
  /\ UNCHANGED <<busy, gen, shut, queue, event, waiter, call, calls, lost>>

\* A shared buffer and a wrapped platform handle are created once each.
Create(kind) ==
  /\ Creates
  /\ kind \in Things
  /\ pipes = MaxPipes
  /\ \A h \in Handle : disp[h].kind # kind
  /\ AddDispatcher(New(kind, NoEnd, 0), kind = "buffer")
  /\ UNCHANGED <<busy, event, waiter, call, calls>>
  /\ UNCHANGED nodeVars

CreateSharedBuffer == Create("buffer")
CreatePlatformHandleWrapper == Create("platform")

-----------------------------------------------------------------------------
(* Core::WriteMessage and MessagePipeDispatcher::WriteMessage.             *)

\* The handle is looked up; a message cannot carry the pipe it is sent on.
WriteMessage(t, h, hs) ==
  /\ Calls(t)
  /\ h \in table
  /\ h \notin ToSet(hs)
  /\ call' = [call EXCEPT ![t] = [Idle EXCEPT
                !.at = IF hs = <<>> THEN "check" ELSE "begin",
                !.h = h, !.hs = hs]]
  /\ UNCHANGED <<table, busy, next, disp, event, waiter, failed>>
  /\ UNCHANGED nodeVars

\* BeginTransit of a dispatcher: a message pipe does not ask whether it is
\* closed.
CanBegin(d) == ~d.inTransit /\ (d.kind = "pipe" \/ ~d.closed)

\* HandleTable::BeginTransit goes through the handles until one is missing or
\* busy; the same handle twice is busy the second time.
Begun(hs) ==
  {i \in DOMAIN hs : \A k \in 1..i :
     /\ hs[k] \in table
     /\ hs[k] \notin busy
     /\ \A j \in 1..(k - 1) : hs[j] # hs[k]
     /\ CanBegin(disp[hs[k]])}
Begins(hs) == Begun(hs) = DOMAIN hs

Marked(hs, on) == [h \in Handle |-> IF h \in hs THEN [disp[h] EXCEPT !.inTransit = on]
                                    ELSE disp[h]]

\* What may have happened in transit.
WakeCancelled(hs) ==
  waiter' = IF waiter.h \in hs /\ Awakes(waiter.h, disp[waiter.h]) THEN Awoken
            ELSE waiter

\* CancelTransit asks for the signals state of a pipe that is no longer in transit.
CancelCheck(hs) ==
  IF \A h \in hs : disp[h].kind = "pipe" => StatusOK([disp[h] EXCEPT !.inTransit = FALSE])
  THEN {} ELSE {"status"}

\* What was marked before a handle failed is left as it is.
BeginTransit_leaves(t) ==
  LET hs == call[t].hs
  IN /\ At(t, "begin")
     /\ busy' = busy \cup {h \in ToSet(hs) : h \in table}
     /\ disp' = Marked({h \in ToSet(hs) : h \in table}, TRUE)
     /\ call' = [call EXCEPT ![t] = IF Begins(hs) THEN [@ EXCEPT !.at = "check"]
                                    ELSE Idle]
     /\ UNCHANGED <<table, next, event, waiter, calls, failed>>
     /\ UNCHANGED nodeVars

\* Under handles_lock_; a failure cancels the transit of those that were begun,
\* which wakes who may have missed something.
BeginTransit(t) ==
  LET hs == call[t].hs
  IN /\ At(t, "begin")
     /\ IF Begins(hs)
        THEN /\ busy' = busy \cup ToSet(hs)
             /\ disp' = Marked(ToSet(hs), TRUE)
             /\ call' = [call EXCEPT ![t].at = "check"]
             /\ UNCHANGED <<waiter, failed>>
        ELSE /\ call' = [call EXCEPT ![t] = Idle]
             /\ WakeCancelled({hs[i] : i \in Begun(hs)})
             /\ failed' = failed \cup CancelCheck({hs[i] : i \in Begun(hs)})
             /\ UNCHANGED <<busy, disp>>
     /\ UNCHANGED <<table, next, event, calls>>
     /\ UNCHANGED nodeVars

\* MessagePipeDispatcher::WriteMessage and ReadMessage look at the flags under
\* signal_lock_; the other dispatchers do not take messages.
MayUse(d) == d.kind = "pipe" /\ ~d.closed /\ ~d.inTransit

CheckWrite(t) ==
  LET c == call[t]
  IN /\ At(t, "check")
     /\ call' = [call EXCEPT ![t] =
                   IF MayUse(disp[c.h]) THEN [c EXCEPT !.at = "send"]
                   ELSE IF c.hs = <<>> THEN Idle
                   ELSE [c EXCEPT !.at = "finish"]]
     /\ UNCHANGED <<table, busy, next, disp, event, waiter, calls, failed>>
     /\ UNCHANGED nodeVars

\* What the node refuses: a port that is closed or was sent, the peer as cargo,
\* and a send to a peer that is closed.
Sendable(d, hs) ==
  /\ Receives(d)
  /\ ~PeerClosed(d.res)
  /\ \A h \in ToSet(hs) : disp[h].kind = "pipe" =>
       disp[h].res # Peer(d.res) /\ Receives(disp[h])

CargoOf(hs) == [i \in DOMAIN hs |-> [kind |-> disp[hs[i]].kind, res |-> disp[hs[i]].res]]
EndsOf(hs) == {disp[h].res : h \in {x \in ToSet(hs) : disp[x].kind = "pipe"}}

\* EndSerialize of a shared buffer whose handle cannot be duplicated: the first
\* one gives its memory up, and those after it are not asked.
Unserializable(hs) ==
  {hs[i] : i \in {j \in DOMAIN hs :
     /\ disp[hs[j]].kind = "buffer"
     /\ \A k \in 1..(j - 1) : disp[hs[k]].kind # "buffer"}}

\* EndSerialize of each dispatcher and NodeController::SendMessage.  An
\* EndSerialize that fails cancels the send, but result is still MOJO_RESULT_OK.
SendMessage(t) ==
  LET c == call[t]
      d == disp[c.h]
      to == Peer(d.res)
      done(ok, sent) == IF c.hs = <<>> THEN Idle
                        ELSE [c EXCEPT !.at = "finish", !.ok = ok, !.sent = sent]
  IN /\ At(t, "send")
     /\ \E serialized \in Platform :
          LET bad == IF serialized THEN {} ELSE Unserializable(c.hs)
          IN IF bad # {}
             THEN /\ disp' = [h \in Handle |-> IF h \in bad
                                THEN [disp[h] EXCEPT !.closed = TRUE] ELSE disp[h]]
                  /\ call' = [call EXCEPT ![t] = done(TRUE, FALSE)]
                  /\ UNCHANGED <<queue, gen, event>>
             ELSE IF Sendable(d, c.hs)
             THEN /\ queue' = [queue EXCEPT ![to] = Append(@, CargoOf(c.hs))]
                  /\ gen' = [e \in End |-> IF e \in EndsOf(c.hs) THEN gen[e] + 1
                                           ELSE gen[e]]
                  /\ event' = event \cup Observers({to})
                  /\ call' = [call EXCEPT ![t] = done(TRUE, TRUE)]
                  /\ UNCHANGED disp
             ELSE /\ call' = [call EXCEPT ![t] =
                               IF Receives(d) /\ PeerClosed(d.res)
                               THEN [c EXCEPT !.at = "peerClosed"] ELSE done(FALSE, FALSE)]
                  /\ UNCHANGED <<disp, queue, gen, event>>
     /\ UNCHANGED <<table, busy, next, pipes, shut, waiter, calls, lost, failed>>

\* A write or a read to which the node answered PORT_PEER_CLOSED: under
\* signal_lock_ again it tells those who wait.
TellPeerClosed(t) ==
  LET c == call[t]
  IN /\ At(t, "peerClosed")
     /\ failed' = StatusCheck(disp[c.h])
     /\ AwakeForStateChange(c.h, disp[c.h])
     /\ call' = [call EXCEPT ![t] = IF c.hs = <<>> THEN Idle ELSE [c EXCEPT !.at = "finish"]]
     /\ UNCHANGED <<table, busy, next, disp, event, calls>>
     /\ UNCHANGED nodeVars

\* Takes every write for a success.
WriteOK_always(c) == TRUE

\* What WriteMessage returned decides between completing and cancelling.
WriteOK(c) == c.ok

\* What CompleteTransitAndClose leaves of a dispatcher.
TransferredPipe(d) ==
  [d EXCEPT !.inTransit = FALSE, !.closed = TRUE, !.transferred = TRUE]
TransferredThing(d) == [d EXCEPT !.inTransit = FALSE, !.closed = TRUE]
Transferred(d) ==
  IF d.kind = "pipe" THEN TransferredPipe(d) ELSE TransferredThing(d)

FinishCheck(hs) ==
  IF ToSet(hs) \subseteq table \cap busy THEN failed ELSE failed \cup {"transit"}

\* Under handles_lock_ again.  The ends that a write did not send, although it
\* returns MOJO_RESULT_OK, are given up by their dispatchers and have no other.
CompleteTransitAndClose(t) ==
  LET hs == ToSet(call[t].hs)
  IN /\ At(t, "finish")
     /\ WriteOK(call[t])
     /\ failed' = FinishCheck(call[t].hs)
     /\ table' = table \ hs
     /\ busy' = busy \ hs
     /\ disp' = [h \in Handle |-> IF h \in hs THEN Transferred(disp[h]) ELSE disp[h]]
     /\ CancelAll(hs)
     /\ lost' = IF call[t].sent THEN lost ELSE lost \cup EndsOf(call[t].hs)
     /\ call' = [call EXCEPT ![t] = Idle]
     /\ UNCHANGED <<next, pipes, gen, shut, queue, event, calls>>

CancelTransit(t) ==
  LET hs == ToSet(call[t].hs)
  IN /\ At(t, "finish")
     /\ ~WriteOK(call[t])
     /\ failed' = FinishCheck(call[t].hs) \cup CancelCheck(hs)
     /\ busy' = busy \ hs
     /\ disp' = Marked(hs, FALSE)
     /\ WakeCancelled(hs)
     /\ call' = [call EXCEPT ![t] = Idle]
     /\ UNCHANGED <<table, next, event, calls>>
     /\ UNCHANGED nodeVars

-----------------------------------------------------------------------------
(* Core::ReadMessage and MessagePipeDispatcher::ReadMessage.               *)

ReadMessage(t, h) ==
  /\ Calls(t)
  /\ h \in table
  /\ call' = [call EXCEPT ![t] = [Idle EXCEPT !.at = "checkRead", !.h = h]]
  /\ UNCHANGED <<table, busy, next, disp, event, waiter, failed>>
  /\ UNCHANGED nodeVars

CheckRead(t) ==
  /\ At(t, "checkRead")
  /\ call' = [call EXCEPT ![t] = IF MayUse(disp[call[t].h])
                                 THEN [@ EXCEPT !.at = "read"] ELSE Idle]
  /\ UNCHANGED <<table, busy, next, disp, event, waiter, calls, failed>>
  /\ UNCHANGED nodeVars

\* GetMessageIf finds nothing, or a message for which the caller has no room.
ReadNothing(t) ==
  LET d == disp[call[t].h]
  IN /\ At(t, "read")
     /\ call' = [call EXCEPT ![t] =
                   IF Receives(d) /\ queue[d.res] = <<>> /\ PeerClosed(d.res)
                   THEN [@ EXCEPT !.at = "peerClosed"] ELSE Idle]
     /\ UNCHANGED <<table, busy, next, disp, event, waiter, calls, failed>>
     /\ UNCHANGED nodeVars

\* MAY_DISCARD: a message for which there is no room is popped and destroyed;
\* so is one whose dispatchers cannot all be deserialized.
ReadDiscards(t) ==
  LET d == disp[call[t].h]
  IN /\ At(t, "read")
     /\ Receives(d)
     /\ queue[d.res] # <<>>
     /\ lost' = lost \cup {c.res : c \in {x \in ToSet(Head(queue[d.res])) :
                                            x.kind = "pipe"}}
     /\ queue' = [queue EXCEPT ![d.res] = Tail(@)]
     /\ call' = [call EXCEPT ![t] = Idle]
     /\ UNCHANGED <<table, busy, next, disp, pipes, gen, shut, event, waiter,
                    calls, failed>>

\* Deserialize makes a dispatcher of each piece of cargo.
DeserializedPipe(c) == New("pipe", c.res, gen[c.res])
DeserializedThing(c) == New(c.kind, NoEnd, 0)
Deserialized(c) ==
  IF c.kind = "pipe" THEN DeserializedPipe(c) ELSE DeserializedThing(c)

\* The handles that a message's dispatchers get: the test for an overflow is
\* made in 64 bits and never true.
FromTransit(cargo) == [i \in DOMAIN cargo |-> (next + i - 1) % (LastHandle + 1)]

\* A full table takes none of the dispatchers, and all of them are closed.
CloseUntaken(to, ends) ==
  LET all == Inside(ends)
  IN /\ shut' = shut \cup all
     /\ queue' = [e \in End |-> IF e \in all THEN <<>>
                               ELSE IF e = to THEN Tail(queue[e]) ELSE queue[e]]
     /\ event' = event \cup Observers({Peer(e) : e \in all} \ (shut \cup all))

ReadTakes(t) ==
  LET d == disp[call[t].h]
      cargo == Head(queue[d.res])
      ends == {c.res : c \in {x \in ToSet(cargo) : x.kind = "pipe"}}
      to == FromTransit(cargo)
  IN /\ At(t, "read")
     /\ Receives(d)
     /\ queue[d.res] # <<>>
     /\ call' = [call EXCEPT ![t] = Idle]
     /\ IF next = INVALID /\ cargo # <<>>
        THEN CloseUntaken(d.res, ends) /\ UNCHANGED <<table, next, disp, failed>>
        ELSE /\ queue' = [queue EXCEPT ![d.res] = Tail(@)]
             /\ table' = table \cup (ToSet(to) \ {INVALID})
             /\ disp' = [h \in Handle |->
                           IF \E i \in DOMAIN to : to[i] = h
                           THEN Deserialized(cargo[CHOOSE i \in DOMAIN to : to[i] = h])
                           ELSE disp[h]]
             /\ next' = (next + Len(cargo)) % (LastHandle + 1)
             /\ failed' = failed \cup (IF INVALID \in ToSet(to) THEN {"overflow"} ELSE {})
             /\ UNCHANGED <<shut, event>>
     /\ UNCHANGED <<busy, pipes, gen, waiter, calls, lost>>

-----------------------------------------------------------------------------
(* Closing, and the calls on buffers and platform handles.                 *)

\* Removes an entry that is busy, too.
Removable_busy(h) == h \in table

\* HandleTable::GetAndRemoveDispatcher refuses a busy entry.
Removable(h) == h \in table /\ h \notin busy

\* Core::Close: the entry goes under handles_lock_.
Close(t, h) ==
  /\ Calls(t)
  /\ Removable(h)
  /\ table' = table \ {h}
  /\ call' = [call EXCEPT ![t] = [Idle EXCEPT !.at = "close", !.h = h]]
  /\ UNCHANGED <<busy, next, disp, event, waiter, failed>>
  /\ UNCHANGED nodeVars

\* Then the dispatcher is closed; a message pipe cancels those who wait and
\* gives its port back with signal_lock_ released.
ClosePipe(t) ==
  LET h == call[t].h
      d == disp[h]
  IN /\ At(t, "close")
     /\ d.kind = "pipe"
     /\ IF d.closed \/ d.inTransit
        THEN /\ call' = [call EXCEPT ![t] = Idle]
             /\ UNCHANGED <<disp, waiter>>
        ELSE /\ disp' = [disp EXCEPT ![h].closed = TRUE]
             /\ CancelAll({h})
             /\ call' = [call EXCEPT ![t] = IF d.transferred THEN Idle
                                            ELSE [@ EXCEPT !.at = "closePort"]]
     /\ UNCHANGED <<table, busy, next, event, calls, failed>>
     /\ UNCHANGED nodeVars

\* The other dispatchers let go of what they hold.
CloseThing(t) ==
  LET h == call[t].h
  IN /\ At(t, "close")
     /\ disp[h].kind # "pipe"
     /\ disp' = [disp EXCEPT ![h].closed = @ \/ ~disp[h].inTransit]
     /\ call' = [call EXCEPT ![t] = Idle]
     /\ UNCHANGED <<table, busy, next, event, waiter, calls, failed>>
     /\ UNCHANGED nodeVars

ClosePort(t) ==
  /\ At(t, "closePort")
  /\ ClosePorts({disp[call[t].h].res})
  /\ call' = [call EXCEPT ![t] = Idle]
  /\ UNCHANGED <<table, busy, next, disp, pipes, gen, waiter, calls, lost,
                 failed>>

\* PassPlatformHandle, and Close of the dispatcher.
Passed(d) == [d EXCEPT !.closed = TRUE]

\* PassWrappedPlatformHandle: all of it under handles_lock_.  It casts whatever
\* dispatcher it finds; what becomes of one of another kind is undefined, and only
\* kept as a failure.
PassWrappedPlatformHandle(t, h) ==
  /\ Calls(t)
  /\ Removable(h)
  /\ IF disp[h].kind = "platform"
     THEN /\ table' = table \ {h}
          /\ disp' = [disp EXCEPT ![h] = Passed(@)]
          /\ UNCHANGED failed
     ELSE /\ failed' = failed \cup {"cast"}
          /\ UNCHANGED <<table, disp>>
  /\ UNCHANGED <<busy, next, event, waiter, call>>
  /\ UNCHANGED nodeVars

\* MapBuffer and DuplicateBufferHandle look the handle up and then take the
\* dispatcher's lock; both trust that there is a buffer.
UseBuffer(t, h) ==
  /\ Calls(t)
  /\ h \in table
  /\ disp[h].kind = "buffer"
  /\ call' = [call EXCEPT ![t] = [Idle EXCEPT !.at = "buffer", !.h = h]]
  /\ UNCHANGED <<table, busy, next, disp, event, waiter, failed>>
  /\ UNCHANGED nodeVars

BufferCheck(d) == IF d.closed THEN failed \cup {"buffer"} ELSE failed

MapBuffer(t) ==
  /\ At(t, "buffer")
  /\ failed' = BufferCheck(disp[call[t].h])
  /\ call' = [call EXCEPT ![t] = Idle]
  /\ UNCHANGED <<table, busy, next, disp, event, waiter, calls>>
  /\ UNCHANGED nodeVars

\* A new dispatcher for the same memory.
Duplicate(d) == New("buffer", d.res, 0)

DuplicateBufferHandle(t) ==
  LET d == disp[call[t].h]
  IN /\ At(t, "buffer")
     /\ ~d.inTransit
     /\ call' = [call EXCEPT ![t] = Idle]
     /\ IF d.closed THEN failed' = BufferCheck(d) /\ UNCHANGED <<table, next, disp>>
        ELSE AddDispatcher(Duplicate(d), FALSE)
     /\ UNCHANGED <<busy, event, waiter, calls>>
     /\ UNCHANGED nodeVars

-----------------------------------------------------------------------------
\* What a call does once it has begun.
Continue(t) ==
  \/ BeginTransit(t) \/ CheckWrite(t) \/ SendMessage(t) \/ TellPeerClosed(t)
  \/ CompleteTransitAndClose(t) \/ CancelTransit(t)
  \/ CheckRead(t) \/ ReadNothing(t) \/ ReadDiscards(t) \/ ReadTakes(t)
  \/ ClosePipe(t) \/ CloseThing(t) \/ ClosePort(t)
  \/ MapBuffer(t) \/ DuplicateBufferHandle(t)

Next ==
  \/ CreateMessagePipe
  \/ CreateSharedBuffer \/ CreatePlatformHandleWrapper
  \/ \E t \in Thread, h \in table, hs \in Bundles : WriteMessage(t, h, hs)
  \/ \E t \in Thread, h \in table :
       \/ ReadMessage(t, h) \/ Close(t, h)
       \/ PassWrappedPlatformHandle(t, h) \/ UseBuffer(t, h)
  \/ \E t \in Thread : Continue(t)
  \/ \E h \in event : OnPortStatusChanged(h)
  \/ \E w \in Waits : WaitFor(w[1], w[2])
  \/ AddAwakable \/ RemoveAwakable

Spec == Init /\ [][Next]_vars

-----------------------------------------------------------------------------
(* Properties.                                                             *)

\* Types.
TypeOK ==
  /\ table \subseteq Handle /\ busy \subseteq Handle
  /\ next \in 0..LastHandle
  /\ disp \in [Handle -> Dispatcher]
  /\ pipes \in 0..MaxPipes
  /\ gen \in [End -> Nat]
  /\ shut \subseteq End /\ lost \subseteq End
  /\ queue \in [End -> Seq(Seq(Cargo))]
  /\ event \subseteq Handle
  /\ waiter \in Wait
  /\ call \in [Thread -> [at: {"idle", "begin", "check", "send", "peerClosed", "finish",
                               "checkRead", "read", "close", "closePort", "buffer"},
                          h: 0..LastHandle, hs: Seq(Handle), ok: BOOLEAN,
                          sent: BOOLEAN]]
  /\ calls \in 0..MaxCalls
  /\ failed \subseteq {"full", "overflow", "status", "transit", "buffer", "cast"}

\* No check fails but those that a full table, the use of a buffer that is being
\* closed and the cast of PassWrappedPlatformHandle run into.  The node knows the
\* port of a dispatcher that is neither closed nor in transit, whenever somebody
\* asks for its signals (the CHECK of GetHandleSignalsStateNoLock): an event, a wait
\* that begins or ends, a call that met a closed peer, a transit that is cancelled.
\* What was begun is still in the table when the write ends (the DCHECKs of
\* HandleTable).  A dispatcher that neither the table nor a call refers to any more
\* is closed and not in transit, as its destructor checks.
ChecksHold ==
  /\ failed \cap {"status", "transit"} = {}
  /\ \A h \in Handle \ table :
       \/ disp[h].closed /\ ~disp[h].inTransit
       \/ \E t \in Thread : call[t].h = h \/ h \in ToSet(call[t].hs)

\* The places of cargo in unread messages: the queue, the message, the piece.
Packages ==
  UNION {UNION {{<<e, i, j>> : j \in DOMAIN queue[e][i]} : i \in DOMAIN queue[e]} :
           e \in End}
Package(x) == queue[x[1]][x[2]][x[3]]

\* How many own an end: an open dispatcher, a message, a call that closes it, and
\* the node has an end that is closed.
Owners(e) ==
  Cardinality({h \in Handle : /\ disp[h].kind = "pipe" /\ disp[h].res = e
                              /\ disp[h].port = gen[e] /\ ~disp[h].closed})
  + Cardinality({x \in Packages : Package(x).kind = "pipe" /\ Package(x).res = e})
  + Cardinality({t \in Thread : /\ call[t].at = "closePort"
                                /\ disp[call[t].h].res = e})
  + (IF e \in shut THEN 1 ELSE 0)

\* The write that carries h was sent, and has yet to close its dispatcher.
HandedOver(h) ==
  \E t \in Thread : call[t].at = "finish" /\ call[t].sent /\ h \in ToSet(call[t].hs)

\* How many own the platform handle: an open dispatcher that has not handed it
\* over yet, or a message.
PlatformOwners ==
  Cardinality({h \in Handle : /\ disp[h].kind = "platform" /\ ~disp[h].closed
                              /\ ~HandedOver(h)})
  + Cardinality({x \in Packages : Package(x).kind = "platform"})

\* Every end of a pipe has one owner at every moment of every transfer: none is
\* owned twice, and none is forgotten, so that its peer would never hear of a
\* closure, but those that were dropped with a message nobody gets.  These are the
\* ends in a message that a read discards or cannot deserialize, and those of a
\* write whose EndSerialize failed.  A platform handle is closed by one owner at
\* most.
OneOwner ==
  /\ failed = {} => \A e \in End : e[1] <= pipes =>
                                  Owners(e) = IF e \in lost THEN 0 ELSE 1
  /\ PlatformOwners <= 1

\* An entry is busy exactly while its dispatcher is in transit, and that is while
\* one write that carries it is under way: no handle stays unusable after a write
\* that failed.
BusyInTransit ==
  \A h \in Handle :
    /\ h \in busy <=> disp[h].inTransit
    /\ h \in busy => h \in table /\ Cardinality({t \in Thread :
         call[t].at \in {"check", "send", "peerClosed", "finish"} /\ h \in ToSet(call[t].hs)}) = 1

\* Nobody waits for ever: a wait whose signal is there, or can no longer come, is
\* about to be woken by an event, or by the end of a transit or of a close.
NoLostWakeup ==
  Awakes(waiter.h, disp[waiter.h]) =>
    \/ waiter.h \in event
    \/ waiter.h \in busy
    \/ \E t \in Thread : call[t].at = "close" /\ call[t].h = waiter.h

\* A write is all or nothing: when it ends, what it carries has left the table if
\* the message was sent, and is in the table, open and not in transit, if it was
\* not, unless EndSerialize failed: then the write succeeds without a message.
AllOrNothing ==
  [][\A t \in Thread :
       call[t].at = "finish" /\ call'[t].at = "idle" =>
         \A h \in ToSet(call[t].hs) :
           /\ call[t].sent => h \notin table'
           /\ ~call[t].ok => h \in table' /\ ~disp'[h].closed /\ ~disp'[h].inTransit]_vars
=============================================================================
