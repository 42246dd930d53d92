------------------------------- MODULE Channel -------------------------------
(***************************************************************************)
(* A channel: messages over a stream socket, one direction of it.  Threads *)
(* write at the sending side; what the socket does not take waits in       *)
(* outgoing_messages_ for the I/O thread.  The I/O thread of the receiving *)
(* side puts the bytes in its read buffer, takes the messages out of it    *)
(* and gives each the platform handles that its header asks for.           *)
(***************************************************************************)
EXTENDS Naturals, Sequences, FiniteSetsExt, SequencesExt

CONSTANTS
  Size,         \* Size[m]: the bytes of the m-th message, its header included
  WithHandle,   \* the messages that carry a platform handle
  HeaderBytes,  \* sizeof(Message::Header)
  SocketBytes,  \* what the socket holds
  ReadBytes,    \* kReadBufferSize
  MaxUnused,    \* kMaxUnusedReadBufferCapacity
  MayShutDown   \* the sides that may be shut down

Messages == DOMAIN Size
Sides == {"sender", "receiver"}

ASSUME ChannelAssumption ==
  /\ Size \in Seq(Nat)
  /\ WithHandle \subseteq Messages
  /\ HeaderBytes \in Nat \ {0} /\ \A m \in Messages : Size[m] >= HeaderBytes
  /\ SocketBytes \in Nat \ {0} /\ ReadBytes \in Nat \ {0} /\ MaxUnused \in Nat
  /\ MayShutDown \subseteq Sides

VARIABLES
  written,       \* messages passed to Write
  outgoing,      \* outgoing_messages_
  pendingWrite,  \* pending_write_: the socket is watched for writing
  rejectWrites,  \* reject_writes_
  watching,      \* whether the sender's write_watcher_ is set
  tasks,         \* the tasks posted to the sender's I/O thread
  wire,          \* the bytes in the socket
  buffer,        \* the receiver's read buffer
  incoming,      \* incoming_platform_handles_
  hint,          \* next_read_size of a read loop under way, or 0
  lastRead,      \* bytes_read of that loop
  reading,       \* whether the receiver's read_watcher_ is set
  dispatched,    \* what OnChannelMessage was called with
  delegate,      \* sides with a delegate_
  open,          \* sides whose handle_ is open
  told,          \* sides whose OnChannelError was called
  dropped,       \* messages whose handles were dropped by a send that blocked
  early          \* whether a write blocked before the watchers were set

senderVars == <<written, outgoing, pendingWrite, rejectWrites, watching, tasks,
                dropped, early>>
receiverVars == <<buffer, incoming, hint, lastRead, reading, dispatched>>
sideVars == <<delegate, open, told>>
vars == <<senderVars, receiverVars, sideVars, wire>>

\* A byte: the message, its position, and the handle sent along with it.
Byte == [m: Messages, i: Nat, rights: BOOLEAN]
View == [m: Messages, off: Nat, handles: BOOLEAN]
Least(a, b) == IF a < b THEN a ELSE b
Most(a, b) == IF a > b THEN a ELSE b
Total(s) ==
  LET sum[i \in 0..Len(s)] == IF i = 0 THEN 0 ELSE sum[i - 1] + s[i]
  IN sum[Len(s)]

\* StartOnIOThread has been posted.
Init ==
  /\ written = 0
  /\ outgoing = <<>>
  /\ pendingWrite = FALSE
  /\ rejectWrites = FALSE
  /\ watching = FALSE
  /\ tasks = <<"start">>
  /\ wire = <<>>
  /\ buffer = [size |-> ReadBytes, discarded |-> 0, occupied |-> 0, bytes |-> <<>>]
  /\ incoming = <<>>
  /\ hint = 0
  /\ lastRead = 0
  /\ reading = TRUE
  /\ dispatched = <<>>
  /\ delegate = Sides
  /\ open = Sides
  /\ told = {}
  /\ dropped = {}
  /\ early = FALSE

-----------------------------------------------------------------------------
(* Writing, under write_lock_.                                             *)

NewView(m) == [m |-> m, off |-> 0, handles |-> m \in WithHandle]

Remaining(v) == Size[v.m] - v.off

\* The bytes of a view that a send takes; handles go with the first of them.
Sent(v, k) ==
  [i \in 1..k |-> [m |-> v.m, i |-> v.off + i, rights |-> v.handles /\ i = 1]]

\* How many of the views the socket takes whole.
Whole(views) ==
  Max({j \in 0..Len(views) :
         Total([i \in 1..j |-> Remaining(views[i])]) <= SocketBytes - Len(wire)})

\* Starts over with the message.
Requeued_again(v, k) == [v EXCEPT !.handles = FALSE]

\* What is left of a view when a send has blocked after k more bytes; its
\* handles are gone, whether they were sent or not.
Requeued(v, k) == [v EXCEPT !.off = @ + k, !.handles = FALSE]

\* Puts the view that was requeued behind the others.
Repopulated_behind(v, rest) == Append(rest, v)

Repopulated(v, rest) == <<v>> \o rest

\* WaitForWriteOnIOThreadNoLock, on the I/O thread or on another one.
WaitForWrite(onIO, ts) ==
  /\ early' = (early \/ (~pendingWrite /\ ~watching))
  /\ IF pendingWrite \/ ~watching THEN pendingWrite' = pendingWrite /\ tasks' = ts
     ELSE IF onIO THEN pendingWrite' = TRUE /\ tasks' = ts
     ELSE pendingWrite' = pendingWrite /\ tasks' = Append(ts, "wait")

\* A send fails for good when the socket is closed at one end.
Broken == open # Sides

\* WriteNoLock for one view after the other until one blocks: that one is
\* requeued in front of the rest.
WriteViews(views) ==
  LET j == Whole(views)
      v == views[j + 1]
      k == SocketBytes - Len(wire) - Total([i \in 1..j |-> Remaining(views[i])])
      sent == FlattenSeq([i \in 1..j |-> Sent(views[i], Remaining(views[i]))])
  IN IF j = Len(views)
     THEN /\ wire' = wire \o sent
          /\ outgoing' = <<>>
          /\ UNCHANGED dropped
     ELSE /\ wire' = wire \o sent \o Sent(v, k)
          /\ outgoing' = Repopulated(Requeued(v, k), SubSeq(views, j + 2, Len(views)))
          /\ dropped' = dropped \cup {x \in {v.m} : k = 0 /\ v.handles}

Blocks(views) == Whole(views) < Len(views)

\* Write, on any thread: a message goes straight to the socket if none waits.
Write(onIO) ==
  LET v == NewView(written + 1)
  IN /\ written < Len(Size)
     /\ "sender" \in delegate
     /\ written' = written + 1
     /\ IF rejectWrites
        THEN UNCHANGED <<outgoing, pendingWrite, rejectWrites, tasks, wire,
                         dropped, early>>
        ELSE IF outgoing # <<>>
        THEN /\ outgoing' = Append(outgoing, v)
             /\ UNCHANGED <<pendingWrite, rejectWrites, tasks, wire, dropped, early>>
        ELSE IF Broken
        THEN /\ rejectWrites' = TRUE
             /\ tasks' = Append(tasks, "error")
             /\ UNCHANGED <<outgoing, pendingWrite, wire, dropped, early>>
        ELSE /\ WriteViews(<<v>>)
             /\ IF Blocks(<<v>>) THEN WaitForWrite(onIO, tasks)
                ELSE UNCHANGED <<pendingWrite, tasks, early>>
             /\ UNCHANGED rejectWrites
     /\ UNCHANGED <<watching>>
     /\ UNCHANGED receiverVars
     /\ UNCHANGED sideVars

\* What is requeued by a flush has the socket watched again: pending_write_ is
\* reset before.
FlushWaits ==
  /\ pendingWrite' = Blocks(outgoing)
  /\ UNCHANGED <<early, tasks>>

\* The write watcher calls.
CanWrite == pendingWrite /\ watching /\ (Len(wire) < SocketBytes \/ Broken)

\* OnFileCanWriteWithoutBlocking and FlushOutgoingMessagesNoLock.
OnFileCanWrite ==
  /\ CanWrite
  /\ IF Broken /\ outgoing # <<>>
     THEN /\ rejectWrites' = TRUE
          /\ pendingWrite' = FALSE
          /\ outgoing' = <<>>
          /\ told' = told \cup (delegate \cap {"sender"})
          /\ UNCHANGED <<wire, dropped, early, tasks>>
     ELSE /\ WriteViews(outgoing)
          /\ FlushWaits
          /\ UNCHANGED <<rejectWrites, told>>
  /\ UNCHANGED <<written, watching, delegate, open>>
  /\ UNCHANGED receiverVars

-----------------------------------------------------------------------------
(* The tasks of the sender's I/O thread.                                   *)

StartOnIOThread ==
  /\ tasks # <<>> /\ Head(tasks) = "start"
  /\ tasks' = Tail(tasks)
  /\ watching' = TRUE
  /\ UNCHANGED <<written, outgoing, pendingWrite, rejectWrites, dropped, early, wire>>
  /\ UNCHANGED receiverVars
  /\ UNCHANGED sideVars

WaitForWriteOnIOThread ==
  /\ tasks # <<>> /\ Head(tasks) = "wait"
  /\ WaitForWrite(TRUE, Tail(tasks))
  /\ UNCHANGED <<written, outgoing, rejectWrites, watching, dropped, wire>>
  /\ UNCHANGED receiverVars
  /\ UNCHANGED sideVars

OnError ==
  /\ tasks # <<>> /\ Head(tasks) = "error"
  /\ tasks' = Tail(tasks)
  /\ told' = told \cup (delegate \cap {"sender"})
  /\ UNCHANGED <<written, outgoing, pendingWrite, rejectWrites, watching, dropped,
                 early, wire, delegate, open>>
  /\ UNCHANGED receiverVars

\* ShutDown at the sending side: the delegate is gone at once.
ShutDownSender ==
  /\ "sender" \in delegate \cap MayShutDown
  /\ delegate' = delegate \ {"sender"}
  /\ tasks' = Append(tasks, "shutdown")
  /\ UNCHANGED <<written, outgoing, pendingWrite, rejectWrites, watching, dropped,
                 early, wire, open, told>>
  /\ UNCHANGED receiverVars

ShutDownOnIOThread ==
  /\ tasks # <<>> /\ Head(tasks) = "shutdown"
  /\ tasks' = Tail(tasks)
  /\ watching' = FALSE
  /\ open' = open \ {"sender"}
  /\ UNCHANGED <<written, outgoing, pendingWrite, rejectWrites, dropped, early, wire,
                 delegate, told>>
  /\ UNCHANGED receiverVars

\* The sender reads from the same socket and sees its end.
SenderSeesEnd ==
  /\ watching
  /\ "receiver" \notin open
  /\ "sender" \in delegate \ told
  /\ told' = told \cup {"sender"}
  /\ UNCHANGED <<delegate, open, wire>>
  /\ UNCHANGED senderVars
  /\ UNCHANGED receiverVars

-----------------------------------------------------------------------------
(* Reading, on the receiver's I/O thread.                                  *)

\* ReadBuffer::Reserve.
Reserve(b, n) ==
  [b EXCEPT !.size = IF b.occupied + n > @ THEN Most(2 * @, b.occupied + n) ELSE @]

\* ReadBuffer::Discard: the n first bytes are forgotten.
Discard(b, n) ==
  LET left == SubSeq(b.bytes, n + 1, Len(b.bytes))
  IN IF left = <<>>
     THEN [b EXCEPT !.discarded = 0, !.occupied = 0, !.bytes = <<>>]
     ELSE IF b.discarded + n > MaxUnused
     THEN [size |-> Most(Len(left), ReadBytes), discarded |-> 0,
           occupied |-> Len(left), bytes |-> left]
     ELSE [b EXCEPT !.discarded = @ + n, !.bytes = left]

\* What OnReadComplete works on.
Reader(b, rights, delegated) ==
  [buffer |-> b, incoming |-> rights, dispatched |-> <<>>, delegated |-> delegated,
   hint |-> 0, error |-> FALSE, on |-> TRUE]

\* The loop is left with the hint for the next read.
Leave(r) ==
  [r EXCEPT !.on = FALSE, !.hint = IF r.dispatched # <<>> THEN 0 ELSE ReadBytes]

\* GetReadPlatformHandles has too few handles for the message.
HandlesMissing(m, rights) == m \in WithHandle /\ rights = <<>>

\* GetReadPlatformHandles: how many handles it takes for a message.
Taken(m, rights) == IF m \in WithHandle THEN Least(1, Len(rights)) ELSE 0

\* OnChannelMessage; the delegate may shut its channel down in it.
Dispatch(r, m, shutsDown) ==
  LET b == r.buffer.bytes
      n == Taken(m, r.incoming)
      message == [m |-> m, handles |-> SubSeq(r.incoming, 1, n),
                  intact |-> \A i \in 1..Size[m] : b[i].m = m /\ b[i].i = i]
  IN [r EXCEPT !.dispatched = IF r.delegated THEN Append(@, message) ELSE @,
               !.incoming = SubSeq(@, n + 1, Len(@)),
               !.delegated = @ /\ m # shutsDown,
               !.buffer = Discard(@, Size[m])]

\* One round of the loop of OnReadComplete.
TakeMessage(r, shutsDown) ==
  LET b == r.buffer.bytes
      m == b[1].m
  IN IF Len(b) < HeaderBytes THEN Leave(r)
     ELSE IF b[1].i # 1 THEN [r EXCEPT !.on = FALSE, !.error = TRUE]
     ELSE IF Len(b) < Size[m] THEN [r EXCEPT !.on = FALSE, !.hint = Size[m] - Len(b)]
     ELSE IF HandlesMissing(m, r.incoming) THEN Leave(r)
     ELSE Dispatch(r, m, shutsDown)

\* OnReadComplete: takes the messages that are complete.
OnReadComplete(r, shutsDown) ==
  LET rounds[n \in 0..(Len(Size) + 1)] ==
        IF n = 0 THEN r
        ELSE LET last == rounds[n - 1]
             IN IF last.on THEN TakeMessage(last, shutsDown) ELSE last
  IN rounds[Len(Size) + 1]

\* PlatformChannelRecvmsg: the handles that came with the bytes.
Rights(bytes) == SelectSeq(bytes, LAMBDA b : b.rights)

Claim(b, bytes) ==
  [b EXCEPT !.occupied = @ + Len(bytes),
            !.bytes = @ \o [i \in 1..Len(bytes) |-> [m |-> bytes[i].m, i |-> bytes[i].i]]]

\* The read watcher calls, or its loop goes on.
CanRead == reading /\ "receiver" \in open

ReadFails ==
  /\ reading' = FALSE
  /\ hint' = 0
  /\ lastRead' = 0

\* What a read of k bytes makes of the read buffer.
AfterRead(k, capacity, shutsDown) ==
  LET got == SubSeq(wire, 1, k)
      rights == Rights(got)
  IN OnReadComplete(Reader(Claim(Reserve(buffer, capacity), got),
                           incoming \o [i \in 1..Len(rights) |-> rights[i].m],
                           "receiver" \in delegate),
                    shutsDown)

\* OnFileCanReadWithoutBlocking: one read of its loop, of k bytes.  A loop that
\* has filled the space it offered goes on, unless it has read enough.
OnFileCanRead(k, shutsDown, enough) ==
  LET capacity == IF hint = 0 THEN ReadBytes ELSE hint
  IN /\ CanRead
     /\ k \in 1..Least(capacity, Len(wire))
     /\ wire' = SubSeq(wire, k + 1, Len(wire))
     /\ \E r \in {AfterRead(k, capacity, shutsDown)} :
          /\ buffer' = r.buffer
          /\ incoming' = r.incoming
          /\ dispatched' = dispatched \o r.dispatched
          /\ delegate' = IF r.delegated THEN delegate ELSE delegate \ {"receiver"}
          /\ IF r.error
             THEN /\ ReadFails
                  /\ told' = told \cup {s \in {"receiver"} : r.delegated}
             ELSE /\ \E more \in {k = capacity /\ r.hint > 0 /\ ~enough} :
                       /\ hint' = IF more THEN r.hint ELSE 0
                       /\ lastRead' = IF more THEN k ELSE 0
                  /\ UNCHANGED <<reading, told>>
     /\ UNCHANGED open
     /\ UNCHANGED senderVars

\* The loop reads again and nothing is there: bytes_read is still that of the
\* read before, and the loop spins as long as it is what this one offered.
ReadWouldBlock ==
  /\ CanRead
  /\ hint > 0 /\ wire = <<>> /\ "sender" \in open
  /\ lastRead # hint
  /\ hint' = 0
  /\ lastRead' = 0
  /\ buffer' = Reserve(buffer, hint)
  /\ UNCHANGED <<incoming, reading, dispatched, wire>>
  /\ UNCHANGED senderVars
  /\ UNCHANGED sideVars

\* Takes the end for a read that would block.
ReadEnds_silent ==
  /\ CanRead
  /\ wire = <<>> /\ "sender" \notin open
  /\ ReadFails
  /\ UNCHANGED <<buffer, incoming, dispatched, wire, delegate, open, told>>
  /\ UNCHANGED senderVars

\* The read returns 0: the other end is closed.
ReadEnds ==
  /\ CanRead
  /\ wire = <<>> /\ "sender" \notin open
  /\ ReadFails
  /\ told' = told \cup (delegate \cap {"receiver"})
  /\ UNCHANGED <<buffer, incoming, dispatched, wire, delegate, open>>
  /\ UNCHANGED senderVars

\* ShutDown at the receiving side.
ShutDownReceiver ==
  /\ "receiver" \in delegate \cap MayShutDown
  /\ delegate' = delegate \ {"receiver"}
  /\ UNCHANGED <<open, told, wire>>
  /\ UNCHANGED senderVars
  /\ UNCHANGED receiverVars

\* ShutDownOnIOThread there, between two tasks of that thread.
CloseReceiver ==
  /\ "receiver" \in open \ delegate
  /\ hint = 0
  /\ reading' = FALSE
  /\ open' = open \ {"receiver"}
  /\ wire' = <<>>
  /\ UNCHANGED <<buffer, incoming, hint, lastRead, dispatched, delegate, told>>
  /\ UNCHANGED senderVars

-----------------------------------------------------------------------------
Receive ==
  \E k \in 1..SocketBytes, enough \in BOOLEAN,
     m \in IF "receiver" \in MayShutDown THEN 0..Len(Size) ELSE {0} :
    OnFileCanRead(k, m, enough)

IOThread ==
  \/ StartOnIOThread \/ WaitForWriteOnIOThread \/ OnError \/ ShutDownOnIOThread

Next ==
  \/ \E onIO \in BOOLEAN : Write(onIO)
  \/ OnFileCanWrite
  \/ StartOnIOThread \/ WaitForWriteOnIOThread \/ OnError \/ ShutDownOnIOThread
  \/ ShutDownSender
  \/ SenderSeesEnd
  \/ Receive
  \/ ReadWouldBlock
  \/ ReadEnds
  \/ ShutDownReceiver
  \/ CloseReceiver

\* WF_vars(Receive), whose enabling condition is that the socket can be read.
FairReads == []<>~(CanRead /\ wire # <<>>) \/ []<><<Receive>>_vars

\* WF_vars(OnFileCanWrite), in the same way.
FairWrites == []<>~CanWrite \/ []<><<OnFileCanWrite>>_vars

\* The message loops run their tasks and serve a ready descriptor.
Fairness ==
  /\ WF_vars(IOThread)
  /\ FairWrites
  /\ WF_vars(SenderSeesEnd)
  /\ FairReads
  /\ WF_vars(ReadWouldBlock)
  /\ WF_vars(ReadEnds)
  /\ WF_vars(CloseReceiver)

FairSpec == Init /\ [][Next]_vars /\ Fairness

-----------------------------------------------------------------------------
(* Properties.                                                             *)

\* Types; a message in outgoing_messages_ has bytes left, and the socket holds no
\* more than it can.
TypeOK ==
  /\ written \in 0..Len(Size)
  /\ \A i \in DOMAIN outgoing : outgoing[i] \in View /\ outgoing[i].off < Size[outgoing[i].m]
  /\ pendingWrite \in BOOLEAN /\ rejectWrites \in BOOLEAN /\ watching \in BOOLEAN
  /\ tasks \in Seq({"start", "wait", "error", "shutdown"})
  /\ wire \in Seq(Byte) /\ Len(wire) <= SocketBytes
  /\ incoming \in Seq(Messages)
  /\ hint \in Nat /\ lastRead \in Nat /\ reading \in BOOLEAN
  /\ delegate \subseteq Sides /\ open \subseteq Sides /\ told \subseteq Sides
  /\ dropped \subseteq Messages /\ early \in BOOLEAN

\* The delegate gets whole messages, in the order they were written, each with the
\* handles it was written with unless a blocked send has dropped handles.
InOrder ==
  \A i \in DOMAIN dispatched :
    /\ dispatched[i].m = i /\ dispatched[i].intact
    /\ dropped = {} => dispatched[i].handles = IF i \in WithHandle THEN <<i>> ELSE <<>>

\* Every message written is dispatched, unless an end is shut down, a write
\* blocked before the channel was started, or a blocked send dropped handles.
Delivered ==
  \A m \in Messages :
    written >= m ~> Len(dispatched) >= m \/ delegate # Sides \/ early \/ dropped # {}

\* An end that is closed is noticed at the other one, if that keeps a delegate.
ErrorTold ==
  /\ "sender" \notin open ~> "receiver" \in told \/ "receiver" \notin delegate
  /\ "receiver" \notin open ~> "sender" \in told \/ "sender" \notin delegate
=============================================================================
