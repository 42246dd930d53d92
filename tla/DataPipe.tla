------------------------------ MODULE DataPipe ------------------------------
(***************************************************************************)
(* A data pipe: a producer and a consumer dispatcher that share a ring     *)
(* buffer and tell each other over a pair of control ports how many bytes  *)
(* were written and read.  Either end may be sent to another process.      *)
(*                                                                         *)
(* A dispatcher's calls run under its lock, but it drops the lock to send  *)
(* a notification: what is left of such a call is in notes.  The control   *)
(* ports are what Ports shows them to be: ordered, and an end sees the     *)
(* closure of its peer when it has read what came before.                  *)
(***************************************************************************)
EXTENDS Naturals, Sequences, FiniteSetsExt, SequencesExt

CONSTANTS
  Capacity,      \* options_.capacity_num_bytes
  ElementBytes,  \* options_.element_num_bytes
  MaxBytes,      \* bound on the bytes written
  MaxCalls,      \* bound on the calls on one end that have dropped the lock
  MaxMoves,      \* bound on the transits that are begun, of either end
  Waits,         \* [Ends -> SUBSET Signal]: what the holder of an end waits for
  Mappings       \* the outcomes of mapping the buffer: {TRUE} or BOOLEAN

ASSUME DataPipeAssumption ==
  /\ ElementBytes \in Nat \ {0}
  /\ Capacity \in Nat \ {0}
  /\ Capacity % ElementBytes = 0
  /\ MaxBytes \in Nat
  /\ MaxCalls \in Nat \ {0}
  /\ MaxMoves \in Nat
  /\ Waits \in [{"producer", "consumer"} -> SUBSET {"data", "peerClosed"}]
  /\ Mappings \subseteq BOOLEAN

VARIABLES
  d,          \* [Ends -> Dispatcher]: the dispatcher that has the control port
  buf,        \* the ring buffer; a byte is its number in the order of writing
  notes,      \* [Ends -> Seq(Note)]: calls that are about to notify the peer
  wire,       \* [Ends -> Seq(Nat)]: control messages on their way to an end
  queue,      \* [Ends -> Seq(Nat)]: those that its port has received
  peerShut,   \* ends whose port has observed the closure of its peer
  event,      \* ends with a PortStatusChanged call under way
  wait,       \* [Ends -> Waiting]: the awakable of an end
  away,       \* ends that are in a message
  leaving,    \* [Ends -> Leaving]: the sender's dispatcher of an end in transit
  moves,      \* transits begun
  written,    \* bytes written so far
  delivered,  \* the bytes that were taken out, in order
  refused     \* [Ends -> Nat]: bytes whose notification was refused

vars == <<d, buf, notes, wire, queue, peerShut, event, wait, away, leaving,
          moves, written, delivered, refused>>

Ends == {"producer", "consumer"}
Other(e) == IF e = "producer" THEN "consumer" ELSE "producer"

\* offset is write_offset_ or read_offset_, avail is available_capacity_ or
\* bytes_available_, ring says whether shared_ring_buffer_ is set; max is
\* two_phase_max_bytes_read_ and, for the producer, what BeginWriteData granted.
Dispatcher ==
  [ring: BOOLEAN, inTwoPhase: BOOLEAN, inTransit: BOOLEAN, closed: BOOLEAN,
   peerClosed: BOOLEAN, offset: Nat, avail: Nat, max: Nat]
Note == [n: Nat, ends: BOOLEAN]
Waiting == {"none", "data", "peerClosed"}
Leaving == [on: BOOLEAN, wait: Waiting, event: BOOLEAN]
Gone == [on |-> FALSE, wait |-> "none", event |-> FALSE]

Least(a, b) == IF a < b THEN a ELSE b
Total(s) ==
  LET sum[i \in 0..Len(s)] == IF i = 0 THEN 0 ELSE sum[i - 1] + s[i]
  IN sum[Len(s)]
Noted(s) == Total([i \in DOMAIN s |-> s[i].n])

New(e, offset, avail, peerClosed, mapped) ==
  [ring |-> mapped, inTwoPhase |-> FALSE, inTransit |-> FALSE,
   closed |-> FALSE, peerClosed |-> peerClosed, offset |-> offset,
   avail |-> avail, max |-> 0]

Init ==
  /\ d = [e \in Ends |->
            New(e, 0, IF e = "producer" THEN Capacity ELSE 0, FALSE, TRUE)]
  /\ buf = [i \in 0..(Capacity - 1) |-> 0]
  /\ notes = [e \in Ends |-> <<>>]
  /\ wire = [e \in Ends |-> <<>>]
  /\ queue = [e \in Ends |-> <<>>]
  /\ peerShut = {}
  /\ event = {}
  /\ wait = [e \in Ends |-> "none"]
  /\ away = {}
  /\ leaving = [e \in Ends |-> Gone]
  /\ moves = 0
  /\ written = 0
  /\ delivered = <<>>
  /\ refused = [e \in Ends |-> 0]

-----------------------------------------------------------------------------
(* Signals and waiting.                                                    *)

Satisfied(e, r, s) ==
  \/ s = "peerClosed" /\ r.peerClosed
  \/ /\ s = "data"
     /\ r.ring /\ ~r.inTwoPhase /\ r.avail > 0
     /\ e = "producer" => ~r.peerClosed

CanSatisfy(e, r, s) ==
  \/ s = "peerClosed"
  \/ IF e = "producer" THEN ~r.peerClosed
     ELSE r.ring /\ (r.avail > 0 \/ ~r.peerClosed)

\* AwakableList::AwakeForStateChange (external): those whose signal is there,
\* or can no longer come, are woken.
AwakeForStateChange(e, r, w) ==
  IF w # "none" /\ (Satisfied(e, r, w) \/ ~CanSatisfy(e, r, w)) THEN "none"
  ELSE w

Signals(e, r) ==
  [s \in {"data", "peerClosed"} |-> <<Satisfied(e, r, s), CanSatisfy(e, r, s)>>]

\* As soon as the closure is there.
Receiving_atOnce(e) == e \notin peerShut

\* The port has the closure of its peer and all that came before it.
Receiving(e) == ~(e \in peerShut /\ wire[e] = <<>> /\ queue[e] = <<>>)

\* How many of the queued messages fit; one that does not ends the loop.
Fits(e, r) ==
  Max({k \in 0..Len(queue[e]) :
         r.avail + Total(SubSeq(queue[e], 1, k)) <= Capacity})

\* Reads the port also in transit.
Updated_inTransit(e, r) ==
  [r EXCEPT !.avail = @ + Total(SubSeq(queue[e], 1, Fits(e, r))),
            !.peerClosed = @ \/ ~Receiving(e)]

\* UpdateSignalsStateNoLock on a port that is still the dispatcher's own.
Updated(e, r) ==
  LET reads == queue[e] # <<>> /\ ~r.inTransit
      k == Fits(e, r)
      last == e \in peerShut /\ wire[e] = <<>> /\ k = Len(queue[e])
  IN [r EXCEPT
        !.avail = IF reads THEN @ + Total(SubSeq(queue[e], 1, k)) ELSE @,
        !.peerClosed = \/ @
                       \/ ~Receiving(e)
                       \/ reads /\ last
                       \/ reads /\ k < Len(queue[e]) /\ e = "consumer"]

Unread(e, r) ==
  IF r.inTransit THEN queue[e]
  ELSE SubSeq(queue[e], Fits(e, r) + 2, Len(queue[e]))

Changed(r, s) == r.peerClosed # s.peerClosed \/ r.avail # s.avail

\* What OnPortStatusChanged, AddAwakable and the consumer's CancelTransit do
\* to a dispatcher, its queue and its awakable.
Update(e, r) ==
  LET s == Updated(e, r) IN
  /\ d' = [d EXCEPT ![e] = s]
  /\ queue' = [queue EXCEPT ![e] = Unread(e, r)]

Woken(e, r, w) ==
  LET s == Updated(e, r) IN
  IF Changed(r, s) THEN AwakeForStateChange(e, s, w) ELSE w

\* A status change that runs while the dispatcher's port is still its own.
OnPortStatusChanged(e) ==
  /\ e \in event
  /\ event' = event \ {e}
  /\ Update(e, d[e])
  /\ wait' = [wait EXCEPT ![e] = Woken(e, d[e], @)]
  /\ UNCHANGED <<buf, notes, wire, peerShut, away, leaving, moves, written,
                 delivered, refused>>

\* One that runs after the port was sent and before transferred_ is set:
\* GetStatus fails, which is taken for the closure of the peer.
LateStatusChanged(e) ==
  /\ leaving[e].on /\ leaving[e].event
  /\ leaving' = [leaving EXCEPT ![e].event = FALSE, ![e].wait =
                   AwakeForStateChange(e, [d[e] EXCEPT !.peerClosed = TRUE], @)]
  /\ UNCHANGED <<d, buf, notes, wire, queue, peerShut, event, wait, away,
                 moves, written, delivered, refused>>

Usable(e) == d[e].ring /\ ~d[e].inTransit /\ e \notin away

AddAwakable(e, s) ==
  LET r == Updated(e, d[e]) IN
  /\ Usable(e)
  /\ wait[e] = "none"
  /\ Update(e, d[e])
  /\ wait' = [wait EXCEPT ![e] =
                IF Satisfied(e, r, s) \/ ~CanSatisfy(e, r, s) THEN "none" ELSE s]
  /\ UNCHANGED <<buf, notes, wire, peerShut, event, away, leaving, moves,
                 written, delivered, refused>>

\* The deadline of a wait passes.
RemoveAwakable(e) ==
  /\ wait[e] # "none"
  /\ wait' = [wait EXCEPT ![e] = "none"]
  /\ UNCHANGED <<d, buf, notes, wire, queue, peerShut, event, away, leaving,
                 moves, written, delivered, refused>>

-----------------------------------------------------------------------------
(* The producer's calls.                                                   *)

Starts(e, n, ends) ==
  notes' = [notes EXCEPT ![e] = Append(@, [n |-> n, ends |-> ends])]

\* The n cells from an offset on, around the end of the buffer, get the next
\* bytes.
Filled(from, n) ==
  [i \in DOMAIN buf |->
     LET k == (i + Capacity - from) % Capacity
     IN IF k < n THEN written + k + 1 ELSE buf[i]]

\* n is what the caller asks for.  MOJO_WRITE_DATA_FLAG_ALL_OR_NONE refuses
\* only an n beyond the capacity: it does not make the write all or none.
WriteData(n) ==
  LET r == d["producer"]
      k == Least(n, r.avail)
      s == [r EXCEPT !.avail = @ - k, !.offset = (@ + k) % Capacity]
  IN
  /\ Usable("producer")
  /\ ~r.inTwoPhase
  /\ ~r.peerClosed
  /\ n % ElementBytes = 0
  /\ k > 0
  /\ buf' = Filled(r.offset, k)
  /\ d' = [d EXCEPT !["producer"] = s]
  /\ wait' = [wait EXCEPT !["producer"] =
                IF Signals("producer", s) # Signals("producer", r)
                THEN AwakeForStateChange("producer", s, @) ELSE @]
  /\ Starts("producer", k, FALSE)
  /\ written' = written + k
  /\ UNCHANGED <<wire, queue, peerShut, event, away, leaving, moves, delivered,
                 refused>>

\* The caller is given the cells up to the end of the buffer, and fills them.
BeginWriteData ==
  LET r == d["producer"]
      n == Least(Capacity - r.offset, r.avail)
  IN
  /\ Usable("producer")
  /\ ~r.inTwoPhase
  /\ ~r.peerClosed
  /\ r.avail > 0
  /\ d' = [d EXCEPT !["producer"].inTwoPhase = TRUE, !["producer"].max = n]
  /\ buf' = Filled(r.offset, n)
  /\ UNCHANGED <<notes, wire, queue, peerShut, event, wait, away, leaving,
                 moves, written, delivered, refused>>

Ending(e) == \E i \in DOMAIN notes[e] : notes[e][i].ends

\* The last part of EndWriteData: awake if the end is writable (again).
EndsTwoPhaseWrite(r) == [r EXCEPT !.inTwoPhase = FALSE, !.max = 0]
WokenWritable(r, w) ==
  IF Satisfied("producer", r, "data")
  THEN AwakeForStateChange("producer", r, w) ELSE w

EndWriteDataRefuses(r, n) ==
  \/ n > r.avail
  \/ n % ElementBytes # 0
  \/ r.offset + n > Capacity

EndWriteData(n) ==
  LET r == d["producer"] IN
  /\ ~r.closed /\ ~r.inTransit /\ "producer" \notin away
  /\ r.inTwoPhase
  /\ IF EndWriteDataRefuses(r, n)
     THEN LET s == EndsTwoPhaseWrite(r) IN
          /\ d' = [d EXCEPT !["producer"] = s]
          /\ wait' = [wait EXCEPT !["producer"] = WokenWritable(s, @)]
          /\ UNCHANGED <<notes, written>>
     ELSE /\ d' = [d EXCEPT !["producer"].avail = @ - n,
                            !["producer"].offset = (@ + n) % Capacity]
          /\ Starts("producer", n, TRUE)
          /\ written' = written + n
          /\ UNCHANGED wait
  /\ UNCHANGED <<buf, wire, queue, peerShut, event, away, leaving, moves,
                 delivered, refused>>

-----------------------------------------------------------------------------
(* The consumer's calls.                                                   *)

\* Does not wrap around.
Bytes_straight(from, n) == [i \in 1..n |-> buf[Least(from + i - 1, Capacity - 1)]]

Bytes(from, n) == [i \in 1..n |-> buf[(from + i - 1) % Capacity]]

\* A read or a discard.  A peek or a query changes nothing, nor does a call
\* with MOJO_READ_DATA_FLAG_ALL_OR_NONE for more than there is.
ReadData(n) ==
  LET r == d["consumer"]
      k == Least(n, r.avail)
  IN
  /\ Usable("consumer")
  /\ ~r.inTwoPhase
  /\ n % ElementBytes = 0
  /\ k > 0
  /\ d' = [d EXCEPT !["consumer"].offset = (@ + k) % Capacity,
                    !["consumer"].avail = @ - k]
  /\ delivered' = delivered \o Bytes(r.offset, k)
  /\ Starts("consumer", k, FALSE)
  /\ UNCHANGED <<buf, wire, queue, peerShut, event, wait, away, leaving, moves,
                 written, refused>>

BeginReadData ==
  LET r == d["consumer"] IN
  /\ Usable("consumer")
  /\ ~r.inTwoPhase
  /\ r.avail > 0
  /\ d' = [d EXCEPT !["consumer"].inTwoPhase = TRUE,
                    !["consumer"].max = Least(r.avail, Capacity - r.offset)]
  /\ UNCHANGED <<buf, notes, wire, queue, peerShut, event, wait, away, leaving,
                 moves, written, delivered, refused>>

\* The last part of EndReadData; old is the state of the signals before it.
EndsTwoPhaseRead(r) == [r EXCEPT !.inTwoPhase = FALSE, !.max = 0]
WokenIfChanged(e, old, r, w) ==
  IF Signals(e, r) # old THEN AwakeForStateChange(e, r, w) ELSE w

\* Unlike EndWriteData it does not look at is_closed_: in a call that races
\* with Close the CHECK of shared_ring_buffer_ ends the process.
EndReadData(n) ==
  LET r == d["consumer"] IN
  /\ r.inTwoPhase
  /\ ~r.inTransit /\ "consumer" \notin away
  /\ r.ring
  /\ IF n > r.max \/ n % ElementBytes # 0
     THEN LET s == EndsTwoPhaseRead(r) IN
          /\ d' = [d EXCEPT !["consumer"] = s]
          /\ wait' = [wait EXCEPT !["consumer"] =
               WokenIfChanged("consumer", Signals("consumer", r), s, @)]
          /\ UNCHANGED <<notes, delivered>>
     ELSE /\ d' = [d EXCEPT !["consumer"].offset = (@ + n) % Capacity,
                            !["consumer"].avail = @ - n]
          /\ delivered' = delivered \o Bytes(r.offset, n)
          /\ Starts("consumer", n, TRUE)
          /\ UNCHANGED wait
  /\ UNCHANGED <<buf, wire, queue, peerShut, event, away, leaving, moves,
                 written, refused>>

-----------------------------------------------------------------------------
(* Notifications and the control ports.                                    *)

\* SendDataPipeControlMessage: a peer that is known to be closed, or is, gets
\* nothing.
Sent(e, n) ==
  IF e \in peerShut \/ d[Other(e)].closed THEN wire
  ELSE [wire EXCEPT ![Other(e)] = Append(@, n)]

\* NotifyWrite or NotifyRead, and the rest of the call.  EndReadData compares
\* with the signals of a dispatcher in a two-phase read with data.
Notify(e, i) ==
  LET note == notes[e][i]
      r == IF e = "producer" THEN EndsTwoPhaseWrite(d[e])
           ELSE EndsTwoPhaseRead(d[e])
      before == [d[e] EXCEPT !.avail = 1, !.inTwoPhase = TRUE]
  IN
  /\ wire' = Sent(e, note.n)
  /\ notes' = [notes EXCEPT ![e] = RemoveAt(@, i)]
  /\ IF note.ends
     THEN /\ d' = [d EXCEPT ![e] = r]
          /\ wait' = [wait EXCEPT ![e] =
               IF e = "producer" THEN WokenWritable(r, @)
               ELSE WokenIfChanged(e, Signals(e, before), r, @)]
     ELSE UNCHANGED <<d, wait>>
  /\ UNCHANGED <<buf, queue, peerShut, event, away, leaving, moves, written,
                 delivered, refused>>

\* The port has an observer unless it travels.
Raised(e) == IF e \in away THEN event ELSE event \cup {e}

\* A control message reaches the port.
Deliver(e) ==
  /\ wire[e] # <<>>
  /\ wire' = [wire EXCEPT ![e] = Tail(@)]
  /\ queue' = [queue EXCEPT ![e] = Append(@, Head(wire[e]))]
  /\ event' = Raised(e)
  /\ UNCHANGED <<d, buf, notes, peerShut, wait, away, leaving, moves, written,
                 delivered, refused>>

\* Tells nobody.
ObserveClosure_silent(e) ==
  /\ d[Other(e)].closed /\ ~d[e].closed /\ e \notin peerShut
  /\ peerShut' = peerShut \cup {e}
  /\ UNCHANGED <<d, buf, notes, wire, queue, event, wait, away, leaving, moves,
                 written, delivered, refused>>

ObserveClosure(e) ==
  /\ d[Other(e)].closed
  /\ ~d[e].closed
  /\ e \notin peerShut
  /\ peerShut' = peerShut \cup {e}
  /\ event' = Raised(e)
  /\ UNCHANGED <<d, buf, notes, wire, queue, wait, away, leaving, moves,
                 written, delivered, refused>>

-----------------------------------------------------------------------------
(* Closing an end, and sending it in a message.                            *)

\* CloseNoLock.  Calls that still have to notify find the port closed.
Close(e) ==
  /\ ~d[e].closed /\ ~d[e].inTransit /\ e \notin away
  /\ d' = [d EXCEPT ![e].closed = TRUE, ![e].ring = FALSE,
                    ![e].inTwoPhase = @ /\ ~Ending(e)]
  /\ wait' = [wait EXCEPT ![e] = "none"]
  /\ refused' = [refused EXCEPT ![e] = @ + Noted(notes[e])]
  /\ notes' = [notes EXCEPT ![e] = <<>>]
  /\ wire' = [wire EXCEPT ![e] = <<>>]
  /\ queue' = [queue EXCEPT ![e] = <<>>]
  /\ event' = event \ {e}
  /\ UNCHANGED <<buf, peerShut, away, leaving, moves, written, delivered>>

BeginTransit(e) ==
  /\ moves < MaxMoves
  /\ ~leaving[e].on
  /\ ~d[e].closed /\ e \notin away
  /\ ~d[e].inTransit
  /\ ~d[e].inTwoPhase
  /\ d' = [d EXCEPT ![e].inTransit = TRUE]
  /\ moves' = moves + 1
  /\ UNCHANGED <<buf, notes, wire, queue, peerShut, event, wait, away, leaving,
                 written, delivered, refused>>

\* The consumer does not catch up either.
CancelTransit_stale(e) ==
  /\ d[e].inTransit
  /\ d' = [d EXCEPT ![e].inTransit = FALSE]
  /\ wait' = [wait EXCEPT
       ![e] = AwakeForStateChange(e, [d[e] EXCEPT !.inTransit = FALSE], @)]
  /\ UNCHANGED <<buf, notes, wire, queue, peerShut, event, away, leaving,
                 moves, written, delivered, refused>>

\* The consumer catches up with its port, the producer does not.
CancelTransit(e) ==
  LET r == [d[e] EXCEPT !.inTransit = FALSE] IN
  /\ d[e].inTransit
  /\ IF e = "consumer"
     THEN /\ Update(e, r)
          /\ wait' = [wait EXCEPT ![e] = Woken(e, r, @)]
     ELSE /\ d' = [d EXCEPT ![e] = r]
          /\ wait' = [wait EXCEPT ![e] = AwakeForStateChange(e, r, @)]
          /\ UNCHANGED queue
  /\ UNCHANGED <<buf, notes, wire, peerShut, event, away, leaving, moves,
                 written, delivered, refused>>

\* EndSerialize, and the message goes out with the control port: what the old
\* dispatcher sends from now on is refused.  In between in_transit_ keeps the
\* serialized numbers as they are.  d[e] stands for the serialized state.  A
\* dispatcher that could not map its buffer has none to duplicate: the null
\* dereference is not a step here.
EndSerialize(e) ==
  /\ d[e].inTransit
  /\ d[e].ring
  /\ d' = [d EXCEPT ![e].inTransit = FALSE]
  /\ away' = away \cup {e}
  /\ leaving' = [leaving EXCEPT
                   ![e] = [on |-> TRUE, wait |-> wait[e], event |-> e \in event]]
  /\ wait' = [wait EXCEPT ![e] = "none"]
  /\ event' = event \ {e}
  /\ refused' = [refused EXCEPT ![e] = @ + Noted(notes[e])]
  /\ notes' = [notes EXCEPT ![e] = <<>>]
  /\ UNCHANGED <<buf, wire, queue, peerShut, moves, written, delivered>>

\* transferred_ is set, the awakables are cancelled.
CompleteTransitAndClose(e) ==
  /\ leaving[e].on
  /\ leaving' = [leaving EXCEPT ![e] = Gone]
  /\ UNCHANGED <<d, buf, notes, wire, queue, peerShut, event, wait, away,
                 moves, written, delivered, refused>>

\* A new dispatcher takes over; it observes the port but does not look at it.
Deserialize(e, mapped) ==
  /\ e \in away
  /\ away' = away \ {e}
  /\ d' = [d EXCEPT ![e] = New(e, @.offset, @.avail, @.peerClosed, mapped)]
  /\ UNCHANGED <<buf, notes, wire, queue, peerShut, event, wait, leaving,
                 moves, written, delivered, refused>>

-----------------------------------------------------------------------------
Room(e) == Len(notes[e]) < MaxCalls

\* What a caller asks for: bounds of the model.
Writes == IF Room("producer") THEN 1..(MaxBytes - written) ELSE {}
Reads == IF Room("consumer") THEN 1..Capacity ELSE {}

\* What a caller claims to have done in a two-phase operation: as much as it
\* was given, or too much.  One of no bytes notifies too; bound: one at a time.
\* A caller ends what it began once: in_two_phase_write_ is still set while the
\* first EndWriteData notifies, and a second one on another thread would be let in.
Quiet(e) == wire[Other(e)] = <<>> /\ queue[Other(e)] = <<>>
Claims(e) ==
  IF ~Room(e) \/ Ending(e) THEN {}
  ELSE (IF Quiet(e) THEN 0..d[e].max ELSE 1..d[e].max)
         \cup {Capacity + ElementBytes}

ProducerCall ==
  \/ \E n \in Writes : WriteData(n)
  \/ Writes # {} /\ BeginWriteData
  \/ \E n \in Claims("producer") : EndWriteData(n)

ConsumerCall ==
  \/ \E n \in Reads : ReadData(n)
  \/ Reads # {} /\ BeginReadData
  \/ \E n \in Claims("consumer") : EndReadData(n)

Await(e) ==
  \/ \E s \in Waits[e] : AddAwakable(e, s)
  \/ RemoveAwakable(e)

Transit(e) ==
  \/ BeginTransit(e)
  \/ CancelTransit(e)
  \/ EndSerialize(e)
  \/ CompleteTransitAndClose(e)
  \/ \E m \in Mappings : Deserialize(e, m)

ControlPort(e) ==
  \/ \E i \in DOMAIN notes[e] : Notify(e, i)
  \/ Deliver(e)
  \/ ObserveClosure(e)
  \/ OnPortStatusChanged(e)
  \/ LateStatusChanged(e)

\* The two classes have these parts in common.
ProducerAwait == Await("producer")
ConsumerAwait == Await("consumer")
ProducerTransit == Transit("producer")
ConsumerTransit == Transit("consumer")
ProducerPort == ControlPort("producer")
ConsumerPort == ControlPort("consumer")
ProducerClose == Close("producer")
ConsumerClose == Close("consumer")

Next ==
  \/ ProducerCall \/ ProducerAwait \/ ProducerTransit \/ ProducerPort
  \/ ConsumerCall \/ ConsumerAwait \/ ConsumerTransit \/ ConsumerPort
  \/ ProducerClose \/ ConsumerClose

Spec == Init /\ [][Next]_vars

\* The consumer's port gets what is sent to it, a status change that is under
\* way is handled, and a message that takes the end along is sent or given up.
FairSpec ==
  /\ Spec
  /\ WF_vars(Deliver("consumer") \/ ObserveClosure("consumer"))
  /\ WF_vars(OnPortStatusChanged("consumer"))
  /\ WF_vars(CancelTransit("consumer") \/ EndSerialize("consumer"))

-----------------------------------------------------------------------------
(* Properties.                                                             *)

\* The types; a dispatcher's numbers stay within the ring buffer.
TypeOK ==
  /\ d \in [Ends -> Dispatcher]
  /\ \A e \in Ends : d[e].offset < Capacity /\ d[e].avail <= Capacity
  /\ buf \in [0..(Capacity - 1) -> Nat]
  /\ notes \in [Ends -> Seq(Note)]
  /\ wire \in [Ends -> Seq(Nat)]
  /\ queue \in [Ends -> Seq(Nat)]
  /\ peerShut \subseteq Ends /\ event \subseteq Ends /\ away \subseteq Ends
  /\ wait \in [Ends -> Waiting]
  /\ leaving \in [Ends -> Leaving]
  /\ moves \in Nat
  /\ written \in Nat /\ delivered \in Seq(Nat)
  /\ refused \in [Ends -> Nat]

\* The bytes an end has told, or is about to tell, its peer about.
Reported(e) == Noted(notes[e]) + Total(wire[Other(e)]) + Total(queue[Other(e)])

\* Every cell of the ring belongs to one side or is on its way to the other:
\* available_capacity_, bytes_available_ and the DATA_WAS_WRITTEN and
\* DATA_WAS_READ messages between them add up to the capacity, also while the
\* ends move.  Only a notification that was refused is missing.
Accounting ==
  (\A e \in Ends : ~d[e].closed) =>
    d["producer"].avail + Reported("producer") + d["consumer"].avail
      + Reported("consumer") + refused["producer"] + refused["consumer"]
    = Capacity

\* A waiter is woken: it never waits for a signal that is there or cannot
\* come, and not for control messages or a closure that its port has already
\* received, unless a status change or the call that ends a two-phase
\* operation is still to run.  The producer's
\* CancelTransit does not look at what came during the transit; the
\* messages it leaves behind wait for the next status change.
NoLostWakeup ==
  \A e \in Ends : wait[e] # "none" =>
    /\ ~Ending(e) =>
         ~Satisfied(e, d[e], wait[e]) /\ CanSatisfy(e, d[e], wait[e])
    /\ \/ e \in event
       \/ d[e].inTransit
       \/ e = "producer" /\ moves > 0
       \/ queue[e] = <<>> /\ (Receiving(e) \/ d[e].peerClosed)

\* peer_closed_ is set only when the peer is closed, and the consumer's only
\* when it knows of every byte that was written and not refused.
ClosureTrue ==
  \A e \in Ends : d[e].peerClosed =>
    /\ d[Other(e)].closed
    /\ e = "consumer" /\ ~d[e].closed =>
         Len(delivered) + d[e].avail + refused["producer"] = written

\* The data pipe implements the byte stream.
Stream == INSTANCE ByteStream WITH
  closed <- {e \in Ends : d[e].closed},
  told <- {e \in Ends : d[e].peerClosed}
ImplementsStream == Stream!Spec

\* A consumer that waits for the closure of the producer is told of it, also
\* if either was sent, or a send of it was given up, meanwhile.
ClosureHeard ==
  <>[](d["producer"].closed => wait["consumer"] # "peerClosed")
=============================================================================
