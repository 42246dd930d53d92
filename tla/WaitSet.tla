------------------------------- MODULE WaitSet -------------------------------
(***************************************************************************)
(* A wait set: one handle to wait for signals of many dispatchers.  Three  *)
(* locks guard its state (lock_, awoken_lock_ and awakable_lock_), and a   *)
(* call takes one after the other: an action here is what happens under    *)
(* one of them.  A member calls WakeDispatcher with its own lock held.     *)
(*                                                                         *)
(* Api are the threads that call the wait set; one more thread waits on it *)
(* with MojoWait; the members change state on threads of their own.        *)
(***************************************************************************)
EXTENDS Naturals, Sequences, FiniteSets, SequencesExt

CONSTANTS
  Member,   \* the dispatchers that can be added
  Api,      \* the threads that call the wait set
  Removers, \* those of them that only remove dispatchers
  Counts    \* what GetReadyDispatchers is given as *count

ASSUME WaitSetAssumption ==
  /\ IsFiniteSet(Member) /\ Member # {}
  /\ Removers \subseteq Api
  /\ Counts \subseteq Nat \ {0} /\ Counts # {}

VARIABLES
  isClosed,   \* is_closed_
  waiting,    \* the keys of waiting_dispatchers_
  awoken,     \* awoken_queue_
  processed,  \* processed_dispatchers_
  holder,     \* the threads that hold lock_ between two actions
  call,       \* [Api -> Call]: where the call of a thread stands
  state,      \* [Member -> Signal]
  transit,    \* members that a message being written carries (in_transit_)
  armed,      \* members whose awakable list holds waiter_
  waking,     \* members that hold their lock in the middle of WakeDispatcher
  waiter,     \* where MojoWait on the wait set stands
  late,       \* whether MojoWait missed a wakeup before it was listed
  outrun,     \* whether a call met what another one had half removed
  returned,   \* what the last GetReadyDispatchers returned
  failed      \* whether a DCHECK failed

vars == <<isClosed, waiting, awoken, processed, holder, call, state, transit,
          armed, waking, waiter, late, outrun, returned, failed>>
waiterVars == <<waiter, late>>

\* "sat": the signal is there; "never": it cannot come any more.
Signal == {"unsat", "sat", "never", "closed"}
Result == {"OK", "FAILED_PRECONDITION", "CANCELLED"}
Entry == [d: Member, result: Result]
Call ==
  [at: {"idle", "addWake", "removeQueues", "requeue", "requeueWake",
        "closeCancel", "closeMembers", "closeQueues"},
   d: Member, pending: Seq(Member), max: Counts]

Members(q) == {q[i].d : i \in DOMAIN q}
\* The entries of a queue at some positions.
EntriesAt(q, positions) ==
  LET picked[i \in 0..Len(q)] ==
        IF i = 0 THEN <<>>
        ELSE IF i \in positions THEN Append(picked[i - 1], q[i]) ELSE picked[i - 1]
  IN picked[Len(q)]
Goto(t, at) == call' = [call EXCEPT ![t].at = at]
Free == holder = {}

Init ==
  /\ isClosed = FALSE
  /\ waiting = {}
  /\ awoken = <<>>
  /\ processed = <<>>
  /\ holder = {}
  /\ call \in [Api -> [at: {"idle"}, d: {CHOOSE m \in Member : TRUE},
                       pending: {<<>>}, max: {CHOOSE c \in Counts : TRUE}]]
  /\ state = [m \in Member |-> "unsat"]
  /\ transit = {}
  /\ armed = {}
  /\ waking = {}
  /\ waiter = "idle"
  /\ late = FALSE
  /\ outrun = FALSE
  /\ returned = {}
  /\ failed = FALSE

-----------------------------------------------------------------------------
(* Members: message pipes, with their awakable lists, which are external,  *)
(* as are the awakables of the wait set itself.                            *)

\* AddAwakable of a member: what it answers in a state; one that is in transit
\* answers like one that is closed.
AddAwakable(m) ==
  CASE state[m] = "closed" \/ m \in transit -> "INVALID_ARGUMENT"
    [] state[m] = "sat"   -> "ALREADY_EXISTS"
    [] state[m] = "never" -> "FAILED_PRECONDITION"
    [] OTHER              -> "OK"

\* What the awakables of a member are woken with when it gets to a state.
AwakeResult(s) ==
  CASE s = "closed" -> "CANCELLED"
    [] s = "sat"    -> "OK"
    [] OTHER        -> "FAILED_PRECONDITION"

\* The last one woken is served first.
Queued_front(q, m, result) ==
  <<[d |-> m,
     result |-> IF result = "ALREADY_EXISTS" THEN "OK" ELSE result]>> \o q

\* The half of WakeDispatcher under awoken_lock_.
Queued(q, m, result) ==
  Append(q, [d |-> m,
             result |-> IF result = "ALREADY_EXISTS" THEN "OK" ELSE result])

\* Wakes nobody.
WakeWaiters_none ==
  UNCHANGED waiterVars

\* The half of WakeDispatcher under awakable_lock_: the one who waits is woken,
\* if he is in the list by now.
WakeWaiters ==
  /\ waiter' = IF waiter = "listed" THEN "woken" ELSE waiter
  /\ late' = (late \/ waiter = "checked")

\* AwakableList::CancelAll: also a thread that has yet to look comes too late,
\* since AddAwakable does not ask whether the wait set is closed.
CancelAll ==
  /\ waiter' = IF waiter = "listed" THEN "woken" ELSE waiter
  /\ late' = (late \/ waiter \in {"found", "checked"})

\* The awakables of a member that is in a state now: waiter_ is woken and leaves
\* the list, if it waits for that state.  The member's lock is held until
\* WakeDispatcher is done.
Awake(m, s) ==
  IF m \in armed /\ s # "unsat"
  THEN /\ awoken' = Queued(awoken, m, AwakeResult(s))
       /\ armed' = armed \ {m}
       /\ waking' = waking \cup {m}
  ELSE UNCHANGED <<awoken, armed, waking>>

\* A member changes state, also while it is in transit; the end of a transit
\* that succeeds closes it.
SignalsChange(m) ==
  /\ m \notin waking
  /\ state[m] # "closed"
  /\ \E s \in Signal \ {state[m]} :
       /\ state[m] = "never" => s = "closed"
       /\ state' = [state EXCEPT ![m] = s]
       /\ transit' = IF s = "closed" THEN transit \ {m} ELSE transit
       /\ Awake(m, s)
  /\ UNCHANGED <<isClosed, waiting, processed, holder, call, outrun, returned,
                 failed>>
  /\ UNCHANGED waiterVars

\* A write that carries the member begins.
BeginTransit(m) ==
  /\ m \notin waking
  /\ state[m] # "closed"
  /\ m \notin transit
  /\ transit' = transit \cup {m}
  /\ UNCHANGED <<isClosed, waiting, awoken, processed, holder, call, state, armed,
                 waking, outrun, returned, failed>>
  /\ UNCHANGED waiterVars

\* The write fails: "Something may have happened while we were waiting".
CancelTransit(m) ==
  /\ m \notin waking
  /\ m \in transit
  /\ transit' = transit \ {m}
  /\ Awake(m, state[m])
  /\ UNCHANGED <<isClosed, waiting, processed, holder, call, state, outrun,
                 returned, failed>>
  /\ UNCHANGED waiterVars

SignalsChanged(m) ==
  /\ m \in waking
  /\ waking' = waking \ {m}
  /\ WakeWaiters
  /\ UNCHANGED <<isClosed, waiting, awoken, processed, holder, call, state,
                 transit, armed, outrun, returned, failed>>

-----------------------------------------------------------------------------
(* AddWaitingDispatcher and RemoveWaitingDispatcher.                       *)

Addable(m) == ~isClosed /\ m \notin waiting

\* A thread has yet to take out of the queues what it has removed: this
\* dispatcher, or anything.
HalfRemoved(m) == \E t \in Api : call[t].at = "removeQueues" /\ call[t].d = m
HalfRemoving == \E t \in Api : call[t].at \in {"removeQueues", "closeQueues"}

\* Under lock_; a dispatcher whose signal is there is queued at once, and
\* the lock is kept while the waiters are woken.
AddWaitingDispatcher(t, m) ==
  /\ call[t].at = "idle"
  /\ t \notin Removers
  /\ Free
  /\ m \notin waking
  /\ Addable(m)
  /\ AddAwakable(m) # "INVALID_ARGUMENT"
  /\ waiting' = waiting \cup {m}
  /\ IF AddAwakable(m) = "OK"
     THEN /\ armed' = armed \cup {m}
          /\ UNCHANGED <<awoken, call, holder>>
     ELSE /\ awoken' = Queued(awoken, m, AddAwakable(m))
          /\ Goto(t, "addWake")
          /\ holder' = {t}
          /\ UNCHANGED armed
  /\ outrun' = (outrun \/ HalfRemoved(m))
  /\ UNCHANGED <<isClosed, processed, state, transit, waking, returned, failed>>
  /\ UNCHANGED waiterVars

AddWaitingDispatcherWakes(t) ==
  /\ call[t].at = "addWake"
  /\ Goto(t, "idle")
  /\ holder' = {}
  /\ WakeWaiters
  /\ UNCHANGED <<isClosed, waiting, awoken, processed, state, transit,
                 armed, waking, outrun, returned, failed>>

\* Under lock_.
RemoveWaitingDispatcher(t, m) ==
  /\ call[t].at = "idle"
  /\ Free
  /\ m \in waiting
  /\ m \notin waking
  /\ armed' = armed \ {m}
  /\ waiting' = waiting \ {m}
  /\ call' = [call EXCEPT ![t].at = "removeQueues", ![t].d = m]
  /\ UNCHANGED <<isClosed, awoken, processed, holder, state, transit,
                 waking, outrun, returned, failed>>
  /\ UNCHANGED waiterVars

Unqueued(m) ==
  /\ awoken' = EntriesAt(awoken, {i \in DOMAIN awoken : awoken[i].d # m})
  /\ processed' = EntriesAt(processed, {i \in DOMAIN processed : processed[i] # m})

\* Then under awoken_lock_.
RemoveFromQueues(t) ==
  LET m == call[t].d
  IN /\ call[t].at = "removeQueues"
     /\ Unqueued(m)
     /\ failed' = (failed \/ Cardinality({i \in DOMAIN awoken : awoken[i].d = m}) > 1)
     /\ Goto(t, "idle")
     /\ UNCHANGED <<isClosed, waiting, holder, state, transit, armed, waking,
                    outrun, returned>>
     /\ UNCHANGED waiterVars

-----------------------------------------------------------------------------
(* GetReadyDispatchers.  It holds lock_ throughout.                        *)

GetReadyDispatchers(t, max) ==
  /\ call[t].at = "idle"
  /\ t \notin Removers
  /\ Free
  /\ call' = [call EXCEPT ![t].at = "requeue", ![t].pending = processed,
                          ![t].max = max]
  /\ holder' = {t}
  /\ processed' = <<>>
  /\ outrun' = (outrun \/ HalfRemoving)
  /\ UNCHANGED <<isClosed, waiting, awoken, state, transit, armed, waking,
                 returned, failed>>
  /\ UNCHANGED waiterVars

RequeueResult(m) == AddAwakable(m)

Kept(m, result) ==
  IF result = "INVALID_ARGUMENT" THEN waiting \ {m} ELSE waiting

\* One round of the loop over what was retrieved by the last call.
Requeue(t) ==
  LET m == Head(call[t].pending)
      result == RequeueResult(m)
  IN /\ call[t].at = "requeue"
     /\ call[t].pending # <<>>
     /\ m \notin waking
     /\ failed' = (failed \/ m \notin waiting)
     /\ call' = [call EXCEPT
                   ![t].pending = Tail(@),
                   ![t].at = IF result \in {"OK", "INVALID_ARGUMENT"}
                             THEN "requeue" ELSE "requeueWake"]
     /\ armed' = IF result = "OK" THEN armed \cup {m} ELSE armed
     /\ waiting' = Kept(m, result)
     /\ awoken' = IF result \in {"OK", "INVALID_ARGUMENT"} THEN awoken
                  ELSE Queued(awoken, m, result)
     /\ UNCHANGED <<isClosed, processed, holder, state, transit, waking,
                    outrun, returned>>
     /\ UNCHANGED waiterVars

RequeueWakes(t) ==
  /\ call[t].at = "requeueWake"
  /\ Goto(t, "requeue")
  /\ WakeWaiters
  /\ UNCHANGED <<isClosed, waiting, awoken, processed, holder, state,
                 transit, armed, waking, outrun, returned, failed>>

\* What becomes of the entries that are returned; one that was closed is
\* removed from the wait set.
Retrieved(taken) ==
  LET open == EntriesAt(taken, {i \in DOMAIN taken : taken[i].result # "CANCELLED"})
  IN /\ processed' = processed \o [i \in DOMAIN open |-> open[i].d]
     /\ waiting' = waiting \ (Members(taken) \ Members(open))

\* The last part, under awoken_lock_ too.
Retrieve(t) ==
  LET n == IF Len(awoken) < call[t].max THEN Len(awoken) ELSE call[t].max
      taken == SubSeq(awoken, 1, n)
  IN /\ call[t].at = "requeue"
     /\ call[t].pending = <<>>
     /\ failed' = (failed \/ ~(Members(taken) \subseteq waiting))
     /\ awoken' = SubSeq(awoken, n + 1, Len(awoken))
     /\ Retrieved(taken)
     /\ returned' = Members(taken)
     /\ Goto(t, "idle")
     /\ holder' = {}
     /\ UNCHANGED <<isClosed, state, transit, armed, waking, outrun>>
     /\ UNCHANGED waiterVars

-----------------------------------------------------------------------------
(* Close: it takes lock_, awakable_lock_, lock_ again and awoken_lock_.    *)

Close(t) ==
  /\ call[t].at = "idle"
  /\ t \notin Removers
  /\ Free
  /\ ~isClosed
  /\ isClosed' = TRUE
  /\ Goto(t, "closeCancel")
  /\ UNCHANGED <<waiting, awoken, processed, holder, state, transit, armed,
                 waking, outrun, returned, failed>>
  /\ UNCHANGED waiterVars

CloseCancels(t) ==
  /\ call[t].at = "closeCancel"
  /\ Goto(t, "closeMembers")
  /\ CancelAll
  /\ UNCHANGED <<isClosed, waiting, awoken, processed, holder, state,
                 transit, armed, waking, outrun, returned, failed>>

\* Leaves the members' lists as they are.
Disarmed_none == armed

Disarmed == armed \ waiting

CloseMembers(t) ==
  /\ call[t].at = "closeMembers"
  /\ Free
  /\ waiting \cap waking = {}
  /\ armed' = Disarmed
  /\ waiting' = {}
  /\ Goto(t, "closeQueues")
  /\ UNCHANGED <<isClosed, awoken, processed, holder, state, transit,
                 waking, outrun, returned, failed>>
  /\ UNCHANGED waiterVars

CloseQueues(t) ==
  /\ call[t].at = "closeQueues"
  /\ awoken' = <<>>
  /\ processed' = <<>>
  /\ Goto(t, "idle")
  /\ UNCHANGED <<isClosed, waiting, holder, state, transit, armed, waking,
                 outrun, returned, failed>>
  /\ UNCHANGED waiterVars

-----------------------------------------------------------------------------
(* MojoWait on the wait set, by a thread of its own.                       *)

\* GetHandleSignalsState.
Readable == awoken # <<>> \/ processed # <<>>

\* WaitManyInternal looks the handle up.
WaitFinds ==
  /\ waiter = "idle"
  /\ ~isClosed
  /\ waiter' = "found"
  /\ UNCHANGED <<isClosed, waiting, awoken, processed, holder, call, state,
                 transit, armed, waking, late, outrun, returned, failed>>

\* AddAwakable of the wait set: it looks under awoken_lock_, and a wait on a
\* readable wait set is over at once.
WaitLooks ==
  /\ waiter = "found"
  /\ waiter' = IF Readable THEN "idle" ELSE "checked"
  /\ late' = (late /\ ~Readable)
  /\ UNCHANGED <<isClosed, waiting, awoken, processed, holder, call, state,
                 transit, armed, waking, outrun, returned, failed>>

\* It adds the awakable under awakable_lock_.
WaitListed ==
  /\ waiter = "checked"
  /\ waiter' = "listed"
  /\ UNCHANGED <<isClosed, waiting, awoken, processed, holder, call, state,
                 transit, armed, waking, late, outrun, returned, failed>>

\* It was woken, or its deadline is over; the awakable is removed.
WaitOver ==
  /\ waiter \in {"listed", "woken"}
  /\ waiter' = "idle"
  /\ late' = FALSE
  /\ UNCHANGED <<isClosed, waiting, awoken, processed, holder, call, state,
                 transit, armed, waking, outrun, returned, failed>>

-----------------------------------------------------------------------------
\* What a call does once it has begun.
Continue(t) ==
  \/ AddWaitingDispatcherWakes(t) \/ RemoveFromQueues(t) \/ Requeue(t)
  \/ RequeueWakes(t) \/ Retrieve(t) \/ CloseCancels(t) \/ CloseMembers(t)
  \/ CloseQueues(t)

Next ==
  \/ \E m \in Member :
       SignalsChange(m) \/ BeginTransit(m) \/ CancelTransit(m) \/ SignalsChanged(m)
  \/ \E t \in Api, m \in Member :
       AddWaitingDispatcher(t, m) \/ RemoveWaitingDispatcher(t, m)
  \/ \E t \in Api, max \in Counts : GetReadyDispatchers(t, max)
  \/ \E t \in Api : Close(t)
  \/ \E t \in Api : Continue(t)
  \/ WaitFinds \/ WaitLooks \/ WaitListed \/ WaitOver

Spec == Init /\ [][Next]_vars

\* Threads run, and the client asks for the ready dispatchers again and again.
Fairness ==
  /\ \A m \in Member : WF_vars(SignalsChanged(m))
  /\ \A t \in Api : WF_vars(Continue(t))
  /\ SF_vars(\E t \in Api, max \in Counts : GetReadyDispatchers(t, max))

FairSpec == Spec /\ Fairness

-----------------------------------------------------------------------------
(* Properties.                                                             *)

\* Types.
TypeOK ==
  /\ isClosed \in BOOLEAN
  /\ waiting \subseteq Member
  /\ awoken \in Seq(Entry)
  /\ processed \in Seq(Member)
  /\ holder \subseteq Api
  /\ call \in [Api -> Call]
  /\ state \in [Member -> Signal]
  /\ transit \subseteq Member
  /\ armed \subseteq Member
  /\ waking \subseteq Member
  /\ waiter \in {"idle", "found", "checked", "listed", "woken"}
  /\ late \in BOOLEAN /\ outrun \in BOOLEAN
  /\ returned \subseteq Member
  /\ failed \in BOOLEAN

\* Where a dispatcher that is waited for can be: its own awakable list,
\* awoken_queue_, processed_dispatchers_, or the list GetReadyDispatchers works on.
Places(m) ==
  Cardinality({i \in DOMAIN awoken : awoken[i].d = m})
  + Cardinality({i \in DOMAIN processed : processed[i] = m})
  + Cardinality({x \in Api \X (1..Cardinality(Member)) :
                   /\ x[2] \in DOMAIN call[x[1]].pending
                   /\ call[x[1]].pending[x[2]] = m})
  + (IF m \in armed THEN 1 ELSE 0)

\* Each dispatcher in waiting_dispatchers_ is at exactly one place, so that
\* neither a signal is missed nor a dispatcher reported twice (header: "Any
\* dispatcher in this queue will NOT currently be waited on"), and once the calls
\* have returned any other dispatcher is at none: a member that was removed or
\* closed, or whose wait set was closed, is left in no list.  The DCHECKs of the
\* wait set, which say the same of its own lists, hold.  All this but for the
\* window of RemoveWaitingDispatcher and Close between lock_ and awoken_lock_: it
\* ends when another thread begins GetReadyDispatchers in it, or adds the
\* dispatcher again that is being removed (outrun): then "Anything in
\* |processed_dispatchers_| should also be in |waiting_dispatchers_|" fails (171).
OnePlace ==
  \/ outrun
  \/ /\ ~failed
     /\ \A m \in waiting : Places(m) = 1
     /\ (\A t \in Api : call[t].at = "idle") =>
          \A m \in Member \ waiting : Places(m) = 0

\* Somebody is between the two halves of WakeDispatcher, or in Close before
\* CancelAll.
Waking ==
  \/ waking # {}
  \/ \E t \in Api : call[t].at \in {"addWake", "requeueWake", "closeCancel"}

\* A thread that waits on the wait set is woken when there is something to
\* retrieve or the wait set is closed, but for a wakeup that fell between its
\* look and its entry into the list, or a Close that came before.
WaiterWoken ==
  waiter = "listed" /\ (Readable \/ isClosed) => late \/ Waking

\* Every member whose signal stays is returned again and again, whatever the
\* others do: no member starves another, even with a count of one.  A dispatcher
\* that was added again in the window of OnePlace may lose its entry, so this too
\* is about behaviours in which no call was outrun.
Served ==
  \A m \in Member :
    []<>(outrun \/ m \in returned \/ m \notin waiting \/ state[m] # "sat")
==============================================================================
