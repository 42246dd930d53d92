----------------------------- MODULE CoreProofs -----------------------------
(***************************************************************************)
(* The handle table and the message pipe dispatchers are correct for any   *)
(* threads, handles, pipes and calls: what Core states and its run checks  *)
(* on a small instance holds for every value of the constants.             *)
(*                                                                         *)
(* The inductive invariant has four parts.  TableInv relates the entries   *)
(* of the table, the flags of the dispatchers and the calls under way;     *)
(* OwnInv says who owns the end of a pipe; SentOK says what a write        *)
(* returns; Waiting and NoLostWakeup are about MojoWait.  Each has lemmas  *)
(* of its own for every action, and a step lemma that puts them together   *)
(* (TableStep, OwnStep, SentStep, WakesStep).  All of it may break once a  *)
(* read gives out MOJO_HANDLE_INVALID ("overflow"), which replaces what is *)
(* behind handles that are in use; only the checks hold even then.  A      *)
(* failed EndSerialize is part of every proof: the ends it drops are lost, *)
(* and what it closed belongs to the write that is about to end (Emptied), *)
(* so that no other write hands it back.                                   *)
(*                                                                         *)
(* OwnInv gives an end one owner at most among dispatchers and messages.   *)
(* That it has exactly one takes three more parts: Alone (ends that are    *)
(* closed, being closed or lost are nobody else's, and none is forgotten), *)
(* Stale (a dispatcher whose end was sent has an old port, so closing it   *)
(* when the transit completes takes nothing from the reader) and Plat (the *)
(* platform handle is in one place, which needs Early).                    *)
(***************************************************************************)
EXTENDS Core, NumberLemmas, SequenceTheorems, FiniteSetTheorems

-----------------------------------------------------------------------------
(* The inductive invariant: handles, transit and calls.                    *)

\* The handles that the write of a call has marked.
Carrying == {"check", "send", "peerClosed", "finish"}
Carried(c) == IF c.at \in Carrying THEN ToSet(c.hs) ELSE {}
Distinct(hs) == \A i, j \in DOMAIN hs : hs[i] = hs[j] => i = j

\* A call of the platform may fail.
MayFail == FALSE \in Platform

\* Handles are given out in order and never again; what is in the table is open,
\* but for a buffer that lost its memory, and what is not is closed or about to be.
Tables ==
  /\ next # INVALID => \A h \in Handle : h >= next => disp[h] = None
  /\ \A h \in table : disp[h].kind # "none"
  /\ \A h \in table : disp[h].closed => disp[h].kind = "buffer" /\ MayFail
  /\ \A h \in Handle : disp[h].transferred => disp[h].closed
  /\ \A h \in Handle : \/ h \in table \/ disp[h].closed
                       \/ \E t \in Thread : call[t].at = "close" /\ call[t].h = h

\* An entry is busy, and its dispatcher in transit, while one write carries it.
Transit ==
  /\ \A h \in Handle : h \in busy <=> disp[h].inTransit
  /\ busy \subseteq table
  /\ \A h \in busy : \E t \in Thread : h \in Carried(call[t])
  /\ \A t \in Thread : Carried(call[t]) \subseteq busy
  /\ \A t, u \in Thread : t # u => Carried(call[t]) \cap Carried(call[u]) = {}
  /\ \A t \in Thread : call[t].at \in Carrying => Distinct(call[t].hs)

\* What a call has found out about its dispatcher remains true.
CallOK(c) ==
  /\ c.at # "idle" => c.h \in Handle
  /\ c.at \in {"send", "read", "peerClosed", "closePort"} => disp[c.h].kind = "pipe"
  /\ c.at = "closePort" => disp[c.h].closed
  /\ c.at \in {"checkRead", "read"} => c.hs = <<>>
  /\ c.at = "buffer" => disp[c.h].kind = "buffer"
  /\ c.at = "close" => c.h \notin table /\ disp[c.h].kind # "none"
CallsOK == \A t \in Thread : CallOK(call[t])

TableInv == Tables /\ Transit /\ CallsOK

-----------------------------------------------------------------------------
(* The inductive invariant: the ends of pipes.                             *)

\* A message, and a queue, that carries the end e.
CarriesMsg(m, e) == \E j \in DOMAIN m : m[j].kind = "pipe" /\ m[j].res = e
Carries(q, e) == \E i \in DOMAIN q : CarriesMsg(q[i], e)

\* No end is carried twice.
OnceMsg(m) ==
  \A i, j \in DOMAIN m :
    m[i].kind = "pipe" /\ m[j].kind = "pipe" /\ m[i].res = m[j].res => i = j
OnceQ(q) ==
  /\ \A i \in DOMAIN q : OnceMsg(q[i])
  /\ \A i, k \in DOMAIN q, e \in End : CarriesMsg(q[i], e) /\ CarriesMsg(q[k], e) => i = k

\* Who owns an end: a message, a call that closes its port, an open dispatcher.
Mail(e) == \E f \in End : Carries(queue[f], e)
Parting(e) == \E t \in Thread : call[t].at = "closePort" /\ disp[call[t].h].res = e
Holds(h, e) == /\ disp[h].kind = "pipe" /\ disp[h].res = e
               /\ disp[h].port = gen[e] /\ ~disp[h].closed

\* Dispatchers and messages refer to the ends of pipes that were created.
PipeEnd(e) == e \in End /\ e[1] <= pipes
EndsOK(q) == \A i \in DOMAIN q : \A j \in DOMAIN q[i] :
               q[i][j].kind = "pipe" => PipeEnd(q[i][j].res)
Ends ==
  /\ \A h \in Handle : disp[h].kind = "pipe" =>
       PipeEnd(disp[h].res) /\ disp[h].port <= gen[disp[h].res]
  /\ \A e \in End : e[1] > pipes => gen[e] = 0 /\ e \notin shut
  /\ \A f \in End : EndsOK(queue[f])

\* An end has one owner at most.
Owned ==
  /\ \A e \in End, h, k \in Handle : Holds(h, e) /\ Holds(k, e) => h = k
  /\ \A e \in End, h \in Handle : Holds(h, e) => e \notin shut /\ ~Mail(e) /\ ~Parting(e)
  /\ \A e \in End : Mail(e) => e \notin shut /\ ~Parting(e)
  /\ \A f \in End : OnceQ(queue[f])
  /\ \A f, g, e \in End : Carries(queue[f], e) /\ Carries(queue[g], e) => f = g

\* The port of an open dispatcher is the current one, unless it was just sent.
Opens ==
  \A h \in Handle : disp[h].kind = "pipe" /\ ~disp[h].closed =>
                      disp[h].port = gen[disp[h].res] \/ HandedOver(h)

\* A write that sent its message succeeds; one that did not fails, unless
\* EndSerialize did.
SentRec(c) ==
  /\ c.sent => c.at = "finish" /\ c.ok
  /\ c.ok => c.at = "finish" /\ (c.sent \/ MayFail)
SentOK == \A t \in Thread : SentRec(call[t])

OwnInv == Ends /\ Owned /\ Opens

-----------------------------------------------------------------------------
(* Types.                                                                  *)

CallRec ==
  [at: {"idle", "begin", "check", "send", "peerClosed", "finish", "checkRead", "read",
        "close", "closePort", "buffer"},
   h: 0..LastHandle, hs: Seq(Handle), ok: BOOLEAN, sent: BOOLEAN]

\* A dispatcher is added; no matter who closes it when the table is full.
Adds(d) == \E closes \in BOOLEAN : AddDispatcher(d, closes)

\* A call that moves on, and the others.
Moves(t, c) == call' = [call EXCEPT ![t] = c]

\* The call of a thread.
LEMMA CallOf ==
  ASSUME TypeOK, NEW t \in Thread
  PROVE  /\ call[t] \in CallRec /\ call[t].h \in 0..LastHandle
         /\ call[t].hs \in Seq(Handle)
         /\ call[t].ok \in BOOLEAN /\ call[t].sent \in BOOLEAN
<1>1. call[t] \in CallRec
  BY DEF TypeOK, CallRec
<1> QED
  BY <1>1 DEF CallRec

\* The calls after one has moved on.
LEMMA MovesIs ==
  ASSUME TypeOK, NEW t \in Thread, NEW c \in CallRec, Moves(t, c)
  PROVE  /\ call' \in [Thread -> CallRec] /\ call'[t] = c
         /\ \A u \in Thread : u # t => call'[u] = call[u]
<1>1. call \in [Thread -> CallRec]
  BY DEF TypeOK, CallRec
<1> QED
  BY <1>1 DEF Moves

\* A call at its end, and at another place.
LEMMA IdleIs ==
  /\ Idle \in CallRec /\ Idle.at = "idle" /\ Idle.hs = <<>> /\ Carried(Idle) = {}
<1>1. <<>> \in Seq(Handle) /\ 0 \in 0..LastHandle
  BY CoreAssumption
<1> QED
  BY <1>1 DEF Idle, CallRec, Carried, Carrying

Starts(at, h, hs) == [Idle EXCEPT !.at = at, !.h = h, !.hs = hs]

\* A call at its start.
LEMMA StartsIs ==
  ASSUME NEW at \in {"begin", "check", "checkRead", "close", "buffer"}, NEW h \in Handle,
         NEW hs \in Seq(Handle)
  PROVE  /\ Starts(at, h, hs) \in CallRec /\ Starts(at, h, hs).at = at
         /\ Starts(at, h, hs).h = h /\ Starts(at, h, hs).hs = hs
<1>1. h \in 0..LastHandle
  BY CoreAssumption DEF Handle
<1> QED
  BY <1>1 DEF Idle, CallRec, Starts

\* A call that is given one handle.
LEMMA CallStarts ==
  ASSUME NEW at \in {"begin", "check", "checkRead", "close", "buffer"}, NEW h \in Handle
  PROVE  /\ [Idle EXCEPT !.at = at, !.h = h] \in CallRec
         /\ [Idle EXCEPT !.at = at, !.h = h].at = at
         /\ [Idle EXCEPT !.at = at, !.h = h].h = h
         /\ [Idle EXCEPT !.at = at, !.h = h].hs = <<>>
<1>1. <<>> \in Seq(Handle) /\ h \in 0..LastHandle
  BY CoreAssumption DEF Handle
<1> QED
  BY <1>1 DEF Idle, CallRec

\* A dispatcher.
LEMMA DispOf ==
  ASSUME TypeOK, NEW h \in Handle
  PROVE  /\ disp[h] \in Dispatcher
         /\ disp[h].kind \in {"none", "pipe"} \cup Things
         /\ disp[h].res \in End \cup {NoEnd} /\ disp[h].port \in Nat
         /\ disp[h].closed \in BOOLEAN /\ disp[h].inTransit \in BOOLEAN
         /\ disp[h].transferred \in BOOLEAN
<1>1. disp[h] \in Dispatcher
  BY DEF TypeOK
<1> QED
  BY <1>1 DEF Dispatcher

\* A new dispatcher.
LEMMA NewIs ==
  ASSUME NEW kind \in {"none", "pipe"} \cup Things, NEW res \in End \cup {NoEnd},
         NEW port \in Nat
  PROVE  /\ New(kind, res, port) \in Dispatcher
         /\ New(kind, res, port).kind = kind /\ New(kind, res, port).res = res
         /\ New(kind, res, port).port = port /\ New(kind, res, port).closed = FALSE
         /\ New(kind, res, port).inTransit = FALSE
         /\ New(kind, res, port).transferred = FALSE
BY DEF New, Dispatcher

\* None is a dispatcher of no kind.
LEMMA NoneIs ==
  /\ None \in Dispatcher /\ None.kind = "none" /\ None.closed = TRUE
  /\ None.inTransit = FALSE /\ None.transferred = FALSE
BY DEF None, Dispatcher

\* What a sequence holds.
LEMMA ToSetIs ==
  ASSUME NEW S, NEW q \in Seq(S)
  PROVE  /\ ToSet(q) \subseteq S /\ \A x : x \in ToSet(q) <=> \E i \in DOMAIN q : q[i] = x
         /\ q = <<>> => ToSet(q) = {}
BY DEF ToSet

-----------------------------------------------------------------------------
(* Handles, transit and calls, step by step.                               *)

\* The calls that end leave nothing behind.
Quits ==
  \A u \in Thread :
    \/ call'[u] = call[u]
    \/ call'[u] = Idle /\ Carried(call[u]) = {} /\ call[u].at # "close"

\* A step that puts new dispatchers behind handles that were never given out.
LEMMA TableAdds ==
  ASSUME TypeOK, TableInv, NEW new \in SUBSET Handle,
         \A h \in new : next # INVALID /\ h >= next,
         table' = table \cup new, busy' = busy, Quits,
         \A h \in Handle : h \notin new => disp'[h] = disp[h],
         \A h \in new : /\ disp'[h].kind # "none" /\ ~disp'[h].closed
                        /\ ~disp'[h].inTransit /\ ~disp'[h].transferred,
         next' # INVALID =>
           \A h \in Handle : h >= next' => next # INVALID /\ h >= next /\ h \notin new
  PROVE  TableInv'
<1>1. \A h \in new : disp[h] = None /\ h \notin table /\ h \notin busy
  <2>1. \A h \in new : disp[h] = None
    BY DEF TableInv, Tables
  <2>2. \A h \in new : h \notin table
    BY <2>1, NoneIs DEF TableInv, Tables
  <2> QED
    BY <2>1, <2>2 DEF TableInv, Transit
<1>2. \A u \in Thread : /\ Carried(call'[u]) = Carried(call[u])
                        /\ call'[u].at = "close" <=> call[u].at = "close"
                        /\ call'[u].at # "idle" => call'[u] = call[u]
  BY IdleIs DEF Quits
<1>3. Tables'
  <2>1. next' # INVALID => \A h \in Handle : h >= next' => disp'[h] = None
    BY DEF TableInv, Tables
  <2>2. \A h \in table' : /\ disp'[h].kind # "none"
                          /\ disp'[h].closed => disp'[h].kind = "buffer" /\ MayFail
    <3>1. ASSUME NEW h \in table
          PROVE  /\ disp'[h].kind # "none"
                 /\ disp'[h].closed => disp'[h].kind = "buffer" /\ MayFail
      <4>1. h \in Handle /\ h \notin new
        BY <1>1 DEF TypeOK
      <4>2. disp'[h] = disp[h]
        BY <4>1
      <4> QED
        BY <4>2 DEF TableInv, Tables
    <3> QED
      BY <3>1
  <2>3. \A h \in Handle : disp'[h].transferred => disp'[h].closed
    BY DEF TableInv, Tables
  <2>4. ASSUME NEW h \in Handle
        PROVE  \/ h \in table' \/ disp'[h].closed
               \/ \E t \in Thread : call'[t].at = "close" /\ call'[t].h = h
    <3>1. CASE h \in new
      BY <3>1
    <3>2. CASE h \notin new
      <4>1. \/ h \in table \/ disp[h].closed
            \/ \E t \in Thread : call[t].at = "close" /\ call[t].h = h
        BY DEF TableInv, Tables
      <4> QED
        BY <1>2, <3>2, <4>1
    <3> QED
      BY <3>1, <3>2
  <2> QED
    BY <2>1, <2>2, <2>3, <2>4 DEF Tables
<1>4. Transit'
  <2>1. \A h \in Handle : h \in busy' <=> disp'[h].inTransit
    BY <1>1 DEF TableInv, Transit
  <2>2. busy' \subseteq table'
    BY DEF TableInv, Transit
  <2>3. /\ \A h \in busy' : \E t \in Thread : h \in Carried(call'[t])
        /\ \A t \in Thread : Carried(call'[t]) \subseteq busy'
        /\ \A t, u \in Thread : t # u => Carried(call'[t]) \cap Carried(call'[u]) = {}
    BY <1>2 DEF TableInv, Transit
  <2>4. \A t \in Thread : call'[t].at \in Carrying => Distinct(call'[t].hs)
    BY <1>2 DEF TableInv, Transit, Carrying
  <2> QED
    BY <2>1, <2>2, <2>3, <2>4 DEF Transit, Carried, Distinct
<1>5. CallsOK'
  <2>1. ASSUME NEW t \in Thread PROVE CallOK(call[t])'
    <3>1. CASE call'[t].at = "idle"
      BY <3>1 DEF CallOK
    <3>2. CASE call'[t].at # "idle"
      <4>1. call'[t] = call[t] /\ CallOK(call[t])
        BY <1>2, <3>2 DEF TableInv, CallsOK
      <4>2. call[t].h \in Handle
        BY <3>2, <4>1 DEF CallOK
      <4>3. CASE call[t].h \in new
        BY <1>1, <4>1, <4>2, <4>3, NoneIs DEF CallOK
      <4>4. CASE call[t].h \notin new
        BY <4>1, <4>2, <4>4 DEF CallOK
      <4> QED
        BY <4>3, <4>4
    <3> QED
      BY <3>1, <3>2
  <2> QED
    BY <2>1 DEF CallsOK
<1> QED
  BY <1>3, <1>4, <1>5 DEF TableInv

\* A step of a call that leaves the table and the dispatchers.
LEMMA TableMoves ==
  ASSUME TypeOK, TableInv, NEW t \in Thread, NEW c \in CallRec, Moves(t, c),
         UNCHANGED <<table, busy, next, disp>>,
         Carried(c) = Carried(call[t]), c.at \in Carrying => Distinct(c.hs),
         call[t].at = "close" => disp[call[t].h].closed, CallOK(c)
  PROVE  TableInv'
<1>1. call'[t] = c /\ \A u \in Thread : u # t => call'[u] = call[u]
  BY MovesIs
<1>2. \A u \in Thread : /\ Carried(call'[u]) = Carried(call[u])
                        /\ call[u].at = "close" => \/ call'[u] = call[u]
                                                  \/ disp[call[u].h].closed
  BY <1>1
<1>3. Tables'
  <2>1. ASSUME NEW h \in Handle
        PROVE  \/ h \in table' \/ disp'[h].closed
               \/ \E u \in Thread : call'[u].at = "close" /\ call'[u].h = h
    <3>1. \/ h \in table \/ disp[h].closed
          \/ \E u \in Thread : call[u].at = "close" /\ call[u].h = h
      BY DEF TableInv, Tables
    <3> QED
      BY <1>2, <3>1
  <2> QED
    BY <2>1 DEF TableInv, Tables
<1>4. Transit'
  <2>1. \A u \in Thread : call'[u].at \in Carrying => Distinct(call'[u].hs)
    BY <1>1 DEF TableInv, Transit
  <2>2. /\ \A h \in busy : \E u \in Thread : h \in Carried(call'[u])
        /\ \A u \in Thread : Carried(call'[u]) \subseteq busy
        /\ \A u, v \in Thread : u # v => Carried(call'[u]) \cap Carried(call'[v]) = {}
    BY <1>2 DEF TableInv, Transit
  <2>3. /\ \A h \in Handle : h \in busy' <=> disp'[h].inTransit
        /\ busy' \subseteq table'
    BY DEF TableInv, Transit
  <2> QED
    BY <2>1, <2>2, <2>3 DEF Transit, Carried, Distinct
<1>5. CallsOK'
  <2>1. ASSUME NEW u \in Thread PROVE CallOK(call[u])'
    <3>1. CallOK(call'[u])
      BY <1>1 DEF TableInv, CallsOK
    <3> QED
      BY <3>1 DEF CallOK
  <2> QED
    BY <2>1 DEF CallsOK
<1> QED
  BY <1>3, <1>4, <1>5 DEF TableInv

\* A step that leaves all of it.
LEMMA TableSame ==
  ASSUME TableInv, UNCHANGED <<table, busy, next, disp, call>>
  PROVE  TableInv'
BY DEF TableInv, Tables, Transit, CallsOK, CallOK, Carried, Distinct

\* What HandleTable::BeginTransit has found when it succeeds.
LEMMA BeginsIs ==
  ASSUME NEW hs \in Seq(Handle), Begins(hs)
  PROVE  /\ Distinct(hs) /\ ToSet(hs) \subseteq table /\ ToSet(hs) \cap busy = {}
         /\ \A h \in ToSet(hs) : CanBegin(disp[h])
<1>1. DOMAIN hs = 1..Len(hs) /\ Len(hs) \in Nat
  OBVIOUS
<1>2. ASSUME NEW i \in DOMAIN hs
      PROVE  /\ hs[i] \in table /\ hs[i] \notin busy /\ CanBegin(disp[hs[i]])
             /\ \A j \in 1..(i - 1) : hs[j] # hs[i]
  <2>1. i \in Begun(hs) /\ i \in 1..i
    BY <1>1 DEF Begins
  <2> QED
    BY <2>1 DEF Begun
<1>3. Distinct(hs)
  <2> SUFFICES ASSUME NEW i \in DOMAIN hs, NEW j \in DOMAIN hs, hs[i] = hs[j], i # j
               PROVE  FALSE
    BY DEF Distinct
  <2>1. i \in 1..(j - 1) \/ j \in 1..(i - 1)
    BY <1>1
  <2> QED
    BY <1>2, <2>1
<1> QED
  BY <1>2, <1>3, ToSetIs

\* The dispatcher of each handle remains what it is.
Kept ==
  \A h \in Handle :
    /\ disp'[h].kind = disp[h].kind
    /\ disp[h] = None => disp'[h] = None
    /\ disp[h].closed => disp'[h].closed
    /\ disp'[h].transferred => disp'[h].closed

\* A step of a call that leaves each dispatcher at its handle.
LEMMA TableKept ==
  ASSUME TypeOK, TableInv, NEW t \in Thread, NEW c \in CallRec, Moves(t, c), Kept,
         next' = next, table' \subseteq table,
         \A h \in table' : disp'[h].closed => disp[h].kind = "buffer" /\ MayFail,
         \A h \in Handle : h \in busy' <=> disp'[h].inTransit,
         busy' = (busy \ Carried(call[t])) \cup Carried(c),
         busy' \subseteq table', Carried(c) \cap (busy \ Carried(call[t])) = {},
         \A h \in table \ table' : disp'[h].closed \/ (c.at = "close" /\ c.h = h),
         call[t].at = "close" => disp'[call[t].h].closed,
         c.at \in Carrying => Distinct(c.hs),
         c.at # "idle" => c.h \in Handle,
         c.at \in {"send", "read", "peerClosed", "closePort"} => disp[c.h].kind = "pipe",
         c.at = "closePort" => disp'[c.h].closed,
         c.at \in {"checkRead", "read"} => c.hs = <<>>,
         c.at = "buffer" => disp[c.h].kind = "buffer",
         c.at = "close" => c.h \notin table' /\ disp[c.h].kind # "none"
  PROVE  TableInv'
<1>1. call'[t] = c /\ \A u \in Thread : u # t => call'[u] = call[u]
  BY MovesIs
<1>2. \A h \in table : h \in Handle
  BY DEF TypeOK
<1>3. Tables'
  <2>1. ASSUME NEW h \in Handle
        PROVE  \/ h \in table' \/ disp'[h].closed
               \/ \E u \in Thread : call'[u].at = "close" /\ call'[u].h = h
    <3>1. \/ h \in table \/ disp[h].closed
          \/ \E u \in Thread : call[u].at = "close" /\ call[u].h = h
      BY DEF TableInv, Tables
    <3>2. CASE h \in table
      BY <1>1, <3>2
    <3>3. CASE disp[h].closed
      BY <3>3 DEF Kept
    <3>4. ASSUME NEW u \in Thread, call[u].at = "close", call[u].h = h
          PROVE  disp'[h].closed \/ (call'[u].at = "close" /\ call'[u].h = h)
      BY <1>1, <3>4
    <3> QED
      BY <3>1, <3>2, <3>3, <3>4
  <2>2. \A h \in table' : disp'[h].kind # "none"
    BY <1>2 DEF TableInv, Tables, Kept
  <2>3. \A h \in table' : disp'[h].closed => disp'[h].kind = "buffer" /\ MayFail
    BY <1>2 DEF Kept
  <2>4. \A h \in Handle : disp'[h].transferred => disp'[h].closed
    BY DEF Kept
  <2>5. next # INVALID => \A h \in Handle : h >= next => disp'[h] = None
    BY DEF TableInv, Tables, Kept
  <2> QED
    BY <2>1, <2>2, <2>3, <2>4, <2>5 DEF Tables
<1>4. Transit'
  <2>1. \A u \in Thread : Carried(call'[u]) = IF u = t THEN Carried(c) ELSE Carried(call[u])
    BY <1>1
  <2>2. \A h \in busy' : \E u \in Thread : h \in Carried(call'[u])
    <3> SUFFICES ASSUME NEW h \in busy' PROVE \E u \in Thread : h \in Carried(call'[u])
      OBVIOUS
    <3>1. CASE h \in Carried(c)
      BY <2>1, <3>1
    <3>2. CASE h \in busy \ Carried(call[t])
      <4>1. PICK u \in Thread : h \in Carried(call[u])
        BY <3>2 DEF TableInv, Transit
      <4> QED
        BY <2>1, <3>2, <4>1
    <3> QED
      BY <3>1, <3>2
  <2>3. \A u, v \in Thread : u # v => Carried(call[u]) \cap Carried(call[v]) = {}
    BY DEF TableInv, Transit
  <2>4. \A u \in Thread : Carried(call[u]) \subseteq busy
    BY DEF TableInv, Transit
  <2>5. \A u \in Thread : u # t => Carried(call[u]) \subseteq busy \ Carried(call[t])
    BY <2>3, <2>4
  <2>6. \A u \in Thread : Carried(call'[u]) \subseteq busy'
    BY <2>1, <2>5
  <2>7. \A u, v \in Thread : u # v => Carried(call'[u]) \cap Carried(call'[v]) = {}
    BY <2>1, <2>3, <2>5
  <2>8. \A u \in Thread : call'[u].at \in Carrying => Distinct(call'[u].hs)
    BY <1>1 DEF TableInv, Transit
  <2> QED
    BY <2>2, <2>6, <2>7, <2>8 DEF Transit, Carried, Distinct
<1>5. CallsOK'
  <2>1. ASSUME NEW u \in Thread PROVE CallOK(call[u])'
    <3>1. CASE u = t
      <4>1. call'[u] = c
        BY <1>1, <3>1
      <4> QED
        BY <4>1 DEF CallOK, Kept
    <3>2. CASE u # t
      <4>1. call'[u] = call[u] /\ CallOK(call[u])
        BY <1>1, <3>2 DEF TableInv, CallsOK
      <4>2. CASE call[u].at = "idle"
        BY <4>1, <4>2 DEF CallOK
      <4>3. CASE call[u].at # "idle"
        <5>1. call[u].h \in Handle
          BY <4>1, <4>3 DEF CallOK
        <5> QED
          BY <4>1, <5>1 DEF CallOK, Kept
      <4> QED
        BY <4>2, <4>3
    <3> QED
      BY <3>1, <3>2
  <2> QED
    BY <2>1 DEF CallsOK
<1> QED
  BY <1>3, <1>4, <1>5 DEF TableInv

\* A dispatcher at a handle is of some kind.
LEMMA TableHas ==
  ASSUME TypeOK, TableInv, NEW h \in table
  PROVE  h \in Handle /\ disp[h].kind # "none" /\ disp[h] # None
BY NoneIs DEF TypeOK, TableInv, Tables

\* What a write carries is in the table, busy and in transit.
LEMMA CarriedHas ==
  ASSUME TypeOK, TableInv, NEW t \in Thread, call[t].at \in Carrying
  PROVE  /\ Carried(call[t]) = ToSet(call[t].hs) /\ ToSet(call[t].hs) \subseteq busy
         /\ busy \subseteq table /\ ToSet(call[t].hs) \subseteq Handle
         /\ \A h \in ToSet(call[t].hs) : disp[h].inTransit /\ disp[h].kind # "none"
         /\ Distinct(call[t].hs)
<1>1. Carried(call[t]) = ToSet(call[t].hs)
  BY DEF Carried
<1>2. /\ ToSet(call[t].hs) \subseteq busy /\ busy \subseteq table /\ table \subseteq Handle
      /\ Distinct(call[t].hs)
  BY <1>1 DEF TableInv, Transit, TypeOK
<1>3. \A h \in ToSet(call[t].hs) : disp[h].inTransit /\ disp[h].kind # "none"
  BY <1>2 DEF TableInv, Transit, Tables
<1> QED
  BY <1>1, <1>2, <1>3

\* A call with another place or other results.
LEMMA CallEdits ==
  ASSUME TypeOK, NEW t \in Thread, NEW ok \in BOOLEAN, NEW sent \in BOOLEAN,
         NEW at \in {"check", "send", "peerClosed", "finish", "read", "closePort"}
  PROVE  /\ [call[t] EXCEPT !.at = at] \in CallRec
         /\ [call[t] EXCEPT !.at = at].at = at
         /\ [call[t] EXCEPT !.at = at].h = call[t].h
         /\ [call[t] EXCEPT !.at = at].hs = call[t].hs
         /\ [call[t] EXCEPT !.at = at].sent = call[t].sent
         /\ [call[t] EXCEPT !.at = at].ok = call[t].ok
         /\ [call[t] EXCEPT !.at = at, !.ok = ok, !.sent = sent] \in CallRec
         /\ [call[t] EXCEPT !.at = at, !.ok = ok, !.sent = sent].at = at
         /\ [call[t] EXCEPT !.at = at, !.ok = ok, !.sent = sent].h = call[t].h
         /\ [call[t] EXCEPT !.at = at, !.ok = ok, !.sent = sent].hs = call[t].hs
         /\ [call[t] EXCEPT !.at = at, !.ok = ok, !.sent = sent].sent = sent
<1>1. call[t] \in CallRec
  BY CallOf
<1> QED
  BY <1>1 DEF CallRec

\* The dispatchers when a transit begins.
LEMMA MarkedOn ==
  ASSUME TypeOK, NEW hs \in SUBSET Handle, disp' = Marked(hs, TRUE)
  PROVE  \A h \in Handle :
           /\ disp'[h].kind = disp[h].kind /\ disp'[h].res = disp[h].res
           /\ disp'[h].port = disp[h].port /\ (disp'[h].closed <=> disp[h].closed)
           /\ (disp'[h].transferred <=> disp[h].transferred)
           /\ disp'[h].inTransit <=> (h \in hs \/ disp[h].inTransit)
           /\ h \notin hs => disp'[h] = disp[h]
           /\ disp'[h] \in Dispatcher
<1> SUFFICES ASSUME NEW h \in Handle
             PROVE  /\ disp'[h].kind = disp[h].kind /\ disp'[h].res = disp[h].res
                    /\ disp'[h].port = disp[h].port /\ (disp'[h].closed <=> disp[h].closed)
                    /\ (disp'[h].transferred <=> disp[h].transferred)
                    /\ disp'[h].inTransit <=> (h \in hs \/ disp[h].inTransit)
                    /\ h \notin hs => disp'[h] = disp[h]
                    /\ disp'[h] \in Dispatcher
  OBVIOUS
<1>1. disp[h] \in Dispatcher
  BY DispOf
<1>2. disp'[h] = IF h \in hs THEN [disp[h] EXCEPT !.inTransit = TRUE] ELSE disp[h]
  BY DEF Marked
<1>3. CASE h \in hs
  BY <1>1, <1>2, <1>3 DEF Dispatcher
<1>4. CASE h \notin hs
  BY <1>1, <1>2, <1>4
<1> QED
  BY <1>3, <1>4

\* The dispatchers when a transit is cancelled.
LEMMA MarkedOff ==
  ASSUME TypeOK, NEW hs \in SUBSET Handle, disp' = Marked(hs, FALSE)
  PROVE  \A h \in Handle :
           /\ disp'[h].kind = disp[h].kind /\ disp'[h].res = disp[h].res
           /\ disp'[h].port = disp[h].port /\ (disp'[h].closed <=> disp[h].closed)
           /\ (disp'[h].transferred <=> disp[h].transferred)
           /\ disp'[h].inTransit <=> (h \notin hs /\ disp[h].inTransit)
           /\ h \notin hs => disp'[h] = disp[h]
           /\ disp'[h] \in Dispatcher
<1> SUFFICES ASSUME NEW h \in Handle
             PROVE  /\ disp'[h].kind = disp[h].kind /\ disp'[h].res = disp[h].res
                    /\ disp'[h].port = disp[h].port /\ (disp'[h].closed <=> disp[h].closed)
                    /\ (disp'[h].transferred <=> disp[h].transferred)
                    /\ disp'[h].inTransit <=> (h \notin hs /\ disp[h].inTransit)
                    /\ h \notin hs => disp'[h] = disp[h]
                    /\ disp'[h] \in Dispatcher
  OBVIOUS
<1>1. disp[h] \in Dispatcher
  BY DispOf
<1>2. disp'[h] = IF h \in hs THEN [disp[h] EXCEPT !.inTransit = FALSE] ELSE disp[h]
  BY DEF Marked
<1>3. CASE h \in hs
  BY <1>1, <1>2, <1>3 DEF Dispatcher
<1>4. CASE h \notin hs
  BY <1>1, <1>2, <1>4
<1> QED
  BY <1>3, <1>4

\* HandleTable::BeginTransit succeeds.
LEMMA TableBegins ==
  ASSUME TypeOK, TableInv, NEW t \in Thread, BeginTransit(t), Begins(call[t].hs)
  PROVE  TableInv'
<1> DEFINE hs == ToSet(call[t].hs)
           c == [call[t] EXCEPT !.at = "check"]
<1>1. /\ call[t].at = "begin" /\ busy' = busy \cup hs /\ disp' = Marked(hs, TRUE)
      /\ call' = [call EXCEPT ![t].at = "check"] /\ UNCHANGED <<table, next>>
  BY DEF BeginTransit, At
<1>2. call[t].hs \in Seq(Handle) /\ call[t].h \in Handle
  BY <1>1, CallOf DEF TableInv, CallsOK, CallOK
<1>3. c \in CallRec /\ c.at = "check" /\ c.hs = call[t].hs /\ c.h = call[t].h
  BY CallEdits
<1>4. Moves(t, c)
  BY <1>1 DEF Moves, TypeOK
<1>5. /\ Distinct(call[t].hs) /\ hs \subseteq table /\ hs \cap busy = {}
      /\ hs \subseteq Handle
  BY <1>2, BeginsIs, ToSetIs
<1>6. Carried(call[t]) = {} /\ Carried(c) = hs
  BY <1>1, <1>3 DEF Carried, Carrying
<1> HIDE DEF hs, c
<1>7. \A h \in Handle : /\ disp'[h].kind = disp[h].kind
                        /\ (disp'[h].closed <=> disp[h].closed)
                        /\ (disp'[h].transferred <=> disp[h].transferred)
                        /\ disp'[h].inTransit <=> (h \in hs \/ disp[h].inTransit)
                        /\ h \notin hs => disp'[h] = disp[h]
  BY <1>1, <1>5, MarkedOn
<1>8. Kept
  BY <1>5, <1>7, TableHas DEF Kept, TableInv, Tables
<1>9. \A h \in Handle : h \in busy' <=> disp'[h].inTransit
  BY <1>1, <1>7 DEF TableInv, Transit
<1>10. \A h \in table' : disp'[h].closed => disp[h].kind = "buffer" /\ MayFail
  BY <1>1, <1>7, TableHas DEF TableInv, Tables
<1>11. busy' \subseteq table'
  BY <1>1, <1>5 DEF TableInv, Transit
<1> QED
  BY <1>1, <1>2, <1>3, <1>4, <1>5, <1>6, <1>8, <1>9, <1>10, <1>11, TableKept

\* A shared buffer that cannot be duplicated loses its memory and stays.
LEMMA TableUnserialized ==
  ASSUME TypeOK, TableInv, NEW t \in Thread, call[t].at = "send", MayFail,
         NEW bad, bad = Unserializable(call[t].hs),
         disp' = [h \in Handle |-> IF h \in bad
                    THEN [disp[h] EXCEPT !.closed = TRUE] ELSE disp[h]],
         NEW c \in CallRec, Moves(t, c), Carried(c) = Carried(call[t]),
         c.at \in {"idle", "finish"}, c.h = call[t].h, c.hs = call[t].hs,
         UNCHANGED <<table, busy, next>>
  PROVE  TableInv'
<1>1. /\ call[t].hs \in Seq(Handle) /\ call[t].h \in Handle
  BY CallOf DEF TableInv, CallsOK, CallOK
<1>2. /\ ToSet(call[t].hs) \subseteq busy /\ busy \subseteq table
      /\ Distinct(call[t].hs)
  BY CarriedHas DEF Carrying
<1>3. \A h \in bad : h \in ToSet(call[t].hs) /\ disp[h].kind = "buffer"
  BY <1>1, ToSetIs DEF Unserializable
<1>4. \A h \in Handle : /\ disp'[h].kind = disp[h].kind
                        /\ disp'[h].closed = (h \in bad \/ disp[h].closed)
                        /\ disp'[h].transferred = disp[h].transferred
                        /\ disp'[h].inTransit = disp[h].inTransit
                        /\ h \notin bad => disp'[h] = disp[h]
  <2> SUFFICES ASSUME NEW h \in Handle
               PROVE  /\ disp'[h].kind = disp[h].kind
                      /\ disp'[h].closed = (h \in bad \/ disp[h].closed)
                      /\ disp'[h].transferred = disp[h].transferred
                      /\ disp'[h].inTransit = disp[h].inTransit
                      /\ h \notin bad => disp'[h] = disp[h]
    OBVIOUS
  <2>1. disp[h] \in Dispatcher /\ disp[h].closed \in BOOLEAN
    BY DispOf
  <2>2. disp'[h] = IF h \in bad THEN [disp[h] EXCEPT !.closed = TRUE] ELSE disp[h]
    OBVIOUS
  <2>3. CASE h \in bad
    BY <2>1, <2>2, <2>3 DEF Dispatcher
  <2>4. CASE h \notin bad
    BY <2>1, <2>2, <2>4
  <2> QED
    BY <2>3, <2>4
<1>5. Kept
  BY <1>2, <1>3, <1>4, TableHas DEF Kept, TableInv, Tables
<1>6. \A h \in Handle : h \in busy' <=> disp'[h].inTransit
  BY <1>4 DEF TableInv, Transit
<1>7. \A h \in table' : disp'[h].closed => disp[h].kind = "buffer" /\ MayFail
  BY <1>3, <1>4, TableHas DEF TableInv, Tables
<1>8. busy' = (busy \ Carried(call[t])) \cup Carried(c) /\ busy' \subseteq table'
  BY CarriedHas DEF Carrying
<1>9. Carried(c) \cap (busy \ Carried(call[t])) = {}
  OBVIOUS
<1> QED
  BY <1>1, <1>2, <1>5, <1>6, <1>7, <1>8, <1>9, TableKept DEF Carrying

\* CompleteTransitAndClose of a dispatcher closes it and keeps what it refers to.
LEMMA TransferredIs ==
  ASSUME NEW d \in Dispatcher
  PROVE  /\ Transferred(d).kind = d.kind /\ Transferred(d).closed = TRUE
         /\ Transferred(d).inTransit = FALSE /\ Transferred(d).res = d.res
         /\ Transferred(d).port = d.port /\ Transferred(d) \in Dispatcher
BY DEF Transferred, TransferredPipe, TransferredThing, Dispatcher

\* HandleTable::CompleteTransitAndClose: what was carried leaves the table, closed.
LEMMA TableCompletes ==
  ASSUME TypeOK, TableInv, NEW t \in Thread, CompleteTransitAndClose(t)
  PROVE  TableInv' /\ failed' = failed
<1> DEFINE hs == ToSet(call[t].hs)
<1>1. /\ call[t].at = "finish" /\ table' = table \ hs /\ busy' = busy \ hs
      /\ disp' = [h \in Handle |-> IF h \in hs THEN Transferred(disp[h]) ELSE disp[h]]
      /\ Moves(t, Idle) /\ next' = next /\ failed' = FinishCheck(call[t].hs)
  BY DEF CompleteTransitAndClose, At, Moves
<1>2. /\ Carried(call[t]) = hs /\ hs \subseteq busy /\ busy \subseteq table /\ hs \subseteq Handle
      /\ \A h \in hs : disp[h].kind # "none"
  BY <1>1, CarriedHas DEF Carrying
<1>3. failed' = failed
  BY <1>1, <1>2 DEF FinishCheck
<1> HIDE DEF hs
<1>4. \A h \in Handle : /\ disp'[h].kind = disp[h].kind
                        /\ h \in hs => disp'[h].closed /\ ~disp'[h].inTransit
                        /\ h \notin hs => disp'[h] = disp[h]
  <2> SUFFICES ASSUME NEW h \in Handle
               PROVE  /\ disp'[h].kind = disp[h].kind
                      /\ h \in hs => disp'[h].closed /\ ~disp'[h].inTransit
                      /\ h \notin hs => disp'[h] = disp[h]
    OBVIOUS
  <2>1. disp[h] \in Dispatcher
    BY DispOf
  <2>2. disp'[h] = IF h \in hs THEN Transferred(disp[h]) ELSE disp[h]
    BY <1>1
  <2> QED
    BY <2>1, <2>2, TransferredIs
<1>5. Kept
  BY <1>2, <1>4, NoneIs DEF Kept, TableInv, Tables
<1>6. \A h \in Handle : h \in busy' <=> disp'[h].inTransit
  BY <1>1, <1>4 DEF TableInv, Transit
<1>7. \A h \in table' : disp'[h].closed => disp[h].kind = "buffer" /\ MayFail
  BY <1>1, <1>4, TableHas DEF TableInv, Tables
<1>8. /\ busy' = (busy \ Carried(call[t])) \cup Carried(Idle) /\ busy' \subseteq table'
      /\ Carried(Idle) \cap (busy \ Carried(call[t])) = {} /\ table' \subseteq table
  BY <1>1, <1>2, IdleIs
<1>9. \A h \in table \ table' : disp'[h].closed
  BY <1>1, <1>2, <1>4
<1> QED
  BY <1>1, <1>3, <1>5, <1>6, <1>7, <1>8, <1>9, IdleIs, TableKept DEF Carrying

\* HandleTable::CancelTransit.
LEMMA TableCancels ==
  ASSUME TypeOK, TableInv, NEW t \in Thread, CancelTransit(t)
  PROVE  TableInv' /\ failed' = failed \cup CancelCheck(ToSet(call[t].hs))
<1> DEFINE hs == ToSet(call[t].hs)
<1>1. /\ call[t].at = "finish" /\ table' = table /\ busy' = busy \ hs
      /\ disp' = Marked(hs, FALSE)
      /\ Moves(t, Idle) /\ next' = next
      /\ failed' = FinishCheck(call[t].hs) \cup CancelCheck(hs)
  BY DEF CancelTransit, At, Moves
<1>2. /\ Carried(call[t]) = hs /\ hs \subseteq busy /\ busy \subseteq table /\ hs \subseteq Handle
      /\ \A h \in hs : disp[h].kind # "none"
  BY <1>1, CarriedHas DEF Carrying
<1>3. failed' = failed \cup CancelCheck(ToSet(call[t].hs))
  BY <1>1, <1>2 DEF FinishCheck
<1> HIDE DEF hs
<1>4. \A h \in Handle : /\ disp'[h].kind = disp[h].kind
                        /\ (disp'[h].closed <=> disp[h].closed)
                        /\ (disp'[h].transferred <=> disp[h].transferred)
                        /\ disp'[h].inTransit <=> (h \notin hs /\ disp[h].inTransit)
                        /\ h \notin hs => disp'[h] = disp[h]
  <2>1. hs \in SUBSET Handle /\ disp' = Marked(hs, FALSE)
    BY <1>1, <1>2
  <2> QED
    BY <2>1, MarkedOff
<1>5. Kept
  BY <1>2, <1>4, NoneIs DEF Kept, TableInv, Tables
<1>6. \A h \in Handle : h \in busy' <=> disp'[h].inTransit
  BY <1>1, <1>4 DEF TableInv, Transit
<1>7. \A h \in table' : disp'[h].closed => disp[h].kind = "buffer" /\ MayFail
  BY <1>1, <1>4, TableHas DEF TableInv, Tables
<1>8. /\ busy' = (busy \ Carried(call[t])) \cup Carried(Idle) /\ busy' \subseteq table'
      /\ Carried(Idle) \cap (busy \ Carried(call[t])) = {} /\ table' \subseteq table
      /\ table \ table' = {}
  BY <1>1, <1>2, IdleIs
<1> QED
  BY <1>1, <1>3, <1>5, <1>6, <1>7, <1>8, IdleIs, TableKept DEF Carrying

\* A dispatcher that is closed.
LEMMA PassedIs ==
  ASSUME NEW d \in Dispatcher
  PROVE  /\ Passed(d) \in Dispatcher /\ Passed(d).kind = d.kind /\ Passed(d).res = d.res
         /\ Passed(d).port = d.port /\ (Passed(d).inTransit <=> d.inTransit)
         /\ (Passed(d).transferred <=> d.transferred) /\ Passed(d).closed
<1>1. d.closed \in BOOLEAN /\ TRUE \in BOOLEAN
  BY DEF Dispatcher
<1>2. Passed(d) \in Dispatcher
  BY <1>1 DEF Dispatcher, Passed
<1> QED
  BY <1>1, <1>2 DEF Dispatcher, Passed

\* The dispatchers when one of them is closed.
LEMMA ClosedIs ==
  ASSUME TypeOK, NEW g \in Handle, disp' = [disp EXCEPT ![g].closed = TRUE]
  PROVE  \A h \in Handle :
           /\ disp'[h].kind = disp[h].kind /\ disp'[h].res = disp[h].res
           /\ disp'[h].port = disp[h].port /\ (disp'[h].inTransit <=> disp[h].inTransit)
           /\ (disp'[h].transferred <=> disp[h].transferred)
           /\ h = g => disp'[h].closed
           /\ h # g => disp'[h] = disp[h]
           /\ disp'[h] \in Dispatcher
<1> SUFFICES ASSUME NEW h \in Handle
             PROVE  /\ disp'[h].kind = disp[h].kind /\ disp'[h].res = disp[h].res
                    /\ disp'[h].port = disp[h].port /\ (disp'[h].inTransit <=> disp[h].inTransit)
                    /\ (disp'[h].transferred <=> disp[h].transferred)
                    /\ h = g => disp'[h].closed
                    /\ h # g => disp'[h] = disp[h]
                    /\ disp'[h] \in Dispatcher
  OBVIOUS
<1>1. disp[h] \in Dispatcher
  BY DispOf
<1>2. disp'[h] = IF h = g THEN Passed(disp[h]) ELSE disp[h]
  BY DEF TypeOK, Passed
<1>3. CASE h = g
  BY <1>1, <1>2, <1>3, PassedIs
<1>4. CASE h # g
  BY <1>1, <1>2, <1>4
<1> QED
  BY <1>3, <1>4

\* Core::Close takes the entry out of the table.
LEMMA TableCloses ==
  ASSUME TypeOK, TableInv, NEW t \in Thread, NEW h \in table, Close(t, h)
  PROVE  TableInv'
<1> DEFINE c == [Idle EXCEPT !.at = "close", !.h = h]
<1>1. /\ call[t] = Idle /\ h \notin busy /\ table' = table \ {h} /\ Moves(t, c)
      /\ UNCHANGED <<busy, next, disp>>
  BY DEF Close, Calls, Removable, Moves
<1>2. h \in Handle /\ disp[h].kind # "none"
  BY TableHas
<1>3. c \in CallRec /\ c.at = "close" /\ c.h = h
  <2>1. "close" \in {"begin", "check", "checkRead", "close", "buffer"}
    OBVIOUS
  <2> QED
    BY <1>2, <2>1, CallStarts
<1>4. Carried(c) = {} /\ Carried(call[t]) = {} /\ call[t].at = "idle"
  BY <1>1, <1>3, IdleIs DEF Carried, Carrying
<1> HIDE DEF c
<1>5. Kept
  BY <1>1 DEF Kept, TableInv, Tables
<1>6. \A g \in Handle : g \in busy' <=> disp'[g].inTransit
  BY <1>1 DEF TableInv, Transit
<1>7. \A g \in table' : disp'[g].closed => disp[g].kind = "buffer" /\ MayFail
  BY <1>1 DEF TableInv, Tables
<1>8. /\ busy' = (busy \ Carried(call[t])) \cup Carried(c) /\ busy' \subseteq table'
      /\ Carried(c) \cap (busy \ Carried(call[t])) = {} /\ table' \subseteq table
      /\ \A g \in table \ table' : g = h
  BY <1>1, <1>4 DEF TableInv, Transit
<1> QED
  BY <1>1, <1>2, <1>3, <1>4, <1>5, <1>6, <1>7, <1>8, TableKept DEF Carrying

\* A step that closes a dispatcher that is not in the table any more.
LEMMA TableShuts ==
  ASSUME TypeOK, TableInv, NEW t \in Thread, NEW c \in CallRec, Moves(t, c),
         NEW g \in Handle, disp' = [disp EXCEPT ![g].closed = TRUE],
         disp[g].kind # "none", g \notin busy,
         table' = table \ {g}, UNCHANGED <<busy, next>>,
         Carried(call[t]) = {}, call[t].at = "close" => call[t].h = g,
         \/ c.at = "idle"
         \/ c.at = "closePort" /\ c.h = g /\ disp[g].kind = "pipe"
  PROVE  TableInv'
<1>1. \A h \in Handle : /\ disp'[h].kind = disp[h].kind
                        /\ (disp'[h].inTransit <=> disp[h].inTransit)
                        /\ (disp'[h].transferred <=> disp[h].transferred)
                        /\ h = g => disp'[h].closed
                        /\ h # g => disp'[h] = disp[h]
  BY ClosedIs
<1>2. Kept
  BY <1>1, NoneIs DEF Kept, TableInv, Tables
<1>3. \A h \in Handle : h \in busy' <=> disp'[h].inTransit
  BY <1>1 DEF TableInv, Transit
<1>4. \A h \in table' : disp'[h].closed => disp[h].kind = "buffer" /\ MayFail
  BY <1>1, TableHas DEF TableInv, Tables
<1>5. /\ Carried(c) = {} /\ busy' \subseteq table' /\ table' \subseteq table
      /\ \A h \in table \ table' : disp'[h].closed
  BY <1>1 DEF TableInv, Transit, Carried, Carrying
<1> QED
  BY <1>1, <1>2, <1>3, <1>4, <1>5, TableKept DEF Carrying

\* Closing the dispatcher of a message pipe.
LEMMA TableClosesPipe ==
  ASSUME TypeOK, TableInv, NEW t \in Thread, ClosePipe(t)
  PROVE  TableInv'
<1> DEFINE g == call[t].h
<1>1. call[t].at = "close" /\ disp[g].kind = "pipe" /\ UNCHANGED <<table, busy, next>>
  BY DEF ClosePipe, At
<1>2. g \in Handle /\ g \notin table /\ g \notin busy /\ ~disp[g].inTransit
  BY <1>1 DEF TableInv, CallsOK, CallOK, Transit
<1>3. Carried(call[t]) = {}
  BY <1>1 DEF Carried, Carrying
<1>4. CASE disp[g].closed
  <2>1. Moves(t, Idle) /\ disp' = disp
    BY <1>4 DEF ClosePipe, Moves
  <2> QED
    BY <1>1, <1>3, <1>4, <2>1, IdleIs, TableMoves DEF Carrying, CallOK
<1>5. CASE ~disp[g].closed
  <2> DEFINE c == IF disp[g].transferred THEN Idle ELSE [call[t] EXCEPT !.at = "closePort"]
  <2>1. /\ disp' = [disp EXCEPT ![g].closed = TRUE]
        /\ Moves(t, c)
    BY <1>2, <1>5 DEF ClosePipe, Moves, TypeOK
  <2>2. c \in CallRec /\ (c.at = "idle" \/ (c.at = "closePort" /\ c.h = g))
    BY CallOf, IdleIs, CallEdits
  <2> HIDE DEF c
  <2>3. table' = table \ {g}
    BY <1>1, <1>2
  <2> QED
    BY <1>1, <1>2, <1>3, <2>1, <2>2, <2>3, TableShuts
<1> QED
  BY <1>4, <1>5

\* Closing another dispatcher.
LEMMA TableClosesThing ==
  ASSUME TypeOK, TableInv, NEW t \in Thread, CloseThing(t)
  PROVE  TableInv'
<1> DEFINE g == call[t].h
<1>1. call[t].at = "close" /\ UNCHANGED <<table, busy, next>> /\ Moves(t, Idle)
  BY DEF CloseThing, At, Moves
<1>2. /\ g \in Handle /\ g \notin table /\ g \notin busy /\ ~disp[g].inTransit
      /\ disp[g].kind # "none"
  BY <1>1 DEF TableInv, CallsOK, CallOK, Transit
<1>3. Carried(call[t]) = {}
  BY <1>1 DEF Carried, Carrying
<1>4. disp' = [disp EXCEPT ![g].closed = TRUE]
  <2>1. (disp[g].closed \/ ~disp[g].inTransit) = TRUE
    BY <1>2
  <2>2. disp' = [disp EXCEPT ![g].closed = disp[g].closed \/ ~disp[g].inTransit]
    BY DEF CloseThing
  <2> QED
    BY <2>1, <2>2
<1>5. table' = table \ {g}
  BY <1>1, <1>2
<1> QED
  BY <1>1, <1>2, <1>3, <1>4, <1>5, IdleIs, TableShuts

\* PassWrappedPlatformHandle.
LEMMA TablePasses ==
  ASSUME TypeOK, TableInv, NEW t \in Thread, NEW g \in table,
         PassWrappedPlatformHandle(t, g)
  PROVE  TableInv'
<1>1. call[t] = Idle /\ g \notin busy /\ UNCHANGED <<busy, next, call>>
  BY DEF PassWrappedPlatformHandle, Calls, Removable
<1>2. Moves(t, Idle) /\ g \in Handle
  BY <1>1 DEF Moves, TypeOK
<1>3. Carried(call[t]) = {} /\ call[t].at = "idle" /\ Idle.at = "idle"
  BY <1>1, IdleIs
<1>4. CASE disp[g].kind = "platform"
  <2>1. table' = table \ {g} /\ disp' = [disp EXCEPT ![g].closed = TRUE]
    BY <1>4 DEF PassWrappedPlatformHandle, Passed
  <2> QED
    BY <1>1, <1>2, <1>3, <1>4, <2>1, IdleIs, TableShuts
<1>5. CASE disp[g].kind # "platform"
  BY <1>1, <1>5, TableSame DEF PassWrappedPlatformHandle
<1> QED
  BY <1>4, <1>5

\* The flags of a new dispatcher, whatever it is made of.
LEMMA NewHas ==
  ASSUME NEW kind, NEW res, NEW port
  PROVE  /\ New(kind, res, port).kind = kind /\ ~New(kind, res, port).closed
         /\ ~New(kind, res, port).inTransit /\ ~New(kind, res, port).transferred
         /\ New(kind, res, port).res = res /\ New(kind, res, port).port = port
BY DEF New

\* The numbers of the handles that a message's dispatchers get, when there are
\* enough of them.
LEMMA FromTransitIs ==
  ASSUME TypeOK, NEW cargo \in Seq(Cargo), next # INVALID \/ cargo = <<>>,
         INVALID \notin ToSet(FromTransit(cargo))
  PROVE  /\ \A i \in DOMAIN cargo : /\ FromTransit(cargo)[i] = next + i - 1
                                   /\ FromTransit(cargo)[i] \in Handle
         /\ next + Len(cargo) <= LastHandle + 1
         /\ (next + Len(cargo)) % (LastHandle + 1) =
              IF next + Len(cargo) = LastHandle + 1 THEN 0 ELSE next + Len(cargo)
<1> DEFINE n == Len(cargo)
           C == LastHandle + 1
           to == FromTransit(cargo)
<1>1. /\ n \in Nat /\ DOMAIN cargo = 1..n /\ C \in Nat \ {0} /\ next \in 0..LastHandle
      /\ LastHandle \in Nat \ {0} /\ (cargo = <<>> <=> n = 0)
  BY CoreAssumption DEF TypeOK
<1>2. DOMAIN to = 1..n /\ \A i \in 1..n : to[i] = (next + i - 1) % C
  BY <1>1 DEF FromTransit
<1>3. \A i \in 1..n : to[i] # 0
  BY <1>2 DEF ToSet, INVALID
<1>4. next + n <= C
  <2> SUFFICES ASSUME next + n > C PROVE FALSE
    BY <1>1
  <2> DEFINE i == C - next + 1
  <2>1. i \in 1..n /\ next + i - 1 = C
    BY <1>1
  <2>2. C % C = 0
    <3>1. C = C * 1 + 0 /\ 0 \in 0..(C - 1)
      BY <1>1
    <3> HIDE DEF C
    <3> QED
      BY <1>1, <3>1, ModIs
  <2> QED
    BY <1>2, <1>3, <2>1, <2>2
<1>5. ASSUME NEW i \in 1..n PROVE to[i] = next + i - 1 /\ to[i] \in Handle
  <2>1. next + i - 1 \in 0..(C - 1)
    BY <1>1, <1>4
  <2>2. next + i - 1 = C * 0 + (next + i - 1)
    BY <1>1
  <2>3. (next + i - 1) % C = next + i - 1
    BY <1>1, <2>1, <2>2, ModIs
  <2>4. next # 0
    BY <1>1 DEF INVALID
  <2> QED
    BY <1>1, <1>2, <2>1, <2>3, <2>4 DEF Handle
<1>6. (next + n) % C = IF next + n = C THEN 0 ELSE next + n
  <2>1. CASE next + n = C
    <3>1. next + n = C * 1 + 0 /\ 0 \in 0..(C - 1) /\ next + n \in Nat
      BY <1>1, <2>1
    <3> HIDE DEF C, n
    <3> QED
      BY <1>1, <2>1, <3>1, ModIs
  <2>2. CASE next + n # C
    <3>1. next + n = C * 0 + (next + n) /\ next + n \in 0..(C - 1) /\ next + n \in Nat
      BY <1>1, <1>4, <2>2
    <3> HIDE DEF C, n
    <3> QED
      BY <1>1, <2>2, <3>1, ModIs
  <2> QED
    BY <2>1, <2>2
<1> QED
  BY <1>1, <1>4, <1>5, <1>6

\* The handle after the last one is INVALID.
LEMMA AfterIs ==
  ASSUME NEW n \in 0..LastHandle
  PROVE  /\ After(n) = IF n = LastHandle THEN 0 ELSE n + 1
         /\ After(n) \in 0..LastHandle
<1> DEFINE C == LastHandle + 1
<1>1. C \in Nat \ {0} /\ LastHandle \in Nat \ {0}
  BY CoreAssumption
<1>2. CASE n = LastHandle
  <2>1. n + 1 = C * 1 + 0 /\ 0 \in 0..(C - 1) /\ n + 1 \in Nat
    BY <1>1, <1>2
  <2>2. (n + 1) % C = 0
    <3> HIDE DEF C
    <3> QED
      BY <1>1, <2>1, ModIs
  <2> QED
    BY <1>1, <1>2, <2>2 DEF After
<1>3. CASE n # LastHandle
  <2>1. n + 1 = C * 0 + (n + 1) /\ n + 1 \in 0..(C - 1) /\ n + 1 \in Nat
    BY <1>1, <1>3
  <2>2. (n + 1) % C = n + 1
    <3> HIDE DEF C
    <3> QED
      BY <1>1, <2>1, ModIs
  <2> QED
    BY <1>1, <1>3, <2>2 DEF After
<1> QED
  BY <1>2, <1>3

\* The dispatchers that Create and DuplicateBufferHandle add.
LEMMA CreateAdds ==
  ASSUME NEW kind, Create(kind)
  PROVE  Adds(New(kind, NoEnd, 0))
<1>1. AddDispatcher(New(kind, NoEnd, 0), kind = "buffer") /\ (kind = "buffer") \in BOOLEAN
  BY Zenon DEF Create
<1> QED
  BY <1>1, Zenon DEF Adds

LEMMA DuplicateAdds ==
  ASSUME NEW t, DuplicateBufferHandle(t), ~disp[call[t].h].closed
  PROVE  Adds(Duplicate(disp[call[t].h]))
<1>1. AddDispatcher(Duplicate(disp[call[t].h]), FALSE) /\ FALSE \in BOOLEAN
  BY Zenon DEF DuplicateBufferHandle
<1> QED
  BY <1>1, Zenon DEF Adds

\* HandleTable::AddDispatcher.
LEMMA TableAddsOne ==
  ASSUME TypeOK, TableInv, NEW kind, kind # "none", NEW res, NEW port,
         Adds(New(kind, res, port)), busy' = busy, Quits
  PROVE  TableInv'
<1>1. next \in 0..LastHandle /\ disp \in [Handle -> Dispatcher] /\ LastHandle \in Nat
  BY CoreAssumption DEF TypeOK
<1>2. CASE next = INVALID
  <2>1. UNCHANGED <<table, next, disp>>
    BY <1>2 DEF Adds, AddDispatcher, OutOfHandles
  <2>2. {} \in SUBSET Handle /\ table' = table \cup {}
    BY <2>1
  <2> QED
    BY <1>2, <2>1, <2>2, TableAdds
<1>3. CASE next # INVALID
  <2>1. next \in Handle
    BY <1>1, <1>3 DEF INVALID, Handle
  <2>2. /\ table' = table \cup {next} /\ next' = After(next)
        /\ disp' = [disp EXCEPT ![next] = New(kind, res, port)]
    BY <1>3 DEF Adds, AddDispatcher
  <2>3. /\ disp'[next] = New(kind, res, port)
        /\ \A h \in Handle : h \notin {next} => disp'[h] = disp[h]
    BY <1>1, <2>1, <2>2
  <2>4. \A h \in {next} : /\ disp'[h].kind # "none" /\ ~disp'[h].closed
                          /\ ~disp'[h].inTransit /\ ~disp'[h].transferred
    BY <2>3, NewHas
  <2>5. next' # INVALID => \A h \in Handle : h >= next' => h >= next /\ h \notin {next}
    BY <1>1, <2>2, AfterIs DEF INVALID, Handle
  <2>6. {next} \in SUBSET Handle /\ \A h \in {next} : next # INVALID /\ h >= next
    BY <1>1, <1>3, <2>1
  <2> HIDE DEF Handle
  <2> QED
    BY <1>3, <2>2, <2>3, <2>4, <2>5, <2>6, TableAdds
<1> QED
  BY <1>2, <1>3

\* Nothing moves.
LEMMA QuitsNone ==
  ASSUME call' = call
  PROVE  Quits
BY DEF Quits

\* A call that carries nothing ends.
LEMMA QuitsOne ==
  ASSUME TypeOK, NEW t \in Thread, call' = [call EXCEPT ![t] = Idle],
         call[t].at \in {"read", "buffer", "idle", "begin", "checkRead", "closePort"}
  PROVE  Quits
<1>1. call'[t] = Idle /\ \A u \in Thread : u # t => call'[u] = call[u]
  BY IdleIs, MovesIs DEF Moves
<1>2. Carried(call[t]) = {} /\ call[t].at # "close"
  BY DEF Carried, Carrying
<1> QED
  BY <1>1, <1>2 DEF Quits

\* Core::CreateMessagePipe.
LEMMA TableCreates ==
  ASSUME TypeOK, TableInv, CreateMessagePipe
  PROVE  TableInv'
<1> DEFINE a == next
           b == After(next)
           new == {a, b}
<1>1. next \in 0..LastHandle /\ disp \in [Handle -> Dispatcher] /\ LastHandle \in Nat
  BY CoreAssumption DEF TypeOK
<1>2. Quits /\ busy' = busy
  BY QuitsNone DEF CreateMessagePipe
<1>3. CASE a = INVALID \/ b = INVALID
  <2>1. UNCHANGED <<table, next, disp>>
    BY <1>3 DEF CreateMessagePipe, OutOfHandles
  <2>2. {} \in SUBSET Handle /\ table' = table \cup {}
    BY <2>1
  <2> QED
    BY <1>2, <2>1, <2>2, TableAdds
<1>4. CASE a # INVALID /\ b # INVALID
  <2>1. a \in Handle /\ b \in Handle /\ b = a + 1
    BY <1>1, <1>4, AfterIs DEF INVALID, Handle
  <2>2. /\ table' = table \cup new /\ next' = After(b)
        /\ disp' = [disp EXCEPT ![a] = New("pipe", <<pipes + 1, 0>>, 0),
                                ![b] = New("pipe", <<pipes + 1, 1>>, 0)]
    BY <1>4 DEF CreateMessagePipe
  <2>3. After(b) = INVALID \/ After(b) = b + 1
    BY <1>1, <2>1, AfterIs DEF INVALID, Handle
  <2>4. a # b /\ \A h \in Handle : h >= b + 1 => h >= a /\ h # a /\ h # b
    BY <1>1, <2>1 DEF Handle
  <2>5. new \in SUBSET Handle /\ \A h \in new : next # INVALID /\ h >= next
    BY <1>1, <1>4, <2>1
  <2> HIDE DEF Handle, a, b
  <2>6. /\ disp'[a] = New("pipe", <<pipes + 1, 0>>, 0)
        /\ disp'[b] = New("pipe", <<pipes + 1, 1>>, 0)
        /\ \A h \in Handle : h \notin new => disp'[h] = disp[h]
    BY <1>1, <2>1, <2>2, <2>4
  <2>7. \A h \in new : /\ disp'[h].kind # "none" /\ ~disp'[h].closed
                       /\ ~disp'[h].inTransit /\ ~disp'[h].transferred
    BY <2>6, NewHas
  <2>8. next' # INVALID =>
           \A h \in Handle : h >= next' => next # INVALID /\ h >= next /\ h \notin new
    BY <1>4, <2>2, <2>3, <2>4 DEF a
  <2> HIDE DEF new
  <2> QED
    BY <1>2, <2>2, <2>5, <2>6, <2>7, <2>8, TableAdds
<1> QED
  BY <1>3, <1>4

\* What a call that reads finds.
LEMMA ReadFinds ==
  ASSUME TypeOK, TableInv, Ends, NEW t \in Thread, call[t].at \in {"read", "send", "closePort"}
  PROVE  /\ call[t].h \in Handle /\ disp[call[t].h].kind = "pipe"
         /\ disp[call[t].h].res \in End
         /\ queue[disp[call[t].h].res] \in Seq(Seq(Cargo))
<1>1. call[t].h \in Handle /\ disp[call[t].h].kind = "pipe"
  BY DEF TableInv, CallsOK, CallOK
<1>2. disp[call[t].h].res \in End
  BY <1>1 DEF Ends, PipeEnd
<1> QED
  BY <1>1, <1>2 DEF TypeOK

\* A piece of cargo is of some kind.
LEMMA CargoHas ==
  ASSUME NEW c \in Cargo
  PROVE  /\ c.kind \in {"pipe"} \cup Things /\ c.kind # "none"
         /\ c.res \in End \cup {NoEnd}
         /\ Deserialized(c).kind = c.kind /\ ~Deserialized(c).closed
         /\ ~Deserialized(c).inTransit /\ ~Deserialized(c).transferred
         /\ Deserialized(c).res = IF c.kind = "pipe" THEN c.res ELSE NoEnd
         /\ Deserialized(c).port = IF c.kind = "pipe" THEN gen[c.res] ELSE 0
<1>1. c.kind \in {"pipe"} \cup Things /\ c.res \in End \cup {NoEnd}
  BY DEF Cargo
<1>2. c.kind # "none"
  BY <1>1, CoreAssumption
<1>3. Deserialized(c) = IF c.kind = "pipe" THEN New("pipe", c.res, gen[c.res])
                        ELSE New(c.kind, NoEnd, 0)
  BY DEF Deserialized, DeserializedPipe, DeserializedThing
<1> QED
  BY <1>1, <1>2, <1>3, NewHas

\* The dispatchers that a message's cargo becomes.
LEMMA TakesIs ==
  ASSUME TypeOK, NEW cargo \in Seq(Cargo), next # INVALID \/ cargo = <<>>,
         INVALID \notin ToSet(FromTransit(cargo)),
         disp' = [h \in Handle |->
                    IF \E i \in DOMAIN FromTransit(cargo) : FromTransit(cargo)[i] = h
                    THEN Deserialized(cargo[CHOOSE i \in DOMAIN FromTransit(cargo) :
                                              FromTransit(cargo)[i] = h])
                    ELSE disp[h]]
  PROVE  /\ ToSet(FromTransit(cargo)) \subseteq Handle
         /\ \A h \in Handle : h \notin ToSet(FromTransit(cargo)) => disp'[h] = disp[h]
         /\ \A h \in ToSet(FromTransit(cargo)) :
              /\ h >= next /\ h < next + Len(cargo) /\ h - next + 1 \in DOMAIN cargo
              /\ disp'[h] = Deserialized(cargo[h - next + 1])
<1> DEFINE to == FromTransit(cargo)
<1>1. /\ \A i \in DOMAIN cargo : to[i] = next + i - 1 /\ to[i] \in Handle
      /\ next \in 0..LastHandle /\ LastHandle \in Nat /\ DOMAIN cargo = 1..Len(cargo)
      /\ Len(cargo) \in Nat /\ DOMAIN to = DOMAIN cargo
  <2>1. \A i \in DOMAIN cargo : to[i] = next + i - 1 /\ to[i] \in Handle
    BY FromTransitIs
  <2>2. next \in 0..LastHandle /\ LastHandle \in Nat
    BY CoreAssumption DEF TypeOK
  <2>3. DOMAIN to = DOMAIN cargo
    BY DEF FromTransit
  <2> QED
    BY <2>1, <2>2, <2>3
<1>2. \A h : h \in ToSet(to) <=> \E i \in DOMAIN to : to[i] = h
  BY DEF ToSet
<1> HIDE DEF to, Handle
<1>3. ToSet(to) \subseteq Handle
  BY <1>1, <1>2
<1>4. \A h \in Handle : h \notin ToSet(to) => disp'[h] = disp[h]
  BY <1>2 DEF to
<1>5. ASSUME NEW h \in ToSet(to)
      PROVE  /\ h >= next /\ h < next + Len(cargo) /\ h - next + 1 \in DOMAIN cargo
             /\ disp'[h] = Deserialized(cargo[h - next + 1])
  <2> DEFINE j == CHOOSE i \in DOMAIN to : to[i] = h
  <2>1. \E i \in DOMAIN to : to[i] = h
    BY <1>2
  <2>2. j \in DOMAIN to /\ to[j] = h
    BY <2>1
  <2>3. h = next + j - 1 /\ j \in 1..Len(cargo)
    BY <1>1, <2>2
  <2>4. disp'[h] = Deserialized(cargo[j])
    BY <1>3, <2>1 DEF to
  <2> HIDE DEF j
  <2>5. j = h - next + 1
    BY <1>1, <2>3
  <2> QED
    BY <1>1, <2>3, <2>4, <2>5
<1> QED
  BY <1>3, <1>4, <1>5 DEF to

\* A read that gets a message and the handles for what it carries.
LEMMA TableTakes ==
  ASSUME TypeOK, TableInv, Ends, NEW t \in Thread, ReadTakes(t), "overflow" \notin failed'
  PROVE  TableInv'
<1> DEFINE d == disp[call[t].h]
           cargo == Head(queue[d.res])
           to == FromTransit(cargo)
<1>1. /\ call[t].at = "read" /\ queue[d.res] # <<>> /\ call' = [call EXCEPT ![t] = Idle]
      /\ busy' = busy
  BY DEF ReadTakes, At
<1>2. Quits
  BY <1>1, QuitsOne
<1>3. cargo \in Seq(Cargo)
  BY <1>1, ReadFinds
<1>4. CASE next = INVALID /\ cargo # <<>>
  <2>1. UNCHANGED <<table, next, disp>>
    BY <1>4 DEF ReadTakes
  <2>2. {} \in SUBSET Handle /\ table' = table \cup {}
    BY <2>1
  <2> QED
    BY <1>1, <1>2, <1>4, <2>1, <2>2, TableAdds
<1>5. CASE next # INVALID \/ cargo = <<>>
  <2>1. /\ table' = table \cup (ToSet(to) \ {INVALID})
        /\ disp' = [h \in Handle |->
                      IF \E i \in DOMAIN to : to[i] = h
                      THEN Deserialized(cargo[CHOOSE i \in DOMAIN to : to[i] = h])
                      ELSE disp[h]]
        /\ next' = (next + Len(cargo)) % (LastHandle + 1)
        /\ failed' = failed \cup (IF INVALID \in ToSet(to) THEN {"overflow"} ELSE {})
    BY <1>5 DEF ReadTakes
  <2>2. INVALID \notin ToSet(to)
    BY <2>1
  <2> HIDE DEF cargo, d
  <2>3. /\ next' = IF next + Len(cargo) = LastHandle + 1 THEN 0 ELSE next + Len(cargo)
        /\ next + Len(cargo) <= LastHandle + 1
    BY <1>3, <1>5, <2>1, <2>2, FromTransitIs
  <2>4. /\ ToSet(to) \subseteq Handle
        /\ \A h \in Handle : h \notin ToSet(to) => disp'[h] = disp[h]
        /\ \A h \in ToSet(to) : /\ h >= next /\ h < next + Len(cargo)
                                /\ h - next + 1 \in DOMAIN cargo
                                /\ disp'[h] = Deserialized(cargo[h - next + 1])
    BY <1>3, <1>5, <2>1, <2>2, TakesIs
  <2>5. \A h \in ToSet(to) : /\ disp'[h].kind # "none" /\ ~disp'[h].closed
                             /\ ~disp'[h].inTransit /\ ~disp'[h].transferred
    <3> SUFFICES ASSUME NEW h \in ToSet(to)
                 PROVE  /\ disp'[h].kind # "none" /\ ~disp'[h].closed
                        /\ ~disp'[h].inTransit /\ ~disp'[h].transferred
      OBVIOUS
    <3>1. cargo[h - next + 1] \in Cargo
      BY <1>3, <2>4
    <3> QED
      BY <2>4, <3>1, CargoHas
  <2>6. table' = table \cup ToSet(to)
    BY <2>1, <2>2
  <2>7. next \in 0..LastHandle /\ Len(cargo) \in Nat /\ LastHandle \in Nat
    BY <1>3, CoreAssumption DEF TypeOK
  <2>8. \A h \in ToSet(to) : next # INVALID
    <3>1. CASE cargo = <<>>
      <4>1. ToSet(to) = {}
        BY <3>1 DEF ToSet, FromTransit
      <4> QED
        BY <4>1
    <3> QED
      BY <1>5, <3>1
  <2>9. next' # INVALID =>
           \A h \in Handle : h >= next' => next # INVALID /\ h >= next /\ h \notin ToSet(to)
    <3>1. CASE next = INVALID
      BY <1>5, <2>3, <2>7, <3>1 DEF INVALID
    <3>2. CASE next # INVALID
      <4> SUFFICES ASSUME next' # INVALID, NEW h \in Handle, h >= next'
                   PROVE  h >= next /\ h \notin ToSet(to)
        BY <3>2
      <4>1. h >= next + Len(cargo)
        BY <2>3 DEF INVALID
      <4> QED
        BY <2>4, <2>7, <4>1 DEF Handle
    <3> QED
      BY <3>1, <3>2
  <2> HIDE DEF to, Handle
  <2> QED
    BY <1>1, <1>2, <2>4, <2>5, <2>6, <2>8, <2>9, TableAdds
<1> QED
  BY <1>4, <1>5

-----------------------------------------------------------------------------
(* SendMessage ends in one of three ways.                                  *)

\* The call of a write that has returned.
Finishes(c, ok, sent) == [c EXCEPT !.at = "finish", !.ok = ok, !.sent = sent]
SendDone(c, ok, sent) == IF c.hs = <<>> THEN Idle ELSE Finishes(c, ok, sent)

\* EndSerialize fails.
SendFails(t) ==
  LET bad == Unserializable(call[t].hs)
  IN /\ MayFail /\ bad # {}
     /\ disp' = [h \in Handle |-> IF h \in bad
                    THEN [disp[h] EXCEPT !.closed = TRUE] ELSE disp[h]]
     /\ Moves(t, SendDone(call[t], TRUE, FALSE))
     /\ UNCHANGED <<queue, gen, event>>

\* The message is sent.
Sends(t) ==
  LET c == call[t]
      d == disp[c.h]
      to == Peer(d.res)
  IN /\ Sendable(d, c.hs)
     /\ queue' = [queue EXCEPT ![to] = Append(@, CargoOf(c.hs))]
     /\ gen' = [e \in End |-> IF e \in EndsOf(c.hs) THEN gen[e] + 1 ELSE gen[e]]
     /\ event' = event \cup Observers({to})
     /\ Moves(t, SendDone(call[t], TRUE, TRUE))
     /\ UNCHANGED disp

\* The node refuses it: for a closed peer there is more to do.
Refusals(c) == {SendDone(c, FALSE, FALSE), [c EXCEPT !.at = "peerClosed"]}
SendRefused(t) ==
  /\ \E c \in Refusals(call[t]) : Moves(t, c)
  /\ UNCHANGED <<disp, queue, gen, event>>

\* SendMessage, taken apart.
LEMMA SendIs ==
  ASSUME NEW t \in Thread, SendMessage(t)
  PROVE  /\ call[t].at = "send"
         /\ UNCHANGED <<table, busy, next, pipes, shut, waiter, calls, lost, failed>>
         /\ SendFails(t) \/ Sends(t) \/ SendRefused(t)
<1>1. /\ call[t].at = "send"
      /\ UNCHANGED <<table, busy, next, pipes, shut, waiter, calls, lost, failed>>
  BY DEF SendMessage, At
<1> DEFINE c == call[t]
           d == disp[c.h]
           to == Peer(d.res)
           done(ok, sent) == IF c.hs = <<>> THEN Idle
                             ELSE [c EXCEPT !.at = "finish", !.ok = ok, !.sent = sent]
           fails(bad) ==
             /\ disp' = [h \in Handle |-> IF h \in bad
                            THEN [disp[h] EXCEPT !.closed = TRUE] ELSE disp[h]]
             /\ call' = [call EXCEPT ![t] = done(TRUE, FALSE)]
             /\ UNCHANGED <<queue, gen, event>>
           goes ==
             IF Sendable(d, c.hs)
             THEN /\ queue' = [queue EXCEPT ![to] = Append(@, CargoOf(c.hs))]
                  /\ gen' = [e \in End |-> IF e \in EndsOf(c.hs) THEN gen[e] + 1
                                           ELSE gen[e]]
                  /\ event' = event \cup Observers({to})
                  /\ call' = [call EXCEPT ![t] = done(TRUE, TRUE)]
                  /\ UNCHANGED disp
             ELSE /\ call' = [call EXCEPT ![t] =
                               IF Receives(d) /\ PeerClosed(d.res)
                               THEN [c EXCEPT !.at = "peerClosed"] ELSE done(FALSE, FALSE)]
                  /\ UNCHANGED <<disp, queue, gen, event>>
           some(serialized) == IF serialized THEN {} ELSE Unserializable(c.hs)
<1>2. \E serialized \in Platform : IF some(serialized) # {} THEN fails(some(serialized)) ELSE goes
  BY Zenon DEF SendMessage
<1>3. goes => Sends(t) \/ SendRefused(t)
  <2>1. CASE Sendable(d, c.hs)
    BY <2>1, Zenon DEF Sends, Moves, SendDone, Finishes
  <2>2. CASE ~Sendable(d, c.hs)
    <3>1. /\ SendDone(c, FALSE, FALSE) \in Refusals(c)
          /\ [c EXCEPT !.at = "peerClosed"] \in Refusals(c)
      BY DEF Refusals
    <3>2. CASE Receives(d) /\ PeerClosed(d.res)
      BY <2>2, <3>1, <3>2, Zenon DEF SendRefused, Moves
    <3>3. CASE ~(Receives(d) /\ PeerClosed(d.res))
      BY <2>2, <3>1, <3>3, Zenon DEF SendRefused, Moves, SendDone, Finishes
    <3> QED
      BY <3>2, <3>3
  <2> QED
    BY <2>1, <2>2
<1>4. MayFail /\ some(FALSE) # {} /\ fails(some(FALSE)) => SendFails(t)
  BY Zenon DEF SendFails, Moves, SendDone, Finishes
<1> HIDE DEF goes, fails
<1>5. some(TRUE) = {}
  OBVIOUS
<1> HIDE DEF some
<1>6. PICK serialized \in Platform : IF some(serialized) # {} THEN fails(some(serialized)) ELSE goes
  BY <1>2
<1>7. serialized = TRUE \/ serialized = FALSE
  BY CoreAssumption, Zenon
<1>8. CASE serialized = TRUE
  BY <1>1, <1>3, <1>5, <1>6, <1>8, Zenon
<1>9. CASE serialized = FALSE
  <2>1. MayFail
    BY <1>9, Zenon DEF MayFail
  <2> QED
    BY <1>1, <1>3, <1>4, <1>6, <1>9, <2>1, Zenon
<1> QED
  BY <1>7, <1>8, <1>9

\* The call of a write that has something to finish.
LEMMA FinishesIs ==
  ASSUME NEW c \in CallRec, NEW ok \in BOOLEAN, NEW sent \in BOOLEAN
  PROVE  /\ Finishes(c, ok, sent) \in CallRec /\ Finishes(c, ok, sent).at = "finish"
         /\ Finishes(c, ok, sent).h = c.h /\ Finishes(c, ok, sent).hs = c.hs
         /\ Finishes(c, ok, sent).sent = sent
BY DEF Finishes, CallRec

\* The call of a write that has returned.
LEMMA SendDoneIs ==
  ASSUME TypeOK, TableInv, NEW t \in Thread, call[t].at = "send",
         NEW ok \in BOOLEAN, NEW sent \in BOOLEAN
  PROVE  /\ SendDone(call[t], ok, sent) \in CallRec
         /\ SendDone(call[t], ok, sent).at \in {"idle", "finish"}
         /\ SendDone(call[t], ok, sent).at = "idle" <=> call[t].hs = <<>>
         /\ call[t].hs # <<>> => /\ SendDone(call[t], ok, sent).h = call[t].h
                                /\ SendDone(call[t], ok, sent).hs = call[t].hs
                                /\ SendDone(call[t], ok, sent).sent = sent
         /\ Carried(SendDone(call[t], ok, sent)) = Carried(call[t])
         /\ CallOK(SendDone(call[t], ok, sent))
         /\ SendDone(call[t], ok, sent).at \in Carrying =>
              Distinct(SendDone(call[t], ok, sent).hs)
<1>1. /\ Carried(call[t]) = ToSet(call[t].hs) /\ Distinct(call[t].hs)
      /\ call[t].h \in Handle /\ call[t].hs \in Seq(Handle)
  BY CarriedHas, CallOf DEF Carrying, TableInv, CallsOK, CallOK
<1>2. CASE call[t].hs = <<>>
  <2>1. SendDone(call[t], ok, sent) = Idle
    BY <1>2 DEF SendDone
  <2>2. ToSet(call[t].hs) = {}
    BY <1>2 DEF ToSet
  <2> QED
    BY <1>1, <1>2, <2>1, <2>2, IdleIs DEF CallOK, Carrying
<1>3. CASE call[t].hs # <<>>
  <2> DEFINE c == SendDone(call[t], ok, sent)
  <2>1. c = Finishes(call[t], ok, sent)
    BY <1>3 DEF SendDone
  <2>2. c \in CallRec /\ c.at = "finish" /\ c.h = call[t].h /\ c.hs = call[t].hs /\ c.sent = sent
    <3>1. call[t] \in CallRec
      BY CallOf
    <3> DEFINE x == Finishes(call[t], ok, sent)
    <3>2. x \in CallRec /\ x.at = "finish" /\ x.h = call[t].h /\ x.hs = call[t].hs /\ x.sent = sent
      BY <3>1, FinishesIs, Zenon
    <3> HIDE DEF c, x
    <3>3. c = x
      BY <2>1 DEF x
    <3> QED
      BY <3>2, <3>3, Zenon
  <2> HIDE DEF c
  <2>3. Carried(c) = ToSet(call[t].hs) /\ CallOK(c)
    BY <1>1, <2>2 DEF Carried, Carrying, CallOK
  <2> QED
    BY <1>1, <1>3, <2>2, <2>3 DEF c
<1> QED
  BY <1>2, <1>3

\* The call of a write that the node refused.
LEMMA RefusedIs ==
  ASSUME TypeOK, TableInv, NEW t \in Thread, call[t].at = "send", NEW c \in Refusals(call[t])
  PROVE  /\ c \in CallRec /\ c.at \in {"idle", "finish", "peerClosed"}
         /\ CallOK(c) /\ Carried(c) = Carried(call[t])
         /\ c.at \in Carrying => Distinct(c.hs)
<1>1. FALSE \in BOOLEAN
  OBVIOUS
<1>2. CASE c = SendDone(call[t], FALSE, FALSE)
  BY <1>1, <1>2, SendDoneIs, Zenon
<1>3. CASE c = [call[t] EXCEPT !.at = "peerClosed"]
  <2>1. c \in CallRec /\ c.at = "peerClosed" /\ c.h = call[t].h /\ c.hs = call[t].hs
    BY <1>3, CallEdits
  <2>2. /\ Carried(call[t]) = ToSet(call[t].hs) /\ Distinct(call[t].hs)
        /\ call[t].h \in Handle /\ disp[call[t].h].kind = "pipe"
    BY CarriedHas DEF Carrying, TableInv, CallsOK, CallOK
  <2> QED
    BY <2>1, <2>2 DEF Carried, Carrying, CallOK
<1> QED
  BY <1>2, <1>3 DEF Refusals

\* A write sends its message, or does not.
LEMMA TableSends ==
  ASSUME TypeOK, TableInv, NEW t \in Thread, SendMessage(t)
  PROVE  TableInv'
<1>1. /\ call[t].at = "send" /\ UNCHANGED <<table, busy, next>>
      /\ SendFails(t) \/ Sends(t) \/ SendRefused(t)
  BY SendIs
<1>2. TRUE \in BOOLEAN /\ FALSE \in BOOLEAN
  OBVIOUS
<1>3. CASE SendFails(t)
  <2> DEFINE c == SendDone(call[t], TRUE, FALSE)
             bad == Unserializable(call[t].hs)
  <2>1. /\ MayFail /\ bad # {} /\ Moves(t, c)
        /\ disp' = [h \in Handle |-> IF h \in bad
                      THEN [disp[h] EXCEPT !.closed = TRUE] ELSE disp[h]]
    BY <1>3, Zenon DEF SendFails
  <2>2. call[t].hs # <<>>
    BY <2>1 DEF Unserializable
  <2>3. /\ c \in CallRec /\ c.at \in {"idle", "finish"} /\ c.h = call[t].h
        /\ c.hs = call[t].hs /\ Carried(c) = Carried(call[t])
    BY <1>1, <1>2, <2>2, SendDoneIs, Zenon
  <2> HIDE DEF c
  <2> QED
    BY <1>1, <2>1, <2>3, TableUnserialized
<1>4. CASE Sends(t)
  <2> DEFINE c == SendDone(call[t], TRUE, TRUE)
  <2>1. Moves(t, c) /\ disp' = disp
    BY <1>4, Zenon DEF Sends
  <2>2. /\ c \in CallRec /\ CallOK(c) /\ Carried(c) = Carried(call[t])
        /\ c.at \in Carrying => Distinct(c.hs)
    BY <1>1, <1>2, SendDoneIs, Zenon
  <2> HIDE DEF c
  <2> QED
    BY <1>1, <2>1, <2>2, TableMoves
<1>5. CASE SendRefused(t)
  <2>1. PICK c \in Refusals(call[t]) : Moves(t, c) /\ disp' = disp
    BY <1>5, Zenon DEF SendRefused
  <2>2. /\ c \in CallRec /\ CallOK(c) /\ Carried(c) = Carried(call[t])
        /\ c.at \in Carrying => Distinct(c.hs)
    BY <1>1, RefusedIs, Zenon
  <2> QED
    BY <1>1, <2>1, <2>2, TableMoves
<1> QED
  BY <1>1, <1>3, <1>4, <1>5

\* A call ends that carries nothing, and leaves the table alone.
LEMMA TableEnds ==
  ASSUME TypeOK, TableInv, NEW t \in Thread, call' = [call EXCEPT ![t] = Idle],
         Carried(call[t]) = {}, call[t].at # "close", UNCHANGED <<table, busy, next, disp>>
  PROVE  TableInv'
<1>1. Moves(t, Idle) /\ Idle \in CallRec /\ CallOK(Idle) /\ Carried(Idle) = {}
      /\ Idle.at = "idle"
  BY IdleIs DEF Moves, CallOK
<1> QED
  BY <1>1, TableMoves DEF Carrying

\* A call begins.
LEMMA TableStarts ==
  ASSUME TypeOK, TableInv, NEW t \in Thread, NEW c \in CallRec, Moves(t, c),
         call[t] = Idle, Carried(c) = {}, c.at \in Carrying => Distinct(c.hs), CallOK(c),
         UNCHANGED <<table, busy, next, disp>>
  PROVE  TableInv'
<1>1. Carried(call[t]) = {} /\ call[t].at = "idle"
  BY IdleIs
<1> QED
  BY <1>1, TableMoves

\* A call is made, with a handle that is looked up.
LEMMA TableCalls ==
  ASSUME TypeOK, TableInv, NEW t \in Thread, NEW h \in table,
         \/ \E hs \in Bundles : WriteMessage(t, h, hs)
         \/ ReadMessage(t, h) \/ UseBuffer(t, h)
  PROVE  TableInv'
<1>1. h \in Handle
  BY DEF TypeOK
<1> HIDE DEF Handle
<1>2. CASE \E hs \in Bundles : WriteMessage(t, h, hs)
  <2>1. PICK hs \in Bundles : WriteMessage(t, h, hs)
    BY <1>2
  <2> DEFINE at == IF hs = <<>> THEN "check" ELSE "begin"
             c == Starts(at, h, hs)
  <2>2. hs \in Seq(Handle) /\ at \in {"begin", "check", "checkRead", "close", "buffer"}
    BY CoreAssumption DEF Handle
  <2>3. c \in CallRec /\ c.at = at /\ c.h = h /\ c.hs = hs
    <3> HIDE DEF at
    <3> QED
      BY <1>1, <2>2, StartsIs
  <2>4. Moves(t, c) /\ call[t] = Idle /\ UNCHANGED <<table, busy, next, disp>>
    BY <2>1 DEF WriteMessage, Calls, Moves, Starts
  <2>5. Carried(c) = {} /\ (c.at \in Carrying => Distinct(c.hs)) /\ CallOK(c)
    <3> HIDE DEF c
    <3> QED
      BY <1>1, <2>3 DEF Carried, Carrying, CallOK, Distinct, ToSet
  <2> HIDE DEF c
  <2> QED
    BY <2>3, <2>4, <2>5, TableStarts
<1>3. CASE ReadMessage(t, h)
  <2> DEFINE c == [Idle EXCEPT !.at = "checkRead", !.h = h]
  <2>1. c \in CallRec /\ c.at = "checkRead" /\ c.h = h /\ c.hs = <<>>
    <3>1. "checkRead" \in {"begin", "check", "checkRead", "close", "buffer"}
      OBVIOUS
    <3> QED
      BY <1>1, <3>1, CallStarts
  <2>2. Moves(t, c) /\ call[t] = Idle /\ UNCHANGED <<table, busy, next, disp>>
    BY <1>3 DEF ReadMessage, Calls, Moves
  <2> HIDE DEF c
  <2>3. Carried(c) = {} /\ (c.at \in Carrying => Distinct(c.hs)) /\ CallOK(c)
    BY <1>1, <2>1 DEF Carried, Carrying, CallOK
  <2> QED
    BY <2>1, <2>2, <2>3, TableStarts
<1>4. CASE UseBuffer(t, h)
  <2> DEFINE c == [Idle EXCEPT !.at = "buffer", !.h = h]
  <2>1. c \in CallRec /\ c.at = "buffer" /\ c.h = h
    <3>1. "buffer" \in {"begin", "check", "checkRead", "close", "buffer"}
      OBVIOUS
    <3> QED
      BY <1>1, <3>1, CallStarts
  <2>2. /\ Moves(t, c) /\ call[t] = Idle /\ UNCHANGED <<table, busy, next, disp>>
        /\ disp[h].kind = "buffer"
    BY <1>4 DEF UseBuffer, Calls, Moves
  <2> HIDE DEF c
  <2>3. Carried(c) = {} /\ (c.at \in Carrying => Distinct(c.hs)) /\ CallOK(c)
    BY <1>1, <2>1, <2>2 DEF Carried, Carrying, CallOK
  <2> QED
    BY <2>1, <2>2, <2>3, TableStarts
<1> QED
  BY <1>2, <1>3, <1>4

\* The checks of WriteMessage and ReadMessage, and what follows on a closed peer.
LEMMA TableChecks ==
  ASSUME TypeOK, TableInv, NEW t \in Thread,
         CheckWrite(t) \/ CheckRead(t) \/ ReadNothing(t) \/ TellPeerClosed(t)
  PROVE  TableInv'
<1>1. CASE CheckWrite(t)
  <2> DEFINE c == IF MayUse(disp[call[t].h]) THEN [call[t] EXCEPT !.at = "send"]
                  ELSE IF call[t].hs = <<>> THEN Idle ELSE [call[t] EXCEPT !.at = "finish"]
  <2>1. call[t].at = "check" /\ Moves(t, c) /\ UNCHANGED <<table, busy, next, disp>>
    BY <1>1 DEF CheckWrite, At, Moves
  <2>2. /\ Carried(call[t]) = ToSet(call[t].hs) /\ Distinct(call[t].hs)
        /\ call[t].h \in Handle /\ call[t].hs \in Seq(Handle)
    BY <2>1, CarriedHas, CallOf DEF Carrying, TableInv, CallsOK, CallOK
  <2>3. CASE MayUse(disp[call[t].h])
    <3>1. c \in CallRec /\ c.at = "send" /\ c.h = call[t].h /\ c.hs = call[t].hs
      BY <2>3, CallEdits
    <3> HIDE DEF c
    <3>2. Carried(c) = Carried(call[t]) /\ CallOK(c)
      BY <2>2, <2>3, <3>1 DEF Carried, Carrying, CallOK, MayUse
    <3> QED
      BY <2>1, <2>2, <3>1, <3>2, TableMoves
  <2>4. CASE ~MayUse(disp[call[t].h]) /\ call[t].hs = <<>>
    <3>1. c = Idle /\ Carried(call[t]) = {}
      BY <2>2, <2>4 DEF ToSet
    <3> HIDE DEF c
    <3> QED
      BY <2>1, <3>1, IdleIs, TableMoves DEF Carrying, CallOK
  <2>5. CASE ~MayUse(disp[call[t].h]) /\ call[t].hs # <<>>
    <3>1. c \in CallRec /\ c.at = "finish" /\ c.h = call[t].h /\ c.hs = call[t].hs
      BY <2>5, CallEdits
    <3> HIDE DEF c
    <3>2. Carried(c) = Carried(call[t]) /\ CallOK(c)
      BY <2>2, <3>1 DEF Carried, Carrying, CallOK
    <3> QED
      BY <2>1, <2>2, <3>1, <3>2, TableMoves
  <2> QED
    BY <2>3, <2>4, <2>5
<1>2. CASE CheckRead(t)
  <2> DEFINE c == IF MayUse(disp[call[t].h]) THEN [call[t] EXCEPT !.at = "read"] ELSE Idle
  <2>1. call[t].at = "checkRead" /\ Moves(t, c) /\ UNCHANGED <<table, busy, next, disp>>
    BY <1>2 DEF CheckRead, At, Moves, TypeOK
  <2>2. call[t].h \in Handle /\ Carried(call[t]) = {} /\ call[t].hs = <<>>
    BY <2>1 DEF Carried, Carrying, TableInv, CallsOK, CallOK
  <2>3. CASE MayUse(disp[call[t].h])
    <3>1. c \in CallRec /\ c.at = "read" /\ c.h = call[t].h /\ c.hs = <<>>
      <4>1. c \in CallRec /\ c.at = "read" /\ c.h = call[t].h /\ c.hs = call[t].hs
        BY <2>3, CallEdits
      <4> QED
        BY <2>2, <4>1
    <3> HIDE DEF c
    <3>2. Carried(c) = {} /\ CallOK(c)
      BY <2>2, <2>3, <3>1 DEF Carried, Carrying, CallOK, MayUse
    <3> QED
      BY <2>1, <2>2, <3>1, <3>2, TableMoves DEF Carrying
  <2>4. CASE ~MayUse(disp[call[t].h])
    <3>1. c = Idle
      BY <2>4
    <3> HIDE DEF c
    <3> QED
      BY <2>1, <2>2, <3>1, IdleIs, TableMoves DEF Carrying, CallOK
  <2> QED
    BY <2>3, <2>4
<1>3. CASE ReadNothing(t)
  <2> DEFINE c == [call[t] EXCEPT !.at = "peerClosed"]
  <2>1. /\ call[t].at = "read" /\ (Moves(t, c) \/ Moves(t, Idle))
        /\ UNCHANGED <<table, busy, next, disp>>
    BY <1>3 DEF ReadNothing, At, Moves, TypeOK
  <2>2. /\ call[t].h \in Handle /\ Carried(call[t]) = {} /\ call[t].hs = <<>>
        /\ disp[call[t].h].kind = "pipe"
    BY <2>1 DEF Carried, Carrying, TableInv, CallsOK, CallOK
  <2>3. c \in CallRec /\ c.at = "peerClosed" /\ c.h = call[t].h /\ c.hs = <<>>
    BY <2>2, CallEdits
  <2> HIDE DEF c
  <2>4. Carried(c) = {} /\ CallOK(c) /\ Distinct(c.hs)
    BY <2>2, <2>3 DEF Carried, Carrying, CallOK, ToSet, Distinct
  <2> QED
    BY <2>1, <2>2, <2>3, <2>4, IdleIs, TableMoves DEF Carrying, CallOK
<1>4. CASE TellPeerClosed(t)
  <2> DEFINE c == [call[t] EXCEPT !.at = "finish"]
  <2>1. /\ call[t].at = "peerClosed" /\ UNCHANGED <<table, busy, next, disp>>
        /\ \/ call[t].hs = <<>> /\ Moves(t, Idle)
           \/ call[t].hs # <<>> /\ Moves(t, c)
    BY <1>4 DEF TellPeerClosed, At, Moves, TypeOK
  <2>2. /\ Carried(call[t]) = ToSet(call[t].hs) /\ Distinct(call[t].hs)
        /\ call[t].h \in Handle /\ call[t].hs \in Seq(Handle)
    BY <2>1, CarriedHas, CallOf DEF Carrying, TableInv, CallsOK, CallOK
  <2>3. c \in CallRec /\ c.at = "finish" /\ c.h = call[t].h /\ c.hs = call[t].hs
    BY CallEdits
  <2> HIDE DEF c
  <2>4. Carried(c) = Carried(call[t]) /\ CallOK(c)
    BY <2>2, <2>3 DEF Carried, Carrying, CallOK
  <2>5. call[t].hs = <<>> => Carried(call[t]) = {}
    BY <2>2 DEF ToSet
  <2> QED
    BY <2>1, <2>2, <2>3, <2>4, <2>5, IdleIs, TableMoves DEF Carrying, CallOK
<1> QED
  BY <1>1, <1>2, <1>3, <1>4

\* DuplicateBufferHandle.
LEMMA TableDuplicates ==
  ASSUME TypeOK, TableInv, NEW t \in Thread, DuplicateBufferHandle(t)
  PROVE  TableInv'
<1> DEFINE d == disp[call[t].h]
<1>1. call[t].at = "buffer" /\ call' = [call EXCEPT ![t] = Idle] /\ busy' = busy
  BY DEF DuplicateBufferHandle, At
<1>2. CASE d.closed
  <2>1. UNCHANGED <<table, busy, next, disp>>
    BY <1>2 DEF DuplicateBufferHandle
  <2> QED
    BY <1>1, <2>1, TableEnds DEF Carried, Carrying
<1>3. CASE ~d.closed
  <2>1. Adds(New("buffer", d.res, 0))
    BY <1>3, DuplicateAdds DEF Duplicate
  <2>2. Quits
    BY <1>1, QuitsOne
  <2> QED
    BY <1>1, <2>1, <2>2, TableAddsOne
<1> QED
  BY <1>2, <1>3

\* Every step.
LEMMA TableStep ==
  ASSUME TypeOK, TableInv, Ends, [Next]_vars, "overflow" \notin failed'
  PROVE  TableInv'
<1>1. CASE CreateMessagePipe
  BY <1>1, TableCreates
<1>2. ASSUME NEW kind \in {"buffer", "platform"}, Create(kind) PROVE TableInv'
  <2>1. Adds(New(kind, NoEnd, 0)) /\ busy' = busy /\ Quits
    BY <1>2, CreateAdds, QuitsNone DEF Create
  <2> QED
    BY <2>1, TableAddsOne
<1>3. ASSUME NEW t \in Thread, NEW h \in table,
             \/ \E hs \in Bundles : WriteMessage(t, h, hs)
             \/ ReadMessage(t, h) \/ UseBuffer(t, h)
      PROVE  TableInv'
  BY <1>3, TableCalls
<1>4. ASSUME NEW t \in Thread, NEW h \in table, Close(t, h) \/ PassWrappedPlatformHandle(t, h)
      PROVE  TableInv'
  BY <1>4, TableCloses, TablePasses
<1>5. ASSUME NEW t \in Thread, BeginTransit(t) PROVE TableInv'
  <2>1. CASE Begins(call[t].hs)
    BY <1>5, <2>1, TableBegins
  <2>2. CASE ~Begins(call[t].hs)
    <3>1. /\ call[t].at = "begin" /\ call' = [call EXCEPT ![t] = Idle]
          /\ UNCHANGED <<table, busy, next, disp>>
      BY <1>5, <2>2 DEF BeginTransit, At
    <3> QED
      BY <3>1, TableEnds DEF Carried, Carrying
  <2> QED
    BY <2>1, <2>2
<1>6. ASSUME NEW t \in Thread, \/ CheckWrite(t) \/ CheckRead(t) \/ SendMessage(t)
                               \/ CompleteTransitAndClose(t) \/ CancelTransit(t)
                               \/ ReadTakes(t) \/ ClosePipe(t) \/ CloseThing(t)
                               \/ DuplicateBufferHandle(t)
                               \/ ReadNothing(t) \/ TellPeerClosed(t)
      PROVE  TableInv'
  BY <1>6, TableChecks, TableSends, TableCompletes, TableCancels, TableTakes,
     TableClosesPipe, TableClosesThing, TableDuplicates
<1>7. ASSUME NEW t \in Thread, ReadDiscards(t) \/ ClosePort(t) \/ MapBuffer(t)
      PROVE  TableInv'
  <2>1. /\ call[t].at \in {"read", "closePort", "buffer"} /\ call' = [call EXCEPT ![t] = Idle]
        /\ UNCHANGED <<table, busy, next, disp>>
    BY <1>7 DEF ReadDiscards, ClosePort, MapBuffer, At
  <2> QED
    BY <2>1, TableEnds DEF Carried, Carrying
<1>8. ASSUME \/ \E h \in event : OnPortStatusChanged(h)
             \/ \E w \in Waits : WaitFor(w[1], w[2])
             \/ AddAwakable \/ RemoveAwakable
      PROVE  TableInv'
  BY <1>8, TableSame DEF OnPortStatusChanged, WaitFor, AddAwakable, RemoveAwakable
<1>9. CASE UNCHANGED vars
  BY <1>9, TableSame DEF vars
<1> QED
  BY <1>1, <1>2, <1>3, <1>4, <1>5, <1>6, <1>7, <1>8, <1>9
  DEF Next, Continue, CreateSharedBuffer, CreatePlatformHandleWrapper

-----------------------------------------------------------------------------
(* The ends inside a port.                                                 *)

\* Unread collects what the queues carry.
LEMMA UnreadIs ==
  ASSUME TypeOK, NEW s \in SUBSET End, NEW e
  PROVE  e \in Unread(s) <=> \E f \in s : Carries(queue[f], e)
<1> DEFINE all == UNION {UNION {ToSet(m) : m \in ToSet(queue[f])} : f \in s}
<1>1. \A x : x \in all <=> \E f \in s : \E i \in DOMAIN queue[f] :
                            \E j \in DOMAIN queue[f][i] : queue[f][i][j] = x
  BY DEF ToSet
<1>2. e \in Unread(s) <=> \E x \in all : x.kind = "pipe" /\ x.res = e
  BY Zenon DEF Unread
<1> HIDE DEF all
<1>3. ASSUME NEW x \in all, x.kind = "pipe", x.res = e
      PROVE  \E f \in s : Carries(queue[f], e)
  <2>1. PICK f \in s : \E i \in DOMAIN queue[f] : \E j \in DOMAIN queue[f][i] :
                         queue[f][i][j] = x
    BY <1>1
  <2> QED
    BY <1>3, <2>1 DEF Carries, CarriesMsg
<1>4. ASSUME NEW f \in s, Carries(queue[f], e)
      PROVE  \E x \in all : x.kind = "pipe" /\ x.res = e
  <2>1. PICK i \in DOMAIN queue[f] : CarriesMsg(queue[f][i], e)
    BY <1>4 DEF Carries
  <2>2. PICK j \in DOMAIN queue[f][i] : queue[f][i][j].kind = "pipe" /\ queue[f][i][j].res = e
    BY <2>1 DEF CarriesMsg
  <2>3. queue[f][i][j] \in all
    BY <1>1
  <2> QED
    BY <2>2, <2>3
<1> QED
  BY <1>2, <1>3, <1>4

\* What a queue carries are ends.
LEMMA CarriedEnd ==
  ASSUME TypeOK, Ends, NEW f \in End, NEW e, Carries(queue[f], e)
  PROVE  e \in End
<1>1. PICK i \in DOMAIN queue[f] : CarriesMsg(queue[f][i], e)
  BY DEF Carries
<1>2. PICK j \in DOMAIN queue[f][i] : queue[f][i][j].kind = "pipe" /\ queue[f][i][j].res = e
  BY <1>1 DEF CarriesMsg
<1> QED
  BY <1>2 DEF Ends, EndsOK, PipeEnd

\* Every end inside is one of the given ones or carried by one inside, and what
\* one inside carries is inside.
LEMMA InsideIs ==
  ASSUME TypeOK, Ends, NEW ends \in SUBSET End
  PROVE  /\ ends \subseteq Inside(ends) /\ Inside(ends) \subseteq End
         /\ \A e \in Inside(ends) : e \in ends \/ \E f \in Inside(ends) : Carries(queue[f], e)
         /\ \A f \in Inside(ends) : \A e : Carries(queue[f], e) => e \in Inside(ends)
<1> DEFINE all == Inside(ends)
<1>1. ends \subseteq all /\ all \subseteq End
  BY DEF Inside
<1>2. Unread(all) \subseteq all
  <2> SUFFICES ASSUME NEW e \in Unread(all) PROVE e \in all
    OBVIOUS
  <2>1. PICK f \in all : Carries(queue[f], e)
    BY <1>1, UnreadIs
  <2>2. e \in End
    BY <1>1, <2>1, CarriedEnd
  <2>3. ASSUME NEW s \in SUBSET End, ends \subseteq s, Unread(s) \subseteq s PROVE e \in s
    <3>1. f \in s
      BY <2>3 DEF Inside
    <3> HIDE DEF all
    <3>2. e \in Unread(s)
      BY <2>1, <3>1, UnreadIs
    <3> QED
      BY <2>3, <3>2
  <2> QED
    BY <2>2, <2>3 DEF Inside
<1>3. ASSUME NEW e \in all, e \notin ends, \A f \in all : ~Carries(queue[f], e)
      PROVE  FALSE
  <2> DEFINE s == all \ {e}
  <2>1. s \in SUBSET End /\ ends \subseteq s
    BY <1>1, <1>3
  <2>2. Unread(s) \subseteq s
    <3> SUFFICES ASSUME NEW x \in Unread(s) PROVE x \in s
      OBVIOUS
    <3>0. all \in SUBSET End
      BY <1>1
    <3> HIDE DEF all
    <3>1. PICK f \in s : Carries(queue[f], x)
      BY <2>1, UnreadIs
    <3>2. x \in Unread(all)
      BY <3>0, <3>1, UnreadIs
    <3> QED
      BY <1>2, <1>3, <3>1, <3>2
  <2>3. e \in s
    BY <2>1, <2>2 DEF Inside
  <2> QED
    BY <2>3
<1>4. ASSUME NEW f \in all, NEW e, Carries(queue[f], e) PROVE e \in all
  <2>1. all \in SUBSET End
    BY <1>1
  <2> HIDE DEF all
  <2>2. e \in Unread(all)
    BY <1>4, <2>1, UnreadIs
  <2> QED
    BY <1>2, <2>2
<1> QED
  BY <1>1, <1>3, <1>4

-----------------------------------------------------------------------------
(* Types, step by step.                                                    *)

\* A wait goes on or ends.
LEMMA WaiterTyped ==
  ASSUME TypeOK, NEW hs, NEW h, NEW d,
         \/ UNCHANGED waiter \/ CancelAll(hs) \/ WakeCancelled(hs)
         \/ AwakeForStateChange(h, d)
  PROVE  /\ waiter' = waiter \/ waiter' = Awoken
         /\ waiter' \in Wait
<1>1. waiter' = waiter \/ waiter' = Awoken
  BY DEF CancelAll, WakeCancelled, AwakeForStateChange
<1>2. Awoken \in Wait
  BY DEF Awoken, Wait, TypeOK
<1> QED
  BY <1>1, <1>2 DEF TypeOK

\* One more call.
LEMMA CallsTyped ==
  ASSUME TypeOK, NEW t \in Thread, Calls(t)
  PROVE  calls' \in 0..MaxCalls
BY CoreAssumption DEF TypeOK, Calls

\* The calls when one of them moves on, or none.
LEMMA CallTyped ==
  ASSUME TypeOK, NEW t \in Thread, NEW c \in CallRec, Moves(t, c)
  PROVE  call' \in [Thread -> [at: {"idle", "begin", "check", "send", "peerClosed", "finish",
                                    "checkRead", "read", "close", "closePort", "buffer"},
                               h: 0..LastHandle, hs: Seq(Handle), ok: BOOLEAN,
                               sent: BOOLEAN]]
BY MovesIs DEF CallRec

\* A step that moves one call and leaves the table and the node.
LEMMA TypeMoves ==
  ASSUME TypeOK, NEW t \in Thread, NEW c \in CallRec, Moves(t, c),
         UNCHANGED <<table, busy, next, disp, event>>, UNCHANGED nodeVars,
         \/ UNCHANGED waiter
         \/ \E hs : CancelAll(hs) \/ WakeCancelled(hs)
         \/ \E h, d : AwakeForStateChange(h, d),
         calls' \in 0..MaxCalls,
         failed' \subseteq {"full", "overflow", "status", "transit", "buffer", "cast"}
  PROVE  TypeOK'
<1>1. waiter' \in Wait
  BY WaiterTyped
<1> QED
  BY <1>1, CallTyped DEF TypeOK, nodeVars

\* What the checks add.
LEMMA FailedTyped ==
  ASSUME TypeOK, NEW d, NEW hs,
         \/ failed' = failed \/ failed' = StatusCheck(d) \/ failed' = BufferCheck(d)
         \/ failed' = FinishCheck(hs) \/ failed' = failed \cup {"full"}
         \/ failed' = failed \cup {"overflow"} \/ failed' = failed \cup {}
         \/ failed' = failed \cup CancelCheck(hs) \/ failed' = failed \cup {"cast"}
  PROVE  failed' \subseteq {"full", "overflow", "status", "transit", "buffer", "cast"}
BY DEF TypeOK, StatusCheck, BufferCheck, FinishCheck, CancelCheck

\* Calls are made, and checked.
LEMMA TypeCalls ==
  ASSUME TypeOK, NEW t \in Thread, NEW h \in table,
         \/ \E hs \in Bundles : WriteMessage(t, h, hs)
         \/ ReadMessage(t, h) \/ UseBuffer(t, h)
  PROVE  TypeOK'
<1>1. h \in Handle
  BY DEF TypeOK
<1>2. CASE \E hs \in Bundles : WriteMessage(t, h, hs)
  <2>1. PICK hs \in Bundles : WriteMessage(t, h, hs)
    BY <1>2
  <2> DEFINE at == IF hs = <<>> THEN "check" ELSE "begin"
             c == Starts(at, h, hs)
  <2>2. hs \in Seq(Handle) /\ at \in {"begin", "check", "checkRead", "close", "buffer"}
    BY CoreAssumption DEF Handle
  <2>3. c \in CallRec
    <3> HIDE DEF at
    <3> QED
      BY <1>1, <2>2, StartsIs
  <2>4. Moves(t, c) /\ Calls(t) /\ UNCHANGED <<table, busy, next, disp, event, waiter, failed>>
        /\ UNCHANGED nodeVars
    BY <2>1 DEF WriteMessage, Moves, Starts
  <2>5. /\ calls' \in 0..MaxCalls
        /\ failed' \subseteq {"full", "overflow", "status", "transit", "buffer", "cast"}
    BY <2>4, CallsTyped DEF TypeOK
  <2> HIDE DEF c
  <2> QED
    BY <2>3, <2>4, <2>5, TypeMoves
<1>3. ASSUME NEW at \in {"begin", "check", "checkRead", "close", "buffer"}, Calls(t),
             call' = [call EXCEPT ![t] = [Idle EXCEPT !.at = at, !.h = h]],
             UNCHANGED <<table, busy, next, disp, event, waiter, failed>>, UNCHANGED nodeVars
      PROVE  TypeOK'
  <2> DEFINE c == [Idle EXCEPT !.at = at, !.h = h]
  <2>1. c \in CallRec /\ Moves(t, c)
    BY <1>1, <1>3, CallStarts DEF Moves
  <2>2. /\ calls' \in 0..MaxCalls
        /\ failed' \subseteq {"full", "overflow", "status", "transit", "buffer", "cast"}
    BY <1>3, CallsTyped DEF TypeOK
  <2> HIDE DEF c
  <2> QED
    BY <1>3, <2>1, <2>2, TypeMoves
<1>4. CASE ReadMessage(t, h)
  BY <1>3, <1>4 DEF ReadMessage
<1>5. CASE UseBuffer(t, h)
  BY <1>3, <1>5 DEF UseBuffer
<1> QED
  BY <1>2, <1>4, <1>5

\* A call ends, or moves on to its next check.
LEMMA TypeEnds ==
  ASSUME TypeOK, NEW t \in Thread,
         \/ CheckWrite(t) \/ CheckRead(t) \/ ReadNothing(t) \/ TellPeerClosed(t)
         \/ MapBuffer(t)
         \/ BeginTransit(t) /\ ~Begins(call[t].hs)
  PROVE  TypeOK'
<1>1. /\ [call[t] EXCEPT !.at = "send"] \in CallRec /\ [call[t] EXCEPT !.at = "read"] \in CallRec
      /\ [call[t] EXCEPT !.at = "peerClosed"] \in CallRec
      /\ [call[t] EXCEPT !.at = "finish"] \in CallRec /\ Idle \in CallRec
  <2>1. call[t] \in CallRec
    BY CallOf
  <2> QED
    BY <2>1, IdleIs DEF CallRec
<1>2. \E c \in CallRec : Moves(t, c)
  <2>1. CASE CheckWrite(t)
    BY <1>1, <2>1 DEF CheckWrite, Moves
  <2>2. CASE CheckRead(t)
    BY <1>1, <2>2 DEF CheckRead, Moves, TypeOK
  <2>3. CASE ReadNothing(t) \/ TellPeerClosed(t)
    BY <1>1, <2>3 DEF ReadNothing, TellPeerClosed, Moves, TypeOK
  <2>4. CASE MapBuffer(t) \/ (BeginTransit(t) /\ ~Begins(call[t].hs))
    BY <1>1, <2>4 DEF MapBuffer, BeginTransit, Moves
  <2> QED
    BY <2>1, <2>2, <2>3, <2>4
<1>3. /\ UNCHANGED <<table, busy, next, disp, event, calls>> /\ UNCHANGED nodeVars
      /\ \/ UNCHANGED waiter
         \/ \E hs : CancelAll(hs) \/ WakeCancelled(hs)
         \/ \E h, d : AwakeForStateChange(h, d)
      /\ \/ failed' = failed \/ \E d : failed' = BufferCheck(d) \/ failed' = StatusCheck(d)
         \/ \E hs : failed' = failed \cup CancelCheck(hs)
  <2>1. CASE CheckWrite(t) \/ CheckRead(t)
    BY <2>1 DEF CheckWrite, CheckRead
  <2>2. CASE ReadNothing(t)
    BY <2>2 DEF ReadNothing
  <2>3. CASE MapBuffer(t)
    BY <2>3 DEF MapBuffer
  <2>4. CASE BeginTransit(t) /\ ~Begins(call[t].hs)
    BY <2>4 DEF BeginTransit
  <2>5. CASE TellPeerClosed(t)
    BY <2>5, Zenon DEF TellPeerClosed
  <2> QED
    BY <2>1, <2>2, <2>3, <2>4, <2>5
<1>4. failed' \subseteq {"full", "overflow", "status", "transit", "buffer", "cast"}
  BY <1>3, FailedTyped
<1>5. calls' \in 0..MaxCalls
  BY <1>3 DEF TypeOK
<1> QED
  BY <1>2, <1>3, <1>4, <1>5, TypeMoves

\* A transit begins, and ends.
LEMMA TypeTransit ==
  ASSUME TypeOK, TableInv, Ends, NEW t \in Thread,
         \/ BeginTransit(t) /\ Begins(call[t].hs)
         \/ CompleteTransitAndClose(t) \/ CancelTransit(t)
  PROVE  TypeOK'
<1> DEFINE hs == ToSet(call[t].hs)
<1>1. hs \in SUBSET Handle
  BY CallOf, ToSetIs
<1> HIDE DEF hs
<1>2. CASE BeginTransit(t) /\ Begins(call[t].hs)
  <2>1. /\ busy' = busy \cup hs /\ disp' = Marked(hs, TRUE)
        /\ Moves(t, [call[t] EXCEPT !.at = "check"])
        /\ UNCHANGED <<table, next, event, waiter, calls, failed>> /\ UNCHANGED nodeVars
    BY <1>2 DEF BeginTransit, Moves, TypeOK, hs
  <2>2. [call[t] EXCEPT !.at = "check"] \in CallRec
    BY CallOf DEF CallRec
  <2>3. disp' \in [Handle -> Dispatcher]
    BY <1>1, <2>1, MarkedOn DEF Marked
  <2> QED
    BY <1>1, <2>1, <2>2, <2>3, CallTyped DEF TypeOK, nodeVars
<1>3. CASE CompleteTransitAndClose(t)
  <2>1. /\ table' = table \ hs /\ busy' = busy \ hs
        /\ disp' = [h \in Handle |-> IF h \in hs THEN Transferred(disp[h]) ELSE disp[h]]
        /\ Moves(t, Idle) /\ CancelAll(hs)
        /\ UNCHANGED <<next, pipes, gen, shut, queue, event, calls>>
        /\ lost' = lost \/ lost' = lost \cup EndsOf(call[t].hs)
    BY <1>3 DEF CompleteTransitAndClose, Moves, hs
  <2>2. failed' = failed
    BY <1>3, TableCompletes
  <2>3. disp' \in [Handle -> Dispatcher]
    <3>1. \A h \in Handle : disp[h] \in Dispatcher /\ Transferred(disp[h]) \in Dispatcher
      BY DispOf, TransferredIs
    <3> QED
      BY <2>1, <3>1
  <2>4. waiter' \in Wait
    BY <2>1, WaiterTyped
  <2>5. lost' \subseteq End
    <3>1. EndsOf(call[t].hs) \subseteq End
      BY <1>1 DEF EndsOf, Ends, PipeEnd, hs
    <3> QED
      BY <2>1, <3>1 DEF TypeOK
  <2> QED
    BY <1>1, <2>1, <2>2, <2>3, <2>4, <2>5, IdleIs, CallTyped DEF TypeOK
<1>4. CASE CancelTransit(t)
  <2>1. /\ busy' = busy \ hs /\ disp' = Marked(hs, FALSE)
        /\ Moves(t, Idle) /\ WakeCancelled(hs)
        /\ UNCHANGED <<table, next, event, calls>> /\ UNCHANGED nodeVars
    BY <1>4 DEF CancelTransit, Moves, hs
  <2>2. failed' \subseteq {"full", "overflow", "status", "transit", "buffer", "cast"}
    BY <1>4, TableCancels, FailedTyped
  <2>3. disp' \in [Handle -> Dispatcher]
    BY <1>1, <2>1, MarkedOff DEF Marked
  <2>4. waiter' \in Wait
    BY <2>1, WaiterTyped
  <2> QED
    BY <1>1, <2>1, <2>2, <2>3, <2>4, IdleIs, CallTyped DEF TypeOK, nodeVars
<1> QED
  BY <1>2, <1>3, <1>4

\* Closing.
LEMMA TypeCloses ==
  ASSUME TypeOK, TableInv, NEW t \in Thread,
         \/ \E h \in table : Close(t, h) \/ PassWrappedPlatformHandle(t, h)
         \/ ClosePipe(t) \/ CloseThing(t)
  PROVE  TypeOK'
<1>1. ASSUME NEW h \in table, Close(t, h) PROVE TypeOK'
  <2> DEFINE c == [Idle EXCEPT !.at = "close", !.h = h]
  <2>1. /\ Calls(t) /\ table' = table \ {h} /\ Moves(t, c)
        /\ UNCHANGED <<busy, next, disp, event, waiter, failed>> /\ UNCHANGED nodeVars
    BY <1>1 DEF Close, Moves
  <2>2. h \in Handle /\ "close" \in {"begin", "check", "checkRead", "close", "buffer"}
    BY DEF TypeOK
  <2>3. c \in CallRec
    BY <2>2, CallStarts
  <2> HIDE DEF c
  <2> QED
    BY <2>1, <2>3, CallTyped, CallsTyped DEF TypeOK, nodeVars
<1>2. ASSUME NEW g \in Handle, disp' = [disp EXCEPT ![g].closed = TRUE]
      PROVE  disp' \in [Handle -> Dispatcher]
  <2>1. \A h \in Handle : disp'[h] \in Dispatcher
    BY <1>2, ClosedIs
  <2> QED
    BY <1>2, <2>1 DEF TypeOK
<1>3. ASSUME NEW h \in table, PassWrappedPlatformHandle(t, h) PROVE TypeOK'
  <2>1. /\ Calls(t) /\ table' \subseteq table
        /\ disp' = disp \/ disp' = [disp EXCEPT ![h].closed = TRUE]
        /\ failed' = failed \/ failed' = failed \cup {"cast"}
        /\ UNCHANGED <<busy, next, event, waiter, call>> /\ UNCHANGED nodeVars
    BY <1>3 DEF PassWrappedPlatformHandle, Passed
  <2>2. disp' \in [Handle -> Dispatcher]
    BY <1>2, <2>1 DEF TypeOK
  <2> QED
    BY <2>1, <2>2, CallsTyped, FailedTyped DEF TypeOK, nodeVars
<1>4. CASE ClosePipe(t)
  <2> DEFINE g == call[t].h
  <2>1. /\ call[t].at = "close" /\ UNCHANGED <<table, busy, next, event, calls, failed>>
        /\ UNCHANGED nodeVars
    BY <1>4 DEF ClosePipe, At
  <2>2. g \in Handle
    BY <2>1 DEF TableInv, CallsOK, CallOK
  <2>3. /\ disp' = disp \/ disp' = [disp EXCEPT ![g].closed = TRUE]
        /\ UNCHANGED waiter \/ CancelAll({g})
        /\ Moves(t, Idle) \/ Moves(t, [call[t] EXCEPT !.at = "closePort"])
    BY <1>4 DEF ClosePipe, Moves, TypeOK
  <2>4. disp' \in [Handle -> Dispatcher]
    BY <1>2, <2>2, <2>3 DEF TypeOK
  <2>5. [call[t] EXCEPT !.at = "closePort"] \in CallRec /\ Idle \in CallRec
    BY CallOf, IdleIs DEF CallRec
  <2>6. waiter' \in Wait
    BY <2>3, WaiterTyped
  <2> QED
    BY <2>1, <2>3, <2>4, <2>5, <2>6, CallTyped DEF TypeOK, nodeVars
<1>5. CASE CloseThing(t)
  <2> DEFINE g == call[t].h
  <2>1. /\ call[t].at = "close" /\ UNCHANGED <<table, busy, next, event, waiter, calls, failed>>
        /\ UNCHANGED nodeVars /\ Moves(t, Idle)
        /\ disp' = [disp EXCEPT ![g].closed = disp[g].closed \/ ~disp[g].inTransit]
    BY <1>5 DEF CloseThing, At, Moves
  <2>2. g \in Handle /\ ~disp[g].inTransit
    BY <2>1 DEF TableInv, CallsOK, CallOK, Transit
  <2>3. (disp[g].closed \/ ~disp[g].inTransit) = TRUE
    BY <2>2
  <2>4. disp' = [disp EXCEPT ![g].closed = TRUE]
    BY <2>1, <2>3
  <2>5. disp' \in [Handle -> Dispatcher]
    BY <1>2, <2>2, <2>4
  <2> QED
    BY <2>1, <2>5, IdleIs, CallTyped DEF TypeOK, nodeVars
<1> QED
  BY <1>1, <1>3, <1>4, <1>5

\* A dispatcher gets a handle, or there is none left.
LEMMA TypeAddsOne ==
  ASSUME TypeOK, NEW d \in Dispatcher, Adds(d)
  PROVE  /\ table' \subseteq Handle /\ next' \in 0..LastHandle
         /\ disp' \in [Handle -> Dispatcher]
         /\ failed' \subseteq {"full", "overflow", "status", "transit", "buffer", "cast"}
<1>1. next \in 0..LastHandle /\ LastHandle \in Nat
  BY CoreAssumption DEF TypeOK
<1>2. CASE next = INVALID
  BY <1>2 DEF Adds, AddDispatcher, OutOfHandles, TypeOK
<1>3. CASE next # INVALID
  <2>1. next \in Handle
    BY <1>1, <1>3 DEF INVALID, Handle
  <2>2. /\ table' = table \cup {next} /\ next' = After(next)
        /\ disp' = [disp EXCEPT ![next] = d] /\ failed' = failed
    BY <1>3 DEF Adds, AddDispatcher
  <2>3. next' \in 0..LastHandle
    BY <1>1, <2>2, AfterIs
  <2> QED
    BY <2>1, <2>2, <2>3 DEF TypeOK
<1> QED
  BY <1>2, <1>3

\* Something is created.
LEMMA TypeCreates ==
  ASSUME TypeOK, TableInv,
         \/ CreateMessagePipe
         \/ \E kind \in {"buffer", "platform"} : Create(kind)
         \/ \E t \in Thread : DuplicateBufferHandle(t)
  PROVE  TypeOK'
<1>1. /\ next \in 0..LastHandle /\ LastHandle \in Nat \ {0} /\ disp \in [Handle -> Dispatcher]
      /\ MaxPipes \in Nat /\ pipes \in 0..MaxPipes
  BY CoreAssumption DEF TypeOK
<1>2. CASE CreateMessagePipe
  <2>1. /\ pipes < MaxPipes /\ pipes' = pipes + 1
        /\ UNCHANGED <<busy, gen, shut, queue, event, waiter, call, calls, lost>>
    BY <1>2 DEF CreateMessagePipe
  <2>2. CASE next = INVALID \/ After(next) = INVALID
    <3>1. failed' = failed \cup {"full"} /\ UNCHANGED <<table, next, disp>>
      BY <1>2, <2>2 DEF CreateMessagePipe, OutOfHandles
    <3> QED
      BY <1>1, <2>1, <3>1 DEF TypeOK
  <2>3. CASE next # INVALID /\ After(next) # INVALID
    <3> DEFINE x == New("pipe", <<pipes + 1, 0>>, 0)
               y == New("pipe", <<pipes + 1, 1>>, 0)
    <3>1. /\ table' = table \cup {next, After(next)} /\ next' = After(After(next))
          /\ disp' = [disp EXCEPT ![next] = x, ![After(next)] = y]
          /\ failed' = failed
      BY <1>2, <2>3 DEF CreateMessagePipe
    <3>2. <<pipes + 1, 0>> \in End /\ <<pipes + 1, 1>> \in End
      BY <1>1, <2>1 DEF End
    <3>3. x \in Dispatcher /\ y \in Dispatcher
      BY <3>2, NewIs
    <3> HIDE DEF x, y
    <3>4. /\ next \in Handle /\ After(next) \in Handle /\ After(After(next)) \in 0..LastHandle
          /\ After(next) \in 0..LastHandle
      BY <1>1, <2>3, AfterIs DEF INVALID, Handle
    <3>5. disp' \in [Handle -> Dispatcher]
      BY <1>1, <3>1, <3>3, <3>4
    <3>6. pipes' \in 0..MaxPipes
      BY <1>1, <2>1
    <3> QED
      BY <2>1, <3>1, <3>4, <3>5, <3>6 DEF TypeOK
  <2> QED
    BY <2>2, <2>3
<1>3. ASSUME NEW kind \in {"buffer", "platform"}, Create(kind) PROVE TypeOK'
  <2>1. New(kind, NoEnd, 0) \in Dispatcher
    <3>1. kind \in {"none", "pipe"} \cup Things /\ NoEnd \in End \cup {NoEnd} /\ 0 \in Nat
      BY <1>3 DEF Create
    <3> QED
      BY <3>1, NewIs
  <2>2. /\ Adds(New(kind, NoEnd, 0)) /\ UNCHANGED <<busy, event, waiter, call, calls>>
        /\ UNCHANGED nodeVars
    BY <1>3, CreateAdds DEF Create
  <2> QED
    BY <2>1, <2>2, TypeAddsOne DEF TypeOK, nodeVars
<1>4. ASSUME NEW t \in Thread, DuplicateBufferHandle(t) PROVE TypeOK'
  <2> DEFINE d == disp[call[t].h]
  <2>1. /\ call[t].at = "buffer" /\ Moves(t, Idle) /\ UNCHANGED <<busy, event, waiter, calls>>
        /\ UNCHANGED nodeVars
    BY <1>4 DEF DuplicateBufferHandle, At, Moves
  <2>2. CASE d.closed
    <3>1. failed' = BufferCheck(d) /\ UNCHANGED <<table, next, disp>>
      BY <1>4, <2>2 DEF DuplicateBufferHandle
    <3>2. failed' \subseteq {"full", "overflow", "status", "transit", "buffer", "cast"}
      BY <3>1, FailedTyped
    <3> QED
      BY <2>1, <3>1, <3>2, IdleIs, CallTyped DEF TypeOK, nodeVars
  <2>3. CASE ~d.closed
    <3>1. Adds(New("buffer", d.res, 0))
      BY <1>4, <2>3, DuplicateAdds DEF Duplicate
    <3>2. call[t].h \in Handle /\ d.kind = "buffer"
      BY <2>1 DEF TableInv, CallsOK, CallOK
    <3>3. "buffer" \in {"none", "pipe"} \cup Things /\ d.res \in End \cup {NoEnd} /\ 0 \in Nat
      BY <3>2, DispOf
    <3>4. New("buffer", d.res, 0) \in Dispatcher
      BY <3>3, NewIs
    <3> HIDE DEF d
    <3> QED
      BY <2>1, <3>1, <3>4, TypeAddsOne, IdleIs, CallTyped DEF TypeOK, nodeVars
  <2> QED
    BY <2>2, <2>3
<1> QED
  BY <1>2, <1>3, <1>4

\* Cargo that refers to an end becomes a dispatcher.
LEMMA DeserializedTyped ==
  ASSUME TypeOK, NEW c \in Cargo, c.kind = "pipe" => c.res \in End
  PROVE  Deserialized(c) \in Dispatcher
<1>1. c.kind \in {"none", "pipe"} \cup Things
  BY CargoHas
<1>2. CASE c.kind = "pipe"
  <2>1. Deserialized(c) = New("pipe", c.res, gen[c.res])
    BY <1>2 DEF Deserialized, DeserializedPipe
  <2>2. gen[c.res] \in Nat /\ c.res \in End \cup {NoEnd} /\ "pipe" \in {"none", "pipe"} \cup Things
    BY <1>2 DEF TypeOK
  <2>3. New("pipe", c.res, gen[c.res]) \in Dispatcher
    BY <2>2, NewIs, Zenon
  <2> QED
    BY <2>1, <2>3
<1>3. CASE c.kind # "pipe"
  <2>1. Deserialized(c) = New(c.kind, NoEnd, 0)
    BY <1>3 DEF Deserialized, DeserializedThing
  <2>2. NoEnd \in End \cup {NoEnd} /\ 0 \in Nat
    OBVIOUS
  <2>3. New(c.kind, NoEnd, 0) \in Dispatcher
    BY <1>1, <2>2, NewIs, Zenon
  <2> QED
    BY <2>1, <2>3
<1> QED
  BY <1>2, <1>3

\* The first message of a queue.
LEMMA HeadIs ==
  ASSUME TypeOK, Ends, NEW f \in End, queue[f] # <<>>
  PROVE  /\ Head(queue[f]) = queue[f][1] /\ 1 \in DOMAIN queue[f]
         /\ Head(queue[f]) \in Seq(Cargo)
         /\ Tail(queue[f]) \in Seq(Seq(Cargo))
         /\ \A j \in DOMAIN Head(queue[f]) :
              /\ Head(queue[f])[j] \in Cargo
              /\ Head(queue[f])[j].kind = "pipe" => PipeEnd(Head(queue[f])[j].res)
<1>1. queue[f] \in Seq(Seq(Cargo)) /\ EndsOK(queue[f])
  BY DEF TypeOK, Ends
<1>2. Head(queue[f]) = queue[f][1] /\ 1 \in DOMAIN queue[f] /\ Head(queue[f]) \in Seq(Cargo)
  BY <1>1
<1>3. Tail(queue[f]) \in Seq(Seq(Cargo))
  BY <1>1
<1> QED
  BY <1>1, <1>2, <1>3 DEF EndsOK

\* A read gets a message.
LEMMA TypeTakes ==
  ASSUME TypeOK, TableInv, Ends, NEW t \in Thread, ReadTakes(t)
  PROVE  TypeOK'
<1> DEFINE d == disp[call[t].h]
           f == d.res
           cargo == Head(queue[f])
           ends == {c.res : c \in {x \in ToSet(cargo) : x.kind = "pipe"}}
           to == FromTransit(cargo)
<1>1. /\ call[t].at = "read" /\ queue[f] # <<>> /\ Moves(t, Idle)
      /\ UNCHANGED <<busy, pipes, gen, waiter, calls, lost>>
  BY DEF ReadTakes, At, Moves
<1>2. f \in End
  BY <1>1, ReadFinds
<1>3. /\ cargo \in Seq(Cargo) /\ Tail(queue[f]) \in Seq(Seq(Cargo))
      /\ \A j \in DOMAIN cargo : cargo[j] \in Cargo /\ (cargo[j].kind = "pipe" => cargo[j].res \in End)
  BY <1>1, <1>2, HeadIs DEF PipeEnd
<1>4. /\ queue \in [End -> Seq(Seq(Cargo))]
      /\ \A e \in End : <<>> \in Seq(Seq(Cargo)) /\ queue[e] \in Seq(Seq(Cargo))
  BY DEF TypeOK
<1>5. CASE next = INVALID /\ cargo # <<>>
  <2>1. CloseUntaken(f, ends) /\ UNCHANGED <<table, next, disp, failed>>
    BY <1>5 DEF ReadTakes
  <2>2. ends \in SUBSET End
    BY <1>3 DEF ToSet
  <2> HIDE DEF ends
  <2>3. Inside(ends) \subseteq End
    BY <2>2, InsideIs
  <2>4. shut' \subseteq End
    BY <2>1, <2>3 DEF CloseUntaken, TypeOK
  <2>5. queue' \in [End -> Seq(Seq(Cargo))]
    BY <1>3, <1>4, <2>1 DEF CloseUntaken
  <2>6. event' \subseteq Handle
    BY <2>1 DEF CloseUntaken, Observers, TypeOK
  <2> QED
    BY <1>1, <2>1, <2>4, <2>5, <2>6, IdleIs, CallTyped DEF TypeOK
<1>6. CASE next # INVALID \/ cargo = <<>>
  <2>1. /\ queue' = [queue EXCEPT ![f] = Tail(queue[f])]
        /\ table' = table \cup (ToSet(to) \ {INVALID})
        /\ disp' = [h \in Handle |->
                      IF \E i \in DOMAIN to : to[i] = h
                      THEN Deserialized(cargo[CHOOSE i \in DOMAIN to : to[i] = h])
                      ELSE disp[h]]
        /\ next' = (next + Len(cargo)) % (LastHandle + 1)
        /\ failed' = failed \cup (IF INVALID \in ToSet(to) THEN {"overflow"} ELSE {})
        /\ UNCHANGED <<shut, event>>
    BY <1>6 DEF ReadTakes
  <2>2. queue' \in [End -> Seq(Seq(Cargo))]
    BY <1>2, <1>3, <1>4, <2>1
  <2> HIDE DEF cargo, f, d
  <2>3. next \in Nat /\ LastHandle \in Nat /\ LastHandle + 1 \in Nat \ {0} /\ Len(cargo) \in Nat
    BY <1>3, CoreAssumption DEF TypeOK
  <2>4. next' \in 0..LastHandle
    <3> DEFINE z == (next + Len(cargo)) % (LastHandle + 1)
    <3>1. z \in Nat /\ z < LastHandle + 1
      BY <2>3, ModNat
    <3>2. next' = z
      BY <2>1
    <3> HIDE DEF z
    <3> QED
      BY <2>3, <3>1, <3>2
  <2>5. DOMAIN to = DOMAIN cargo /\ DOMAIN cargo = 1..Len(cargo)
    BY <1>3 DEF FromTransit
  <2>6. \A i \in DOMAIN to : to[i] \in 0..LastHandle
    <3> SUFFICES ASSUME NEW i \in 1..Len(cargo) PROVE to[i] \in 0..LastHandle
      BY <2>5
    <3>1. to[i] = (next + i - 1) % (LastHandle + 1)
      BY <2>5 DEF FromTransit
    <3>2. i - 1 \in Nat /\ next + i - 1 = next + (i - 1)
      BY <2>3
    <3>3. (next + (i - 1)) % (LastHandle + 1) \in Nat /\ (next + (i - 1)) % (LastHandle + 1) < LastHandle + 1
      BY <2>3, <3>2, ModNat
    <3> QED
      BY <2>3, <3>1, <3>2, <3>3
  <2>7. table' \subseteq Handle
    <3>1. \A x \in ToSet(to) \ {INVALID} : x \in Handle
      BY <2>3, <2>6 DEF ToSet, INVALID, Handle
    <3> QED
      BY <2>1, <3>1 DEF TypeOK
  <2>8. disp' \in [Handle -> Dispatcher]
    <3> SUFFICES ASSUME NEW h \in Handle PROVE disp'[h] \in Dispatcher
      BY <2>1
    <3> DEFINE k == CHOOSE i \in DOMAIN to : to[i] = h
    <3>1. CASE \E i \in DOMAIN to : to[i] = h
      <4>1. k \in DOMAIN cargo
        BY <2>5, <3>1
      <4>2. disp'[h] = Deserialized(cargo[k])
        BY <2>1, <3>1
      <4> HIDE DEF k
      <4> QED
        BY <1>3, <4>1, <4>2, DeserializedTyped
    <3>2. CASE ~\E i \in DOMAIN to : to[i] = h
      BY <2>1, <3>2, DispOf
    <3> QED
      BY <3>1, <3>2
  <2>9. failed' \subseteq {"full", "overflow", "status", "transit", "buffer", "cast"}
    BY <2>1 DEF TypeOK
  <2> QED
    BY <1>1, <2>1, <2>2, <2>4, <2>7, <2>8, <2>9, IdleIs, CallTyped DEF TypeOK
<1> QED
  BY <1>5, <1>6

\* The other end of a pipe.
LEMMA PeerIs ==
  ASSUME NEW e \in End
  PROVE  /\ Peer(e) \in End /\ Peer(e) # e /\ Peer(Peer(e)) = e /\ Peer(e)[1] = e[1]
BY DEF Peer, End

\* What a write carries, as cargo.
LEMMA CargoOfIs ==
  ASSUME TypeOK, TableInv, NEW t \in Thread, call[t].at \in Carrying
  PROVE  /\ CargoOf(call[t].hs) \in Seq(Cargo)
         /\ DOMAIN CargoOf(call[t].hs) = DOMAIN call[t].hs
         /\ \A i \in DOMAIN call[t].hs :
              /\ CargoOf(call[t].hs)[i].kind = disp[call[t].hs[i]].kind
              /\ CargoOf(call[t].hs)[i].res = disp[call[t].hs[i]].res
              /\ call[t].hs[i] \in Handle /\ call[t].hs[i] \in ToSet(call[t].hs)
<1> DEFINE hs == call[t].hs
<1>1. hs \in Seq(Handle)
  BY CallOf
<1>2. \A h \in ToSet(hs) : disp[h].kind # "none"
  BY CarriedHas
<1> HIDE DEF hs
<1>3. \A i \in DOMAIN hs : hs[i] \in Handle /\ hs[i] \in ToSet(hs)
  BY <1>1, ToSetIs
<1>4. \A i \in DOMAIN hs :
        [kind |-> disp[hs[i]].kind, res |-> disp[hs[i]].res] \in Cargo
  <2> SUFFICES ASSUME NEW i \in DOMAIN hs
               PROVE  [kind |-> disp[hs[i]].kind, res |-> disp[hs[i]].res] \in Cargo
    OBVIOUS
  <2>1. disp[hs[i]].kind \in {"pipe"} \cup Things /\ disp[hs[i]].res \in End \cup {NoEnd}
    BY <1>2, <1>3, DispOf
  <2> QED
    BY <2>1 DEF Cargo
<1>5. CargoOf(hs) \in Seq(Cargo) /\ DOMAIN CargoOf(hs) = DOMAIN hs
  <2>1. DOMAIN hs = 1..Len(hs) /\ Len(hs) \in Nat
    BY <1>1
  <2> QED
    BY <1>4, <2>1 DEF CargoOf
<1> QED
  BY <1>3, <1>5 DEF CargoOf, hs

\* A write.
LEMMA TypeSends ==
  ASSUME TypeOK, TableInv, Ends, NEW t \in Thread, SendMessage(t)
  PROVE  TypeOK'
<1>1. /\ call[t].at = "send"
      /\ UNCHANGED <<table, busy, next, pipes, shut, waiter, calls, lost, failed>>
      /\ SendFails(t) \/ Sends(t) \/ SendRefused(t)
  BY SendIs
<1>2. TRUE \in BOOLEAN /\ FALSE \in BOOLEAN
  OBVIOUS
<1>3. SendDone(call[t], TRUE, FALSE) \in CallRec /\ SendDone(call[t], TRUE, TRUE) \in CallRec
  BY <1>1, <1>2, SendDoneIs, Zenon
<1>4. CASE SendFails(t)
  <2> DEFINE bad == Unserializable(call[t].hs)
  <2>1. /\ Moves(t, SendDone(call[t], TRUE, FALSE)) /\ UNCHANGED <<queue, gen, event>>
        /\ disp' = [h \in Handle |-> IF h \in bad
                      THEN [disp[h] EXCEPT !.closed = TRUE] ELSE disp[h]]
    BY <1>4, Zenon DEF SendFails
  <2> HIDE DEF bad
  <2>2. disp' \in [Handle -> Dispatcher]
    <3>1. disp' = [h \in Handle |-> IF h \in bad THEN Passed(disp[h]) ELSE disp[h]]
      BY <2>1 DEF Passed
    <3>2. \A h \in Handle : disp[h] \in Dispatcher /\ Passed(disp[h]) \in Dispatcher
      BY DispOf, PassedIs
    <3> QED
      BY <3>1, <3>2
  <2> QED
    BY <1>1, <1>3, <2>1, <2>2, CallTyped DEF TypeOK
<1>5. CASE Sends(t)
  <2> DEFINE hs == call[t].hs
             d == disp[call[t].h]
             to == Peer(d.res)
  <2>1. /\ queue' = [queue EXCEPT ![to] = Append(queue[to], CargoOf(hs))]
        /\ gen' = [e \in End |-> IF e \in EndsOf(hs) THEN gen[e] + 1 ELSE gen[e]]
        /\ event' = event \cup Observers({to})
        /\ Moves(t, SendDone(call[t], TRUE, TRUE)) /\ UNCHANGED disp
    BY <1>5, Zenon DEF Sends
  <2>2. to \in End
    BY <1>1, ReadFinds, PeerIs
  <2>3. CargoOf(hs) \in Seq(Cargo)
    BY <1>1, CargoOfIs DEF Carrying
  <2> HIDE DEF hs, d, to
  <2>4. queue' \in [End -> Seq(Seq(Cargo))]
    <3>1. Append(queue[to], CargoOf(hs)) \in Seq(Seq(Cargo))
      BY <2>2, <2>3 DEF TypeOK
    <3> QED
      BY <2>1, <3>1 DEF TypeOK
  <2>5. gen' \in [End -> Nat]
    BY <2>1 DEF TypeOK
  <2>6. event' \subseteq Handle
    BY <2>1 DEF Observers, TypeOK
  <2> QED
    BY <1>1, <1>3, <2>1, <2>4, <2>5, <2>6, CallTyped DEF TypeOK
<1>6. CASE SendRefused(t)
  <2>1. PICK c \in Refusals(call[t]) : Moves(t, c) /\ UNCHANGED <<disp, queue, gen, event>>
    BY <1>6, Zenon DEF SendRefused
  <2>2. c \in CallRec
    BY <1>1, RefusedIs, Zenon
  <2> QED
    BY <1>1, <2>1, <2>2, CallTyped DEF TypeOK
<1> QED
  BY <1>1, <1>4, <1>5, <1>6

\* A message is dropped, and a port is closed.
LEMMA TypeDrops ==
  ASSUME TypeOK, TableInv, Ends, NEW t \in Thread, ReadDiscards(t) \/ ClosePort(t)
  PROVE  TypeOK'
<1>1. CASE ReadDiscards(t)
  <2> DEFINE f == disp[call[t].h].res
             ends == {c.res : c \in {x \in ToSet(Head(queue[f])) : x.kind = "pipe"}}
  <2>1. /\ call[t].at = "read" /\ queue[f] # <<>> /\ Moves(t, Idle)
        /\ lost' = lost \cup ends /\ queue' = [queue EXCEPT ![f] = Tail(queue[f])]
        /\ UNCHANGED <<table, busy, next, disp, pipes, gen, shut, event, waiter, calls, failed>>
    BY <1>1 DEF ReadDiscards, At, Moves
  <2>2. f \in End
    BY <2>1, ReadFinds
  <2>3. /\ Tail(queue[f]) \in Seq(Seq(Cargo))
        /\ \A j \in DOMAIN Head(queue[f]) :
             Head(queue[f])[j].kind = "pipe" => Head(queue[f])[j].res \in End
    BY <2>1, <2>2, HeadIs DEF PipeEnd
  <2>4. ends \subseteq End
    BY <2>3 DEF ToSet
  <2> HIDE DEF ends, f
  <2>5. queue' \in [End -> Seq(Seq(Cargo))]
    BY <2>1, <2>2, <2>3 DEF TypeOK
  <2> QED
    BY <2>1, <2>4, <2>5, IdleIs, CallTyped DEF TypeOK
<1>2. CASE ClosePort(t)
  <2> DEFINE f == disp[call[t].h].res
  <2>1. /\ call[t].at = "closePort" /\ ClosePorts({f}) /\ Moves(t, Idle)
        /\ UNCHANGED <<table, busy, next, disp, pipes, gen, waiter, calls, lost, failed>>
    BY <1>2 DEF ClosePort, At, Moves
  <2>2. {f} \in SUBSET End
    BY <2>1, ReadFinds
  <2> HIDE DEF f
  <2>3. Inside({f}) \subseteq End
    BY <2>2, InsideIs
  <2>4. shut' \subseteq End /\ event' \subseteq Handle
    BY <2>1, <2>3 DEF ClosePorts, Observers, TypeOK
  <2>5. queue' \in [End -> Seq(Seq(Cargo))]
    <3>1. \A e \in End : <<>> \in Seq(Seq(Cargo)) /\ queue[e] \in Seq(Seq(Cargo))
      BY DEF TypeOK
    <3> QED
      BY <2>1, <3>1 DEF ClosePorts
  <2> QED
    BY <2>1, <2>4, <2>5, IdleIs, CallTyped DEF TypeOK
<1> QED
  BY <1>1, <1>2

\* Waiting.
LEMMA TypeWaits ==
  ASSUME TypeOK,
         \/ \E h \in event : OnPortStatusChanged(h)
         \/ \E w \in Waits : WaitFor(w[1], w[2])
         \/ AddAwakable \/ RemoveAwakable
  PROVE  TypeOK'
<1>1. ASSUME NEW h \in event, OnPortStatusChanged(h) PROVE TypeOK'
  <2>1. /\ event' = event \ {h} /\ UNCHANGED <<table, busy, next, disp, call, calls>>
        /\ UNCHANGED nodeVars
        /\ UNCHANGED waiter \/ AwakeForStateChange(h, disp[h])
        /\ failed' = failed \/ failed' = StatusCheck(disp[h])
    BY <1>1 DEF OnPortStatusChanged
  <2>2. waiter' \in Wait
    BY <2>1, WaiterTyped
  <2>3. failed' \subseteq {"full", "overflow", "status", "transit", "buffer", "cast"}
    BY <2>1, FailedTyped
  <2> QED
    BY <2>1, <2>2, <2>3 DEF TypeOK, nodeVars
<1>2. ASSUME NEW w \in Waits, WaitFor(w[1], w[2]) PROVE TypeOK'
  <2>1. /\ UNCHANGED <<table, busy, next, disp, event, call, calls>> /\ UNCHANGED nodeVars
        /\ waiter' = [at |-> "asked", h |-> w[1], signal |-> w[2]] /\ failed' = failed
    BY <1>2 DEF WaitFor
  <2>2. w[1] \in 0..LastHandle /\ w[2] \in {"none", "readable", "writable", "peerClosed"}
    <3>1. w \in (1..LastHandle) \X {"readable", "writable", "peerClosed"} /\ LastHandle \in Nat
      BY CoreAssumption
    <3> QED
      BY <3>1
  <2>3. waiter' \in Wait
    BY <2>1, <2>2 DEF Wait
  <2> QED
    BY <2>1, <2>3 DEF TypeOK, nodeVars
<1>3. CASE RemoveAwakable
  <2>1. /\ waiter' = NotWaiting /\ UNCHANGED nodeVars /\ failed' = StatusCheck(disp[waiter.h])
        /\ UNCHANGED <<table, busy, next, disp, event, call, calls>>
    BY <1>3 DEF RemoveAwakable
  <2>2. NotWaiting \in Wait
    <3>1. 0 \in 0..LastHandle
      BY CoreAssumption
    <3> QED
      BY <3>1 DEF NotWaiting, Wait
  <2>3. failed' \subseteq {"full", "overflow", "status", "transit", "buffer", "cast"}
    BY <2>1, FailedTyped
  <2> QED
    BY <2>1, <2>2, <2>3 DEF TypeOK, nodeVars
<1>4. CASE AddAwakable
  <2>1. /\ UNCHANGED nodeVars /\ UNCHANGED <<table, busy, next, disp, event, call, calls>>
        /\ failed' = failed \/ failed' = StatusCheck(disp[waiter.h])
        /\ \E at \in {"added", "over"} : waiter' = [waiter EXCEPT !.at = at]
    BY <1>4, Zenon DEF AddAwakable
  <2>2. waiter' \in Wait
    BY <2>1 DEF Wait, TypeOK
  <2>3. failed' \subseteq {"full", "overflow", "status", "transit", "buffer", "cast"}
    BY <2>1, FailedTyped
  <2> QED
    BY <2>1, <2>2, <2>3 DEF TypeOK, nodeVars
<1> QED
  BY <1>1, <1>2, <1>3, <1>4

\* Every step keeps the types.
LEMMA TypeStep ==
  ASSUME TypeOK, TableInv, Ends, [Next]_vars
  PROVE  TypeOK'
<1>1. CASE \/ CreateMessagePipe \/ CreateSharedBuffer \/ CreatePlatformHandleWrapper
  BY <1>1, TypeCreates DEF CreateSharedBuffer, CreatePlatformHandleWrapper
<1>2. CASE \/ \E t \in Thread, h \in table, hs \in Bundles : WriteMessage(t, h, hs)
           \/ \E t \in Thread, h \in table : ReadMessage(t, h) \/ UseBuffer(t, h)
  BY <1>2, TypeCalls
<1>3. CASE \E t \in Thread, h \in table : Close(t, h) \/ PassWrappedPlatformHandle(t, h)
  BY <1>3, TypeCloses
<1>4. ASSUME NEW t \in Thread, Continue(t) PROVE TypeOK'
  <2>1. CASE \/ BeginTransit(t) \/ CheckWrite(t) \/ CheckRead(t) \/ ReadNothing(t)
             \/ TellPeerClosed(t) \/ MapBuffer(t)
    BY <2>1, TypeEnds, TypeTransit
  <2>2. CASE SendMessage(t) \/ CompleteTransitAndClose(t) \/ CancelTransit(t)
    BY <2>2, TypeSends, TypeTransit
  <2>3. CASE ReadDiscards(t) \/ ReadTakes(t) \/ ClosePort(t)
    BY <2>3, TypeDrops, TypeTakes
  <2>4. CASE ClosePipe(t) \/ CloseThing(t)
    BY <2>4, TypeCloses
  <2>5. CASE DuplicateBufferHandle(t)
    BY <2>5, TypeCreates
  <2> QED
    BY <1>4, <2>1, <2>2, <2>3, <2>4, <2>5 DEF Continue
<1>5. CASE \/ \E h \in event : OnPortStatusChanged(h)
           \/ \E w \in Waits : WaitFor(w[1], w[2])
           \/ AddAwakable \/ RemoveAwakable
  BY <1>5, TypeWaits
<1>6. CASE UNCHANGED vars
  BY <1>6 DEF vars, TypeOK
<1> QED
  BY <1>1, <1>2, <1>3, <1>4, <1>5, <1>6 DEF Next

-----------------------------------------------------------------------------
(* Queues.                                                                 *)

\* The first message goes.
LEMMA TailQ ==
  ASSUME NEW q \in Seq(Seq(Cargo)), q # <<>>
  PROVE  /\ OnceQ(q) => OnceQ(Tail(q)) /\ OnceMsg(Head(q))
         /\ EndsOK(q) => EndsOK(Tail(q))
         /\ \A e : Carries(Tail(q), e) => Carries(q, e)
         /\ \A e : CarriesMsg(Head(q), e) => Carries(q, e)
         /\ \A e \in End : OnceQ(q) /\ CarriesMsg(Head(q), e) => ~Carries(Tail(q), e)
<1> DEFINE r == Tail(q)
<1>1. /\ Len(q) \in Nat /\ DOMAIN q = 1..Len(q) /\ Len(q) >= 1 /\ Head(q) = q[1]
      /\ DOMAIN r = 1..(Len(q) - 1) /\ \A i \in 1..(Len(q) - 1) : r[i] = q[i + 1]
  OBVIOUS
<1>2. 1 \in DOMAIN q /\ \A i \in DOMAIN r : i + 1 \in DOMAIN q /\ i + 1 # 1 /\ r[i] = q[i + 1] /\ i \in Nat
  BY <1>1
<1> HIDE DEF r
<1>3. OnceQ(q) => OnceQ(r) /\ OnceMsg(Head(q))
  <2> SUFFICES ASSUME OnceQ(q) PROVE OnceQ(r) /\ OnceMsg(Head(q))
    OBVIOUS
  <2>1. \A i \in DOMAIN r : OnceMsg(r[i])
    BY <1>2 DEF OnceQ
  <2>2. ASSUME NEW i \in DOMAIN r, NEW k \in DOMAIN r, NEW e \in End,
               CarriesMsg(r[i], e), CarriesMsg(r[k], e)
        PROVE  i = k
    <3>1. i + 1 = k + 1
      BY <1>2, <2>2 DEF OnceQ
    <3> QED
      BY <1>2, <3>1
  <2> QED
    BY <1>1, <1>2, <2>1, <2>2 DEF OnceQ
<1>4. EndsOK(q) => EndsOK(r)
  BY <1>2 DEF EndsOK
<1>5. \A e : Carries(r, e) => Carries(q, e)
  BY <1>2 DEF Carries
<1>6. \A e : CarriesMsg(Head(q), e) => Carries(q, e)
  BY <1>1, <1>2 DEF Carries
<1>7. ASSUME NEW e \in End, OnceQ(q), CarriesMsg(Head(q), e), Carries(r, e) PROVE FALSE
  <2>1. PICK i \in DOMAIN r : CarriesMsg(r[i], e)
    BY <1>7 DEF Carries
  <2>2. 1 \in DOMAIN q /\ i + 1 \in DOMAIN q /\ CarriesMsg(q[1], e) /\ CarriesMsg(q[i + 1], e)
    BY <1>1, <1>2, <1>7, <2>1
  <2>3. i + 1 = 1
    BY <1>7, <2>2 DEF OnceQ
  <2> QED
    BY <1>2, <2>3
<1> QED
  BY <1>3, <1>4, <1>5, <1>6, <1>7 DEF r

\* A message is added that carries what was not carried yet.
LEMMA AppendQ ==
  ASSUME NEW q \in Seq(Seq(Cargo)), NEW m \in Seq(Cargo)
  PROVE  /\ \A e : Carries(Append(q, m), e) <=> Carries(q, e) \/ CarriesMsg(m, e)
         /\ OnceQ(q) /\ OnceMsg(m) /\ (\A e \in End : CarriesMsg(m, e) => ~Carries(q, e))
              => OnceQ(Append(q, m))
         /\ EndsOK(q) /\ (\A j \in DOMAIN m : m[j].kind = "pipe" => PipeEnd(m[j].res))
              => EndsOK(Append(q, m))
<1> DEFINE r == Append(q, m)
           n == Len(q) + 1
<1>1. /\ Len(q) \in Nat /\ DOMAIN q = 1..Len(q) /\ DOMAIN r = 1..n /\ r[n] = m
      /\ \A i \in 1..Len(q) : r[i] = q[i]
  OBVIOUS
<1>2. n \in DOMAIN r /\ n \notin DOMAIN q /\ \A i : i \in DOMAIN r <=> i \in DOMAIN q \/ i = n
  BY <1>1
<1>3. \A i \in DOMAIN q : r[i] = q[i]
  BY <1>1
<1>4. r[n] = m
  BY <1>1
<1> HIDE DEF r, n
<1>5. \A e : Carries(r, e) <=> Carries(q, e) \/ CarriesMsg(m, e)
  BY <1>2, <1>3, <1>4 DEF Carries
<1>6. ASSUME OnceQ(q), OnceMsg(m), \A e \in End : CarriesMsg(m, e) => ~Carries(q, e)
      PROVE  OnceQ(r)
  <2>1. \A i \in DOMAIN r : OnceMsg(r[i])
    BY <1>2, <1>3, <1>4, <1>6 DEF OnceQ
  <2>2. ASSUME NEW i \in DOMAIN r, NEW k \in DOMAIN r, NEW e \in End,
               CarriesMsg(r[i], e), CarriesMsg(r[k], e)
        PROVE  i = k
    <3>1. CASE i = n /\ k = n
      BY <3>1
    <3>2. CASE i = n /\ k # n
      BY <1>2, <1>3, <1>4, <1>6, <2>2, <3>2 DEF Carries
    <3>3. CASE i # n /\ k = n
      BY <1>2, <1>3, <1>4, <1>6, <2>2, <3>3 DEF Carries
    <3>4. CASE i # n /\ k # n
      BY <1>2, <1>3, <1>6, <2>2, <3>4 DEF OnceQ
    <3> QED
      BY <3>1, <3>2, <3>3, <3>4
  <2> QED
    BY <2>1, <2>2 DEF OnceQ
<1>7. ASSUME EndsOK(q), \A j \in DOMAIN m : m[j].kind = "pipe" => PipeEnd(m[j].res)
      PROVE  EndsOK(r)
  BY <1>2, <1>3, <1>4, <1>7 DEF EndsOK
<1> QED
  BY <1>5, <1>6, <1>7 DEF r

-----------------------------------------------------------------------------
(* Owners of ends, step by step.                                           *)

\* What the queues carry afterwards was carried before.
LessMail ==
  \A f \in End : /\ OnceQ(queue'[f])
                 /\ \A e \in End : Carries(queue'[f], e) => Carries(queue[f], e)

\* A step in which dispatchers are closed, messages go and ports are closed.
LEMMA OwnShrinks ==
  ASSUME TypeOK, OwnInv, UNCHANGED <<pipes, gen>>, LessMail,
         \A f \in End : EndsOK(queue'[f]),
         \A h \in Handle : disp'[h].kind = "pipe" =>
           /\ disp[h].kind = "pipe" /\ disp'[h].res = disp[h].res
           /\ disp'[h].port = disp[h].port /\ (disp[h].closed => disp'[h].closed),
         \A e \in End : e \in shut' /\ e \notin shut =>
           e[1] <= pipes /\ ~Mail(e)' /\ \A h \in Handle : ~Holds(h, e),
         \A e \in End : Parting(e)' =>
           Parting(e) \/ \E h \in Handle : Holds(h, e) /\ disp'[h].closed,
         \A h \in Handle : disp[h].kind = "pipe" /\ HandedOver(h) =>
           disp'[h].closed \/ HandedOver(h)'
  PROVE  OwnInv'
<1>1. ASSUME NEW e \in End, NEW h \in Handle, Holds(h, e)'
      PROVE  Holds(h, e) /\ ~disp'[h].closed
  BY <1>1 DEF Holds
<1>2. \A e \in End : Mail(e)' => Mail(e)
  BY DEF LessMail, Mail
<1>3. Ends'
  <2>1. \A h \in Handle : disp'[h].kind = "pipe" =>
          PipeEnd(disp'[h].res) /\ disp'[h].port <= gen[disp'[h].res]
    BY DEF OwnInv, Ends
  <2>2. \A e \in End : e[1] > pipes => gen[e] = 0 /\ e \notin shut'
    <3> SUFFICES ASSUME NEW e \in End, e[1] > pipes PROVE gen[e] = 0 /\ e \notin shut'
      OBVIOUS
    <3>1. gen[e] = 0 /\ e \notin shut
      BY DEF OwnInv, Ends
    <3>2. ~(e[1] <= pipes)
      BY DEF TypeOK, End
    <3> QED
      BY <3>1, <3>2
  <2> QED
    BY <2>1, <2>2 DEF Ends, PipeEnd, EndsOK
<1>4. Owned'
  <2>1. \A e \in End, h, k \in Handle : Holds(h, e)' /\ Holds(k, e)' => h = k
    BY <1>1 DEF OwnInv, Owned
  <2>2. ASSUME NEW e \in End, NEW h \in Handle, Holds(h, e)'
        PROVE  e \notin shut' /\ ~Mail(e)' /\ ~Parting(e)'
    <3>1. Holds(h, e) /\ ~disp'[h].closed
      BY <1>1, <2>2
    <3>2. e \notin shut /\ ~Mail(e) /\ ~Parting(e)
      BY <3>1 DEF OwnInv, Owned
    <3>3. e \notin shut'
      BY <3>1, <3>2
    <3>4. ~Parting(e)'
      <4> SUFFICES ASSUME NEW k \in Handle, Holds(k, e), disp'[k].closed PROVE FALSE
        BY <3>2
      <4>1. k = h
        BY <3>1 DEF OwnInv, Owned
      <4> QED
        BY <3>1, <4>1
    <3> QED
      BY <1>2, <3>2, <3>3, <3>4
  <2>3. ASSUME NEW e \in End, Mail(e)' PROVE e \notin shut' /\ ~Parting(e)'
    <3>1. Mail(e) /\ e \notin shut /\ ~Parting(e)
      BY <1>2, <2>3 DEF OwnInv, Owned
    <3>2. \A k \in Handle : ~Holds(k, e)
      BY <3>1 DEF OwnInv, Owned
    <3> QED
      BY <2>3, <3>1, <3>2
  <2>4. \A f \in End : OnceQ(queue'[f])
    BY DEF LessMail
  <2>5. \A f, g, e \in End : Carries(queue'[f], e) /\ Carries(queue'[g], e) => f = g
    BY DEF LessMail, OwnInv, Owned
  <2>6. \A f \in End : OnceQ(queue[f])'
    BY <2>4 DEF OnceQ, OnceMsg, CarriesMsg
  <2>7. \A f, g, e \in End : Carries(queue[f], e)' /\ Carries(queue[g], e)' => f = g
    BY <2>5 DEF Carries, CarriesMsg
  <2> QED
    BY <2>1, <2>2, <2>3, <2>6, <2>7 DEF Owned
<1>5. Opens'
  <2> SUFFICES ASSUME NEW h \in Handle, disp'[h].kind = "pipe", ~disp'[h].closed
               PROVE  disp'[h].port = gen[disp'[h].res] \/ HandedOver(h)'
    BY DEF Opens
  <2>1. disp[h].port = gen[disp[h].res] \/ HandedOver(h)
    BY DEF OwnInv, Opens
  <2> QED
    BY <2>1
<1> QED
  BY <1>3, <1>4, <1>5 DEF OwnInv

\* A handle that is given out was behind no call.
LEMMA PartingQuits ==
  ASSUME TypeOK, TableInv, Quits, NEW new \in SUBSET Handle,
         \A h \in new : disp[h] = None,
         \A h \in Handle : h \notin new => disp'[h] = disp[h]
  PROVE  /\ \A e : Parting(e)' => Parting(e)
         /\ \A h : HandedOver(h) => HandedOver(h)'
<1>1. ASSUME NEW e, Parting(e)' PROVE Parting(e)
  <2>1. PICK u \in Thread : call'[u].at = "closePort" /\ disp'[call'[u].h].res = e
    BY <1>1 DEF Parting
  <2>2. call'[u] = call[u]
    BY <2>1, IdleIs DEF Quits
  <2>3. call[u].h \in Handle /\ disp[call[u].h].kind = "pipe"
    BY <2>1, <2>2 DEF TableInv, CallsOK, CallOK
  <2>4. call[u].h \notin new
    BY <2>3, NoneIs
  <2> QED
    BY <2>1, <2>2, <2>3, <2>4 DEF Parting
<1>2. ASSUME NEW h, HandedOver(h) PROVE HandedOver(h)'
  <2>1. PICK u \in Thread : call[u].at = "finish" /\ call[u].sent /\ h \in ToSet(call[u].hs)
    BY <1>2 DEF HandedOver
  <2>2. h \in Carried(call[u])
    BY <2>1 DEF Carried, Carrying
  <2>3. call'[u] = call[u]
    BY <2>2 DEF Quits
  <2> QED
    BY <2>1, <2>3 DEF HandedOver
<1> QED
  BY <1>1, <1>2

\* A step that makes dispatchers for ends that no one owns, or no longer owns.
LEMMA OwnGains ==
  ASSUME TypeOK, TableInv, OwnInv, Quits, NEW new \in SUBSET Handle,
         \A h \in new : disp[h] = None,
         \A h \in Handle : h \notin new => disp'[h] = disp[h],
         pipes' \in Nat, pipes <= pipes', UNCHANGED <<gen, shut>>, LessMail,
         \A h \in new : disp'[h].kind = "pipe" =>
           disp'[h].res \in End /\ disp'[h].port = gen[disp'[h].res],
         \A h \in new, e \in End : disp'[h].kind = "pipe" /\ disp'[h].res = e =>
           /\ e[1] <= pipes' /\ e \notin shut /\ ~Mail(e)' /\ ~Parting(e)
           /\ \A k \in Handle : ~Holds(k, e)
           /\ \A k \in new : disp'[k].kind = "pipe" /\ disp'[k].res = e => k = h,
         \A f \in End : EndsOK(queue'[f])
  PROVE  OwnInv'
<1>1. /\ \A e : Parting(e)' => Parting(e)
      /\ \A h : HandedOver(h) => HandedOver(h)'
  BY PartingQuits
<1>2. \A e \in End : Mail(e)' => Mail(e)
  BY DEF LessMail, Mail
<1>3. ASSUME NEW e \in End, e[1] <= pipes PROVE e[1] <= pipes'
  <2>1. e[1] \in Nat /\ pipes \in Nat
    BY CoreAssumption DEF End, TypeOK
  <2> QED
    BY <1>3, <2>1
<1>4. \A e : PipeEnd(e) => PipeEnd(e)'
  BY <1>3 DEF PipeEnd
<1>5. ASSUME NEW e \in End, NEW h \in Handle, Holds(h, e)'
      PROVE  /\ h \notin new => Holds(h, e)
             /\ h \in new => disp'[h].kind = "pipe" /\ disp'[h].res = e
  BY <1>5 DEF Holds
<1>6. Ends'
  <2>1. ASSUME NEW h \in Handle, disp'[h].kind = "pipe"
        PROVE  PipeEnd(disp[h].res)' /\ disp'[h].port <= gen[disp'[h].res]
    <3>1. CASE h \in new
      <4>1. gen[disp'[h].res] \in Nat
        BY <2>1, <3>1 DEF TypeOK
      <4> QED
        BY <2>1, <3>1, <4>1 DEF PipeEnd
    <3>2. CASE h \notin new
      BY <1>4, <2>1, <3>2 DEF OwnInv, Ends
    <3> QED
      BY <3>1, <3>2
  <2>2. ASSUME NEW e \in End, e[1] > pipes' PROVE gen[e] = 0 /\ e \notin shut
    <3>1. e[1] > pipes
      BY <2>2, CoreAssumption DEF End, TypeOK
    <3> QED
      BY <3>1 DEF OwnInv, Ends
  <2>3. \A f \in End : EndsOK(queue[f])'
    BY <1>4 DEF EndsOK
  <2> QED
    BY <2>1, <2>2, <2>3 DEF Ends
<1>7. Owned'
  <2>1. ASSUME NEW e \in End, NEW h \in Handle, NEW k \in Handle, Holds(h, e)', Holds(k, e)'
        PROVE  h = k
    <3>1. CASE h \notin new /\ k \notin new
      BY <1>5, <2>1, <3>1 DEF OwnInv, Owned
    <3>2. CASE h \in new /\ k \notin new
      BY <1>5, <2>1, <3>2
    <3>3. CASE h \notin new /\ k \in new
      BY <1>5, <2>1, <3>3
    <3>4. CASE h \in new /\ k \in new
      BY <1>5, <2>1, <3>4
    <3> QED
      BY <3>1, <3>2, <3>3, <3>4
  <2>2. ASSUME NEW e \in End, NEW h \in Handle, Holds(h, e)'
        PROVE  e \notin shut /\ ~Mail(e)' /\ ~Parting(e)'
    <3>1. CASE h \in new
      BY <1>1, <1>5, <2>2, <3>1
    <3>2. CASE h \notin new
      <4>1. e \notin shut /\ ~Mail(e) /\ ~Parting(e)
        BY <1>5, <2>2, <3>2 DEF OwnInv, Owned
      <4> QED
        BY <1>1, <1>2, <4>1
    <3> QED
      BY <3>1, <3>2
  <2>3. ASSUME NEW e \in End, Mail(e)' PROVE e \notin shut /\ ~Parting(e)'
    BY <1>1, <1>2, <2>3 DEF OwnInv, Owned
  <2>4. \A f \in End : OnceQ(queue[f])'
    BY DEF LessMail, OnceQ, OnceMsg, CarriesMsg
  <2>5. \A f, g, e \in End : Carries(queue'[f], e) /\ Carries(queue'[g], e) => f = g
    BY DEF LessMail, OwnInv, Owned
  <2>6. \A f, g, e \in End : Carries(queue[f], e)' /\ Carries(queue[g], e)' => f = g
    BY <2>5 DEF Carries, CarriesMsg
  <2> QED
    BY <2>1, <2>2, <2>3, <2>4, <2>6 DEF Owned
<1>8. Opens'
  <2> SUFFICES ASSUME NEW h \in Handle, disp'[h].kind = "pipe", ~disp'[h].closed
               PROVE  disp'[h].port = gen[disp'[h].res] \/ HandedOver(h)'
    BY DEF Opens
  <2>1. CASE h \in new
    BY <2>1
  <2>2. CASE h \notin new
    <3>1. disp[h].port = gen[disp[h].res] \/ HandedOver(h)
      BY <2>2 DEF OwnInv, Opens
    <3> QED
      BY <1>1, <2>2, <3>1
  <2> QED
    BY <2>1, <2>2
<1> QED
  BY <1>6, <1>7, <1>8 DEF OwnInv

\* The queues remain.
LEMMA SameMail ==
  ASSUME OwnInv, queue' = queue
  PROVE  LessMail /\ \A f \in End : EndsOK(queue'[f])
BY DEF LessMail, OwnInv, Owned, Ends

\* Nothing of the node changes but the number of pipes; new dispatchers are not
\* pipes.
LEMMA OwnCreatesOne ==
  ASSUME TypeOK, TableInv, OwnInv, Quits, UNCHANGED <<pipes, gen, shut, queue>>,
         NEW d, d.kind # "pipe", Adds(d)
  PROVE  OwnInv'
<1>1. next \in 0..LastHandle /\ LastHandle \in Nat /\ pipes \in Nat
  BY CoreAssumption DEF TypeOK
<1>2. LessMail /\ \A f \in End : EndsOK(queue'[f])
  BY SameMail
<1>3. CASE next = INVALID
  <2>1. disp' = disp
    BY <1>3 DEF Adds, AddDispatcher, OutOfHandles
  <2>2. {} \in SUBSET Handle /\ pipes' \in Nat /\ pipes <= pipes'
    BY <1>1
  <2> QED
    BY <1>2, <2>1, <2>2, OwnGains
<1>4. CASE next # INVALID
  <2>1. next \in Handle
    BY <1>1, <1>4 DEF INVALID, Handle
  <2>2. disp' = [disp EXCEPT ![next] = d]
    BY <1>4 DEF Adds, AddDispatcher
  <2>3. disp'[next] = d /\ \A h \in Handle : h \notin {next} => disp'[h] = disp[h]
    BY <2>1, <2>2 DEF TypeOK
  <2>4. disp[next] = None
    BY <1>1, <1>4, <2>1 DEF TableInv, Tables
  <2>5. /\ {next} \in SUBSET Handle /\ pipes' \in Nat /\ pipes <= pipes'
        /\ \A h \in {next} : disp[h] = None /\ disp'[h].kind # "pipe"
    BY <1>1, <2>1, <2>3, <2>4
  <2> QED
    BY <1>2, <2>3, <2>5, OwnGains
<1> QED
  BY <1>3, <1>4

\* The ends of a pipe that is not there yet are no one's.
LEMMA FreshEnd ==
  ASSUME TypeOK, TableInv, OwnInv, NEW e \in End, e[1] > pipes
  PROVE  /\ gen[e] = 0 /\ e \notin shut /\ ~Mail(e) /\ ~Parting(e)
         /\ \A k \in Handle : ~Holds(k, e)
<1>1. ~(e[1] <= pipes) /\ gen[e] = 0 /\ e \notin shut
  BY CoreAssumption DEF End, TypeOK, OwnInv, Ends
<1>2. \A k \in Handle : ~Holds(k, e)
  BY <1>1 DEF OwnInv, Ends, PipeEnd, Holds
<1>3. ~Mail(e)
  <2> SUFFICES ASSUME NEW f \in End, Carries(queue[f], e) PROVE FALSE
    BY DEF Mail
  <2>1. PICK i \in DOMAIN queue[f] : CarriesMsg(queue[f][i], e)
    BY DEF Carries
  <2>2. PICK j \in DOMAIN queue[f][i] : queue[f][i][j].kind = "pipe" /\ queue[f][i][j].res = e
    BY <2>1 DEF CarriesMsg
  <2>3. EndsOK(queue[f])
    BY DEF OwnInv, Ends
  <2> QED
    BY <1>1, <2>2, <2>3 DEF EndsOK, PipeEnd
<1>4. ~Parting(e)
  <2> SUFFICES ASSUME NEW u \in Thread, call[u].at = "closePort", disp[call[u].h].res = e
               PROVE  FALSE
    BY DEF Parting
  <2>1. call[u].h \in Handle /\ disp[call[u].h].kind = "pipe"
    BY DEF TableInv, CallsOK, CallOK
  <2> QED
    BY <1>1, <2>1 DEF OwnInv, Ends, PipeEnd
<1> QED
  BY <1>1, <1>2, <1>3, <1>4

\* CreateMessagePipe.
LEMMA OwnCreates ==
  ASSUME TypeOK, TableInv, OwnInv, CreateMessagePipe
  PROVE  OwnInv'
<1> DEFINE a == next
           b == After(next)
           e == <<pipes + 1, 0>>
           g == <<pipes + 1, 1>>
           new == {a, b}
<1>1. /\ next \in 0..LastHandle /\ disp \in [Handle -> Dispatcher] /\ LastHandle \in Nat
      /\ MaxPipes \in Nat /\ pipes \in 0..MaxPipes
  BY CoreAssumption DEF TypeOK
<1>2. /\ Quits /\ pipes < MaxPipes /\ pipes' = pipes + 1 /\ UNCHANGED <<gen, shut, queue>>
  BY QuitsNone DEF CreateMessagePipe
<1>3. LessMail /\ (\A f \in End : EndsOK(queue'[f])) /\ pipes' \in Nat /\ pipes <= pipes'
  BY <1>1, <1>2, SameMail
<1>4. CASE a = INVALID \/ b = INVALID
  <2>1. disp' = disp
    BY <1>4 DEF CreateMessagePipe, OutOfHandles
  <2>2. {} \in SUBSET Handle
    OBVIOUS
  <2> QED
    BY <1>2, <1>3, <2>1, <2>2, OwnGains
<1>5. CASE a # INVALID /\ b # INVALID
  <2>1. a \in Handle /\ b \in Handle /\ b = a + 1 /\ a # b /\ b >= next /\ a >= next
    BY <1>1, <1>5, AfterIs DEF INVALID, Handle
  <2>2. disp' = [disp EXCEPT ![a] = New("pipe", e, 0), ![b] = New("pipe", g, 0)]
    BY <1>5 DEF CreateMessagePipe
  <2>3. \A h \in new : disp[h] = None
    BY <1>5, <2>1 DEF TableInv, Tables
  <2>4. e \in End /\ g \in End /\ e # g /\ e[1] > pipes /\ g[1] > pipes /\ e[1] <= pipes' /\ g[1] <= pipes'
    BY <1>1, <1>2 DEF End
  <2>5. new \in SUBSET Handle
    BY <2>1
  <2> HIDE DEF a, b, e, g
  <2>6. /\ disp'[a] = New("pipe", e, 0) /\ disp'[b] = New("pipe", g, 0)
        /\ \A h \in Handle : h \notin new => disp'[h] = disp[h]
    BY <1>1, <2>1, <2>2
  <2>7. /\ disp'[a].res = e /\ disp'[a].port = 0 /\ disp'[b].res = g /\ disp'[b].port = 0
    BY <2>6, NewHas
  <2>8. \A x \in {e, g} : /\ gen[x] = 0 /\ x \notin shut /\ ~Mail(x) /\ ~Parting(x)
                          /\ \A k \in Handle : ~Holds(k, x)
    BY <2>4, FreshEnd
  <2>9. \A x \in {e, g} : ~Mail(x)'
    BY <1>3, <2>4, <2>8 DEF Mail, LessMail
  <2>10. \A h \in new : disp'[h].res \in End /\ disp'[h].port = gen[disp'[h].res]
    BY <2>4, <2>7, <2>8
  <2>11. ASSUME NEW h \in new, NEW x \in End, disp'[h].res = x
         PROVE  /\ x[1] <= pipes' /\ x \notin shut /\ ~Mail(x)' /\ ~Parting(x)
                /\ \A k \in Handle : ~Holds(k, x)
                /\ \A k \in new : disp'[k].kind = "pipe" /\ disp'[k].res = x => k = h
    <3>1. x \in {e, g} /\ x[1] <= pipes'
      BY <2>4, <2>7, <2>11
    <3>2. \A k \in new : disp'[k].res = x => k = h
      BY <2>4, <2>7, <2>11
    <3> QED
      BY <2>8, <2>9, <3>1, <3>2
  <2> HIDE DEF new
  <2>12. \A h \in Handle : h \notin new => disp'[h] = disp[h]
    BY <2>6
  <2>13. \A h \in new : disp'[h].kind = "pipe" =>
           disp'[h].res \in End /\ disp'[h].port = gen[disp'[h].res]
    BY <2>10
  <2>14. \A h \in new, x \in End : disp'[h].kind = "pipe" /\ disp'[h].res = x =>
           /\ x[1] <= pipes' /\ x \notin shut /\ ~Mail(x)' /\ ~Parting(x)
           /\ \A k \in Handle : ~Holds(k, x)
           /\ \A k \in new : disp'[k].kind = "pipe" /\ disp'[k].res = x => k = h
    BY <2>11
  <2> QED
    BY <1>2, <1>3, <2>3, <2>5, <2>12, <2>13, <2>14, OwnGains, SMTT(60)
<1> QED
  BY <1>4, <1>5

\* The first message of a queue is taken from it.
LEMMA PopsMail ==
  ASSUME TypeOK, OwnInv, NEW f \in End, queue[f] # <<>>,
         queue' = [queue EXCEPT ![f] = Tail(queue[f])]
  PROVE  /\ LessMail /\ \A g \in End : EndsOK(queue'[g])
         /\ OnceMsg(Head(queue[f]))
         /\ \A e \in End : CarriesMsg(Head(queue[f]), e) => Mail(e) /\ ~Mail(e)'
<1>1. queue[f] \in Seq(Seq(Cargo)) /\ OnceQ(queue[f]) /\ EndsOK(queue[f])
  BY DEF TypeOK, OwnInv, Owned, Ends
<1>2. queue'[f] = Tail(queue[f]) /\ \A g \in End : g # f => queue'[g] = queue[g]
  BY DEF TypeOK
<1>3. /\ OnceQ(queue'[f]) /\ EndsOK(queue'[f]) /\ OnceMsg(Head(queue[f]))
      /\ \A e : Carries(queue'[f], e) => Carries(queue[f], e)
      /\ \A e : CarriesMsg(Head(queue[f]), e) => Carries(queue[f], e)
      /\ \A e \in End : CarriesMsg(Head(queue[f]), e) => ~Carries(queue'[f], e)
  BY <1>1, <1>2, TailQ
<1>4. \A g \in End : OnceQ(queue[g]) /\ EndsOK(queue[g])
  BY DEF OwnInv, Owned, Ends
<1>5. LessMail
  BY <1>2, <1>3, <1>4 DEF LessMail
<1>6. \A g \in End : EndsOK(queue'[g])
  BY <1>2, <1>3, <1>4
<1>7. ASSUME NEW e \in End, CarriesMsg(Head(queue[f]), e) PROVE Mail(e) /\ ~Mail(e)'
  <2>1. Carries(queue[f], e) /\ ~Carries(queue'[f], e)
    BY <1>3, <1>7
  <2>2. \A g \in End : g # f => ~Carries(queue[g], e)
    BY <2>1 DEF OwnInv, Owned
  <2>3. \A g \in End : ~Carries(queue'[g], e)
    BY <1>2, <2>1, <2>2
  <2> QED
    BY <2>1, <2>3 DEF Mail
<1> QED
  BY <1>3, <1>5, <1>6, <1>7

\* A read that takes a message and gets handles.
LEMMA OwnTakes ==
  ASSUME TypeOK, TableInv, OwnInv, NEW t \in Thread, ReadTakes(t), "overflow" \notin failed',
         next # INVALID \/ Head(queue[disp[call[t].h].res]) = <<>>
  PROVE  OwnInv'
<1> DEFINE d == disp[call[t].h]
           f == d.res
           cargo == Head(queue[f])
           to == FromTransit(cargo)
<1>1. /\ call[t].at = "read" /\ queue[f] # <<>> /\ call' = [call EXCEPT ![t] = Idle]
      /\ UNCHANGED <<pipes, gen>>
  BY DEF ReadTakes, At
<1>2. Quits /\ Ends
  BY <1>1, QuitsOne DEF OwnInv
<1>3. f \in End
  BY <1>1, <1>2, ReadFinds
<1>4. cargo \in Seq(Cargo) /\ \A j \in DOMAIN cargo : /\ cargo[j] \in Cargo
                                                     /\ cargo[j].kind = "pipe" => PipeEnd(cargo[j].res)
  BY <1>1, <1>2, <1>3, HeadIs
<1>5. /\ queue' = [queue EXCEPT ![f] = Tail(queue[f])]
      /\ disp' = [h \in Handle |->
                    IF \E i \in DOMAIN to : to[i] = h
                    THEN Deserialized(cargo[CHOOSE i \in DOMAIN to : to[i] = h])
                    ELSE disp[h]]
      /\ failed' = failed \cup (IF INVALID \in ToSet(to) THEN {"overflow"} ELSE {})
      /\ UNCHANGED shut
  BY DEF ReadTakes
<1>6. INVALID \notin ToSet(to)
  BY <1>5
<1>7. /\ LessMail /\ (\A g \in End : EndsOK(queue'[g])) /\ OnceMsg(cargo)
      /\ \A e \in End : CarriesMsg(cargo, e) => Mail(e) /\ ~Mail(e)'
  BY <1>1, <1>3, <1>5, PopsMail
<1>8. next # INVALID \/ cargo = <<>>
  OBVIOUS
<1> HIDE DEF cargo, f, d
<1>9. /\ ToSet(to) \subseteq Handle
      /\ \A h \in Handle : h \notin ToSet(to) => disp'[h] = disp[h]
      /\ \A h \in ToSet(to) : /\ h >= next /\ h < next + Len(cargo)
                              /\ h - next + 1 \in DOMAIN cargo
                              /\ disp'[h] = Deserialized(cargo[h - next + 1])
  BY <1>4, <1>5, <1>6, <1>8, TakesIs
<1> DEFINE new == ToSet(to)
<1> HIDE DEF to
<1>10. \A h \in new : disp[h] = None
  <2>1. CASE cargo = <<>>
    BY <1>9, <2>1
  <2>2. CASE next # INVALID
    BY <1>9, <2>2 DEF TableInv, Tables
  <2> QED
    BY <1>8, <2>1, <2>2
<1>11. ASSUME NEW h \in new, disp'[h].kind = "pipe"
       PROVE  LET i == h - next + 1
              IN /\ i \in DOMAIN cargo /\ cargo[i].kind = "pipe" /\ disp'[h].res = cargo[i].res
                 /\ PipeEnd(disp'[h].res) /\ disp'[h].port = gen[disp'[h].res]
  <2>1. h - next + 1 \in DOMAIN cargo /\ disp'[h] = Deserialized(cargo[h - next + 1])
    BY <1>9
  <2>2. cargo[h - next + 1] \in Cargo
    BY <1>4, <2>1
  <2> QED
    BY <1>4, <1>11, <2>1, <2>2, CargoHas
<1>12. ASSUME NEW h \in new, NEW e \in End, disp'[h].kind = "pipe", disp'[h].res = e
       PROVE  /\ e[1] <= pipes' /\ e \notin shut /\ ~Mail(e)' /\ ~Parting(e)
              /\ \A k \in Handle : ~Holds(k, e)
              /\ \A k \in new : disp'[k].kind = "pipe" /\ disp'[k].res = e => k = h
  <2>1. CarriesMsg(cargo, e)
    BY <1>11, <1>12 DEF CarriesMsg
  <2>2. Mail(e) /\ ~Mail(e)'
    BY <1>7, <2>1
  <2>3. e \notin shut /\ ~Parting(e) /\ \A k \in Handle : ~Holds(k, e)
    BY <2>2 DEF OwnInv, Owned
  <2>4. e[1] <= pipes'
    BY <1>1, <1>11, <1>12 DEF PipeEnd
  <2>5. ASSUME NEW k \in new, disp'[k].kind = "pipe", disp'[k].res = e PROVE k = h
    <3>1. k - next + 1 = h - next + 1
      BY <1>7, <1>11, <1>12, <2>5 DEF OnceMsg
    <3>2. k \in Nat /\ h \in Nat /\ next \in Nat
      BY <1>9 DEF Handle, TypeOK
    <3> QED
      BY <3>1, <3>2
  <2> QED
    BY <2>2, <2>3, <2>4, <2>5
<1>13. pipes' \in Nat /\ pipes <= pipes' /\ new \in SUBSET Handle
  BY <1>1, <1>9 DEF TypeOK
<1>14. \A h \in new : disp'[h].kind = "pipe" => disp'[h].res \in End /\ disp'[h].port = gen[disp'[h].res]
  BY <1>11 DEF PipeEnd
<1> HIDE DEF new
<1>15. \A h \in Handle : h \notin new => disp'[h] = disp[h]
  BY <1>9 DEF new
<1>16. \A h \in new, e \in End : disp'[h].kind = "pipe" /\ disp'[h].res = e =>
         /\ e[1] <= pipes' /\ e \notin shut /\ ~Mail(e)' /\ ~Parting(e)
         /\ \A k \in Handle : ~Holds(k, e)
         /\ \A k \in new : disp'[k].kind = "pipe" /\ disp'[k].res = e => k = h
  BY <1>12
<1>17. UNCHANGED <<gen, shut>>
  BY <1>1, <1>5
<1> QED
  BY <1>2, <1>7, <1>10, <1>13, <1>14, <1>15, <1>16, <1>17, OwnGains

\* Nothing but calls and queues changes, and one call ends.
LEMMA OwnDrops ==
  ASSUME TypeOK, TableInv, OwnInv, Quits, LessMail, UNCHANGED <<pipes, gen, disp>>,
         \A f \in End : EndsOK(queue'[f]),
         \A e \in End : e \in shut' /\ e \notin shut =>
           e[1] <= pipes /\ ~Mail(e)' /\ \A h \in Handle : ~Holds(h, e)
  PROVE  OwnInv'
<1>1. {} \in SUBSET Handle
  OBVIOUS
<1>2. /\ \A e : Parting(e)' => Parting(e)
      /\ \A h : HandedOver(h) => HandedOver(h)'
  BY <1>1, PartingQuits
<1> QED
  BY <1>2, OwnShrinks

\* A port is closed, and the ports inside it.
LEMMA OwnClosesPort ==
  ASSUME TypeOK, TableInv, OwnInv, NEW t \in Thread, ClosePort(t)
  PROVE  OwnInv'
<1> DEFINE f == disp[call[t].h].res
           all == Inside({f})
<1>1. /\ call[t].at = "closePort" /\ call' = [call EXCEPT ![t] = Idle]
      /\ UNCHANGED <<pipes, gen, disp>> /\ ClosePorts({f})
  BY DEF ClosePort, At
<1>2. Quits /\ Ends
  BY <1>1, QuitsOne DEF OwnInv
<1>3. call[t].h \in Handle /\ disp[call[t].h].kind = "pipe" /\ f \in End /\ Parting(f) /\ f[1] <= pipes
  BY <1>1, <1>2, ReadFinds DEF Parting, Ends, PipeEnd
<1> HIDE DEF f
<1>4. /\ shut' = shut \cup all
      /\ queue' = [e \in End |-> IF e \in all THEN <<>> ELSE queue[e]]
  BY <1>1 DEF ClosePorts
<1>5. /\ all \subseteq End
      /\ \A e \in all : e = f \/ \E g \in all : Carries(queue[g], e)
  BY <1>2, <1>3, InsideIs
<1> HIDE DEF all
<1>6. \A g \in End : OnceQ(queue[g]) /\ EndsOK(queue[g])
  BY DEF OwnInv, Owned, Ends
<1>7. LessMail /\ \A g \in End : EndsOK(queue'[g])
  BY <1>4, <1>6 DEF LessMail, OnceQ, EndsOK, Carries
<1>8. ASSUME NEW e \in End, e \in all
      PROVE  e[1] <= pipes /\ ~Mail(e)' /\ \A h \in Handle : ~Holds(h, e)
  <2>1. CASE e = f
    <3>1. ~Mail(e) /\ \A h \in Handle : ~Holds(h, e)
      BY <1>3, <2>1 DEF OwnInv, Owned
    <3> QED
      BY <1>3, <1>7, <2>1, <3>1 DEF Mail, LessMail
  <2>2. ASSUME NEW g \in all, Carries(queue[g], e)
        PROVE  e[1] <= pipes /\ ~Mail(e)' /\ \A h \in Handle : ~Holds(h, e)
    <3>1. Mail(e) /\ g \in End
      BY <1>5, <2>2 DEF Mail
    <3>2. \A h \in Handle : ~Holds(h, e)
      BY <3>1 DEF OwnInv, Owned
    <3>3. \A x \in End : Carries(queue[x], e) => x = g
      BY <2>2, <3>1 DEF OwnInv, Owned
    <3>4. ~Mail(e)'
      <4> SUFFICES ASSUME NEW x \in End, Carries(queue'[x], e) PROVE FALSE
        BY DEF Mail
      <4>1. x = g
        BY <1>7, <3>3 DEF LessMail
      <4>2. queue'[x] = <<>>
        BY <1>4, <4>1
      <4> QED
        BY <4>2 DEF Carries
    <3>5. e[1] <= pipes
      <4>1. ~(e[1] > pipes)
        BY <3>1, FreshEnd
      <4>2. e[1] \in Nat /\ pipes \in Nat
        BY DEF End, TypeOK
      <4> QED
        BY <4>1, <4>2
    <3> QED
      BY <3>2, <3>4, <3>5
  <2> QED
    BY <1>5, <1>8, <2>1, <2>2
<1> QED
  BY <1>1, <1>2, <1>4, <1>7, <1>8, OwnDrops

\* An end in a message is one of a pipe that was created.
LEMMA MailOld ==
  ASSUME TypeOK, TableInv, OwnInv, NEW e \in End, Mail(e)
  PROVE  /\ e[1] <= pipes /\ e \notin shut /\ ~Parting(e)
         /\ \A h \in Handle : ~Holds(h, e)
<1>1. ~(e[1] > pipes)
  BY FreshEnd
<1>2. e[1] \in Nat /\ pipes \in Nat
  BY DEF End, TypeOK
<1> QED
  BY <1>1, <1>2 DEF OwnInv, Owned

\* The table is full: what the message carries is closed.
LEMMA OwnUntaken ==
  ASSUME TypeOK, TableInv, OwnInv, NEW t \in Thread, ReadTakes(t),
         ~(next # INVALID \/ Head(queue[disp[call[t].h].res]) = <<>>)
  PROVE  OwnInv'
<1> DEFINE f == disp[call[t].h].res
           cargo == Head(queue[f])
           ends == {c.res : c \in {x \in ToSet(cargo) : x.kind = "pipe"}}
           all == Inside(ends)
<1>1. /\ call[t].at = "read" /\ queue[f] # <<>> /\ call' = [call EXCEPT ![t] = Idle]
      /\ UNCHANGED <<pipes, gen, disp>> /\ CloseUntaken(f, ends)
  BY DEF ReadTakes, At
<1>2. Quits /\ Ends
  BY <1>1, QuitsOne DEF OwnInv
<1>3. f \in End
  BY <1>1, <1>2, ReadFinds
<1>4. \A j \in DOMAIN cargo : cargo[j].kind = "pipe" => cargo[j].res \in End
  BY <1>1, <1>2, <1>3, HeadIs DEF PipeEnd
<1>5. ends \in SUBSET End /\ \A e \in ends : CarriesMsg(cargo, e)
  BY <1>4 DEF ToSet, CarriesMsg
<1> HIDE DEF ends, f
<1>6. /\ shut' = shut \cup all
      /\ queue' = [e \in End |-> IF e \in all THEN <<>>
                                ELSE IF e = f THEN Tail(queue[e]) ELSE queue[e]]
  BY <1>1 DEF CloseUntaken
<1>7. /\ all \subseteq End
      /\ \A e \in all : e \in ends \/ \E g \in all : Carries(queue[g], e)
  BY <1>2, <1>5, InsideIs
<1> HIDE DEF all
<1>8. \A g \in End : OnceQ(queue[g]) /\ EndsOK(queue[g]) /\ queue[g] \in Seq(Seq(Cargo))
  BY DEF OwnInv, Owned, Ends, TypeOK
<1>9. /\ OnceQ(Tail(queue[f])) /\ EndsOK(Tail(queue[f]))
      /\ \A e : Carries(Tail(queue[f]), e) => Carries(queue[f], e)
      /\ \A e : CarriesMsg(cargo, e) => Carries(queue[f], e)
      /\ \A e \in End : CarriesMsg(cargo, e) => ~Carries(Tail(queue[f]), e)
  BY <1>1, <1>3, <1>8, TailQ
<1> HIDE DEF cargo
<1>10. \A g \in End : \/ queue'[g] = <<>> \/ (g = f /\ queue'[g] = Tail(queue[f]))
                      \/ g # f /\ queue'[g] = queue[g]
  BY <1>6
<1>11. OnceQ(<<>>) /\ EndsOK(<<>>) /\ \A e : ~Carries(<<>>, e)
  BY DEF OnceQ, EndsOK, Carries
<1>12. LessMail
  BY <1>8, <1>9, <1>10, <1>11 DEF LessMail
<1>13. \A g \in End : EndsOK(queue'[g])
  BY <1>8, <1>9, <1>10, <1>11
<1>14. ASSUME NEW e \in End, e \in all
       PROVE  e[1] <= pipes /\ ~Mail(e)' /\ \A h \in Handle : ~Holds(h, e)
  <2>1. PICK g \in End : Carries(queue[g], e) /\ (g \in all \/ (g = f /\ CarriesMsg(cargo, e)))
    BY <1>3, <1>5, <1>7, <1>9, <1>14
  <2>2. Mail(e)
    BY <2>1 DEF Mail
  <2>3. \A x \in End : Carries(queue[x], e) => x = g
    BY <2>1 DEF OwnInv, Owned
  <2>4. ~Mail(e)'
    <3> SUFFICES ASSUME NEW x \in End, Carries(queue'[x], e) PROVE FALSE
      BY DEF Mail
    <3>1. x = g
      BY <1>12, <2>3 DEF LessMail
    <3>2. CASE g \in all
      BY <1>6, <1>11, <3>1, <3>2
    <3>3. CASE g = f /\ CarriesMsg(cargo, e)
      <4>1. ~Carries(Tail(queue[f]), e)
        BY <1>9, <3>3
      <4> QED
        BY <1>10, <1>11, <3>1, <3>3, <4>1
    <3> QED
      BY <2>1, <3>2, <3>3
  <2> QED
    BY <2>2, <2>4, MailOld
<1> QED
  BY <1>1, <1>2, <1>6, <1>12, <1>13, <1>14, OwnDrops

\* A message is popped and destroyed.
LEMMA OwnDiscards ==
  ASSUME TypeOK, TableInv, OwnInv, NEW t \in Thread, ReadDiscards(t)
  PROVE  OwnInv'
<1> DEFINE f == disp[call[t].h].res
<1>1. /\ call[t].at = "read" /\ queue[f] # <<>> /\ call' = [call EXCEPT ![t] = Idle]
      /\ UNCHANGED <<pipes, gen, disp, shut>> /\ queue' = [queue EXCEPT ![f] = Tail(queue[f])]
  BY DEF ReadDiscards, At
<1>2. Quits /\ Ends
  BY <1>1, QuitsOne DEF OwnInv
<1>3. f \in End
  BY <1>1, <1>2, ReadFinds
<1> HIDE DEF f
<1>4. LessMail /\ \A g \in End : EndsOK(queue'[g])
  BY <1>1, <1>3, PopsMail
<1> QED
  BY <1>1, <1>2, <1>4, OwnDrops

\* A step of a call that leaves the node, and perhaps closes dispatchers.
LEMMA OwnMoves ==
  ASSUME TypeOK, TableInv, OwnInv, NEW t \in Thread, NEW c \in CallRec, Moves(t, c),
         UNCHANGED <<pipes, gen, shut, queue>>,
         \A h \in Handle : /\ disp'[h].kind = disp[h].kind /\ disp'[h].res = disp[h].res
                           /\ disp'[h].port = disp[h].port
                           /\ disp[h].closed => disp'[h].closed,
         c.at = "closePort" =>
           /\ c.h \in Handle /\ disp'[c.h].closed
           /\ disp[c.h].kind = "pipe" /\ disp[c.h].port = gen[disp[c.h].res]
           /\ ~disp[c.h].closed,
         call[t].at = "finish" /\ call[t].sent =>
           \A h \in ToSet(call[t].hs) : disp'[h].closed
  PROVE  OwnInv'
<1>1. call'[t] = c /\ \A u \in Thread : u # t => call'[u] = call[u]
  BY MovesIs
<1>2. LessMail /\ \A f \in End : EndsOK(queue'[f])
  BY SameMail
<1>3. ASSUME NEW e \in End, Parting(e)'
      PROVE  Parting(e) \/ \E h \in Handle : Holds(h, e) /\ disp'[h].closed
  <2>1. PICK u \in Thread : call'[u].at = "closePort" /\ disp'[call'[u].h].res = e
    BY <1>3 DEF Parting
  <2>2. CASE u = t
    <3>1. Holds(c.h, e)
      BY <1>1, <2>1, <2>2 DEF Holds
    <3> QED
      BY <1>1, <2>1, <2>2, <3>1
  <2>3. CASE u # t
    <3>1. call'[u] = call[u] /\ call[u].h \in Handle
      BY <1>1, <2>1, <2>3 DEF TableInv, CallsOK, CallOK
    <3> QED
      BY <2>1, <3>1 DEF Parting
  <2> QED
    BY <2>2, <2>3
<1>4. ASSUME NEW h \in Handle, HandedOver(h) PROVE disp'[h].closed \/ HandedOver(h)'
  <2>1. PICK u \in Thread : call[u].at = "finish" /\ call[u].sent /\ h \in ToSet(call[u].hs)
    BY <1>4 DEF HandedOver
  <2>2. CASE u = t
    BY <2>1, <2>2
  <2>3. CASE u # t
    BY <1>1, <2>1, <2>3 DEF HandedOver
  <2> QED
    BY <2>2, <2>3
<1> QED
  BY <1>2, <1>3, <1>4, OwnShrinks

\* What a message that can be sent carries is held by the dispatchers it is made of.
LEMMA SendHolds ==
  ASSUME TypeOK, TableInv, OwnInv, NEW t \in Thread, call[t].at = "send",
         Sendable(disp[call[t].h], call[t].hs)
  PROVE  /\ \A h \in ToSet(call[t].hs) : disp[h].kind = "pipe" =>
              Holds(h, disp[h].res) /\ PipeEnd(disp[h].res)
         /\ \A e : CarriesMsg(CargoOf(call[t].hs), e) <=> e \in EndsOf(call[t].hs)
         /\ OnceMsg(CargoOf(call[t].hs))
         /\ \A e \in EndsOf(call[t].hs) :
              PipeEnd(e) /\ \E h \in ToSet(call[t].hs) : h \in Handle /\ Holds(h, e)
<1> DEFINE hs == call[t].hs
           m == CargoOf(hs)
<1>1. /\ ToSet(hs) \subseteq busy /\ busy \subseteq table /\ ToSet(hs) \subseteq Handle
      /\ Distinct(hs)
  BY CarriedHas DEF Carrying
<1>2. /\ DOMAIN m = DOMAIN hs
      /\ \A i \in DOMAIN hs : /\ m[i].kind = disp[hs[i]].kind /\ m[i].res = disp[hs[i]].res
                              /\ hs[i] \in Handle /\ hs[i] \in ToSet(hs)
  BY CargoOfIs DEF Carrying
<1>3. \A h \in ToSet(hs) : disp[h].kind = "pipe" => Receives(disp[h])
  BY DEF Sendable
<1>4. hs \in Seq(Handle)
  BY CallOf
<1> HIDE DEF hs, m
<1>5. ASSUME NEW h \in ToSet(hs), disp[h].kind = "pipe"
      PROVE  Holds(h, disp[h].res) /\ PipeEnd(disp[h].res)
  <2>1. h \in table /\ h \in Handle /\ ~disp[h].closed
    BY <1>1, <1>5 DEF TableInv, Tables
  <2> QED
    BY <1>3, <1>5, <2>1 DEF Receives, Holds, OwnInv, Ends
<1>6. \A e : e \in EndsOf(hs) <=> \E h \in ToSet(hs) : disp[h].kind = "pipe" /\ disp[h].res = e
  BY DEF EndsOf
<1>7. \A h : h \in ToSet(hs) <=> \E i \in DOMAIN hs : hs[i] = h
  BY <1>4, ToSetIs
<1>8. ASSUME NEW e PROVE CarriesMsg(m, e) <=> e \in EndsOf(hs)
  BY <1>2, <1>6, <1>7 DEF CarriesMsg
<1>9. ASSUME NEW i \in DOMAIN m, NEW j \in DOMAIN m, m[i].kind = "pipe", m[j].kind = "pipe",
             m[i].res = m[j].res
      PROVE  i = j
  <2>1. Holds(hs[i], m[i].res) /\ Holds(hs[j], m[i].res) /\ m[i].res \in End
    BY <1>2, <1>5, <1>9 DEF PipeEnd
  <2>2. hs[i] = hs[j]
    BY <1>2, <2>1 DEF OwnInv, Owned
  <2> QED
    BY <1>1, <1>2, <2>2 DEF Distinct
<1>10. ASSUME NEW e \in EndsOf(hs)
       PROVE  PipeEnd(e) /\ \E h \in ToSet(hs) : h \in Handle /\ Holds(h, e)
  BY <1>1, <1>5, <1>6
<1> QED
  BY <1>5, <1>8, <1>9, <1>10 DEF OnceMsg, hs, m

\* A message is sent.
LEMMA OwnSends ==
  ASSUME TypeOK, TableInv, OwnInv, NEW t \in Thread, call[t].at = "send", Sends(t),
         UNCHANGED <<pipes, shut>>
  PROVE  OwnInv'
<1> DEFINE hs == call[t].hs
           d == disp[call[t].h]
           to == Peer(d.res)
           m == CargoOf(hs)
           E == EndsOf(hs)
           c == SendDone(call[t], TRUE, TRUE)
<1>1. /\ Sendable(d, hs) /\ queue' = [queue EXCEPT ![to] = Append(queue[to], m)]
      /\ gen' = [e \in End |-> IF e \in E THEN gen[e] + 1 ELSE gen[e]]
      /\ Moves(t, c) /\ UNCHANGED disp
  BY Zenon DEF Sends
<1>2. to \in End
  BY ReadFinds, PeerIs DEF OwnInv
<1>3. m \in Seq(Cargo)
  BY CargoOfIs DEF Carrying
<1>4. /\ \A e : CarriesMsg(m, e) <=> e \in E
      /\ OnceMsg(m)
      /\ \A e \in E : PipeEnd(e) /\ \E h \in ToSet(hs) : h \in Handle /\ Holds(h, e)
  BY <1>1, SendHolds
<1>5. /\ c \in CallRec /\ c.at \in {"idle", "finish"}
      /\ hs # <<>> => c.at = "finish" /\ c.hs = hs /\ c.sent
  <2>1. TRUE \in BOOLEAN
    OBVIOUS
  <2>2. /\ c \in CallRec /\ c.at \in {"idle", "finish"} /\ (c.at = "idle" <=> hs = <<>>)
        /\ hs # <<>> => c.hs = hs /\ c.sent = TRUE
    BY <2>1, SendDoneIs, Zenon
  <2> HIDE DEF c, hs
  <2> QED
    BY <2>2
<1>6. call'[t] = c /\ \A u \in Thread : u # t => call'[u] = call[u]
  BY <1>1, <1>5, MovesIs
<1> HIDE DEF c, E, m, to, d, hs
<1>7. \A e \in E : e \in End /\ e \notin shut /\ ~Mail(e) /\ ~Parting(e) /\ e[1] <= pipes
  <2> SUFFICES ASSUME NEW e \in E
               PROVE  e \in End /\ e \notin shut /\ ~Mail(e) /\ ~Parting(e) /\ e[1] <= pipes
    OBVIOUS
  <2>1. PICK h \in Handle : Holds(h, e)
    BY <1>4
  <2> QED
    BY <1>4, <2>1 DEF PipeEnd, OwnInv, Owned
<1>8. /\ \A e : Carries(queue'[to], e) <=> Carries(queue[to], e) \/ CarriesMsg(m, e)
      /\ OnceQ(queue'[to]) /\ EndsOK(queue'[to])
  <2>1. queue'[to] = Append(queue[to], m) /\ queue[to] \in Seq(Seq(Cargo))
    BY <1>1, <1>2 DEF TypeOK
  <2>2. OnceQ(queue[to]) /\ EndsOK(queue[to])
    BY <1>2 DEF OwnInv, Owned, Ends
  <2>3. \A e \in End : CarriesMsg(m, e) => ~Carries(queue[to], e)
    BY <1>2, <1>4, <1>7 DEF Mail
  <2>4. \A j \in DOMAIN m : m[j].kind = "pipe" => PipeEnd(m[j].res)
    <3> SUFFICES ASSUME NEW j \in DOMAIN m, m[j].kind = "pipe" PROVE PipeEnd(m[j].res)
      OBVIOUS
    <3>1. CarriesMsg(m, m[j].res)
      BY DEF CarriesMsg
    <3> QED
      BY <1>4, <3>1
  <2> QED
    BY <1>3, <1>4, <2>1, <2>2, <2>3, <2>4, AppendQ
<1>9. \A f \in End : f # to => queue'[f] = queue[f]
  BY <1>1 DEF TypeOK
<1>10. \A f, e \in End : Carries(queue'[f], e) => Carries(queue[f], e) \/ (f = to /\ e \in E)
  BY <1>4, <1>8, <1>9
<1>11. \A e \in End : Mail(e)' => Mail(e) \/ e \in E
  BY <1>10 DEF Mail
<1>12. \A e \in End : gen'[e] = (IF e \in E THEN gen[e] + 1 ELSE gen[e]) /\ gen[e] \in Nat
  BY <1>1 DEF TypeOK
<1>13. ASSUME NEW h \in Handle, NEW e \in End, Holds(h, e)' PROVE Holds(h, e) /\ e \notin E
  <2>1. disp[h].kind = "pipe" /\ disp[h].res = e /\ disp[h].port = gen'[e] /\ ~disp[h].closed
    BY <1>1, <1>13 DEF Holds
  <2>2. disp[h].port <= gen[e] /\ disp[h].port \in Nat
    BY <2>1, DispOf DEF OwnInv, Ends
  <2>3. e \notin E
    BY <1>12, <2>1, <2>2
  <2> QED
    BY <1>12, <2>1, <2>3 DEF Holds
<1>14. ASSUME NEW e, Parting(e)' PROVE Parting(e)
  BY <1>1, <1>5, <1>6, <1>14 DEF Parting
<1>15. Ends'
  <2>1. ASSUME NEW h \in Handle, disp'[h].kind = "pipe"
        PROVE  PipeEnd(disp'[h].res) /\ disp'[h].port <= gen'[disp'[h].res]
    <3>1. PipeEnd(disp[h].res) /\ disp[h].port <= gen[disp[h].res] /\ disp[h].port \in Nat
      BY <1>1, <2>1, DispOf DEF OwnInv, Ends
    <3> QED
      BY <1>1, <1>12, <3>1 DEF PipeEnd
  <2>2. ASSUME NEW e \in End, e[1] > pipes PROVE gen'[e] = 0 /\ e \notin shut
    <3>1. gen[e] = 0 /\ e \notin shut
      BY <2>2 DEF OwnInv, Ends
    <3>2. ~(e[1] <= pipes)
      BY <2>2 DEF TypeOK, End
    <3> QED
      BY <1>7, <1>12, <3>1, <3>2
  <2>3. \A f \in End : EndsOK(queue'[f])
    BY <1>8, <1>9 DEF OwnInv, Ends
  <2> QED
    BY <2>1, <2>2, <2>3 DEF Ends, PipeEnd, EndsOK
<1>16. Owned'
  <2>1. \A e \in End, h, k \in Handle : Holds(h, e)' /\ Holds(k, e)' => h = k
    BY <1>13 DEF OwnInv, Owned
  <2>2. ASSUME NEW e \in End, NEW h \in Handle, Holds(h, e)'
        PROVE  e \notin shut /\ ~Mail(e)' /\ ~Parting(e)'
    <3>1. Holds(h, e) /\ e \notin E
      BY <1>13, <2>2
    <3>2. e \notin shut /\ ~Mail(e) /\ ~Parting(e)
      BY <3>1 DEF OwnInv, Owned
    <3> QED
      BY <1>11, <1>14, <3>1, <3>2
  <2>3. ASSUME NEW e \in End, Mail(e)' PROVE e \notin shut /\ ~Parting(e)'
    <3>1. CASE e \in E
      BY <1>7, <1>14, <3>1
    <3>2. CASE Mail(e)
      BY <1>14, <3>2 DEF OwnInv, Owned
    <3> QED
      BY <1>11, <2>3, <3>1, <3>2
  <2>4. \A f \in End : OnceQ(queue'[f])
    BY <1>8, <1>9 DEF OwnInv, Owned
  <2>5. \A f \in End : OnceQ(queue[f])'
    BY <2>4 DEF OnceQ, OnceMsg, CarriesMsg
  <2>6. ASSUME NEW f \in End, NEW g \in End, NEW e \in End,
               Carries(queue'[f], e), Carries(queue'[g], e)
        PROVE  f = g
    <3>1. CASE e \in E
      <4>1. \A x \in End : ~Carries(queue[x], e)
        BY <1>7, <3>1 DEF Mail
      <4> QED
        BY <1>10, <2>6, <4>1
    <3>2. CASE e \notin E
      BY <1>10, <2>6, <3>2 DEF OwnInv, Owned
    <3> QED
      BY <3>1, <3>2
  <2>7. \A f, g, e \in End : Carries(queue[f], e)' /\ Carries(queue[g], e)' => f = g
    BY <2>6 DEF Carries, CarriesMsg
  <2> QED
    BY <2>1, <2>2, <2>3, <2>5, <2>7 DEF Owned
<1>17. Opens'
  <2> SUFFICES ASSUME NEW h \in Handle, disp'[h].kind = "pipe", ~disp'[h].closed
               PROVE  disp'[h].port = gen'[disp'[h].res] \/ HandedOver(h)'
    BY DEF Opens
  <2> DEFINE e == disp[h].res
  <2>1. e \in End /\ disp[h].kind = "pipe" /\ ~disp[h].closed
    BY <1>1 DEF OwnInv, Ends, PipeEnd
  <2>2. disp[h].port = gen[e] \/ HandedOver(h)
    BY <2>1 DEF OwnInv, Opens
  <2>3. CASE HandedOver(h)
    <3>1. PICK u \in Thread : call[u].at = "finish" /\ call[u].sent /\ h \in ToSet(call[u].hs)
      BY <2>3 DEF HandedOver
    <3>2. call'[u] = call[u]
      BY <1>6, <3>1
    <3> QED
      BY <3>1, <3>2 DEF HandedOver
  <2>4. CASE disp[h].port = gen[e] /\ e \notin E
    BY <1>1, <1>12, <2>1, <2>4
  <2>5. CASE disp[h].port = gen[e] /\ e \in E
    <3>1. Holds(h, e)
      BY <2>1, <2>5 DEF Holds
    <3>2. PICK k \in ToSet(hs) : k \in Handle /\ Holds(k, e)
      BY <1>4, <2>5
    <3>3. h = k
      BY <2>1, <3>1, <3>2 DEF OwnInv, Owned
    <3>4. hs # <<>>
      BY <3>2 DEF ToSet
    <3>5. call'[t].at = "finish" /\ call'[t].sent /\ h \in ToSet(call'[t].hs)
      BY <1>5, <1>6, <3>2, <3>3, <3>4
    <3> QED
      BY <3>5 DEF HandedOver
  <2> QED
    BY <2>2, <2>3, <2>4, <2>5
<1> QED
  BY <1>15, <1>16, <1>17 DEF OwnInv
-----------------------------------------------------------------------------
(* What a write returns.                                                   *)

\* A call moves on, or none does.
LEMMA SentMoves ==
  ASSUME TypeOK, SentOK, NEW t \in Thread, NEW c \in CallRec, Moves(t, c), SentRec(c)
  PROVE  SentOK'
<1>1. call'[t] = c /\ \A u \in Thread : u # t => call'[u] = call[u]
  BY MovesIs
<1>2. \A u \in Thread : SentRec(call'[u])
  BY <1>1 DEF SentOK
<1> QED
  BY <1>2 DEF SentOK, SentRec

\* A call that ends, and one that starts, has sent nothing.
LEMMA SentNot ==
  /\ SentRec(Idle)
  /\ \A at, h, hs : SentRec(Starts(at, h, hs)) /\ SentRec([Idle EXCEPT !.at = at, !.h = h])
BY DEF SentRec, Idle, Starts

\* A write that goes on has sent nothing yet.
LEMMA SentYet ==
  ASSUME TypeOK, SentOK, NEW t \in Thread, call[t].at # "finish", NEW at
  PROVE  SentRec([call[t] EXCEPT !.at = at])
<1>1. call[t] \in CallRec /\ SentRec(call[t])
  BY CallOf DEF SentOK
<1>2. ~call[t].ok /\ ~call[t].sent
  BY <1>1 DEF SentRec
<1> DEFINE c == [call[t] EXCEPT !.at = at]
<1>3. c.ok = call[t].ok /\ c.sent = call[t].sent
  BY <1>1 DEF CallRec
<1> QED
  BY <1>2, <1>3 DEF SentRec

\* What SendMessage returns.
LEMMA SentDone ==
  ASSUME TypeOK, NEW t \in Thread
  PROVE  /\ SentRec(SendDone(call[t], TRUE, TRUE)) /\ SentRec(SendDone(call[t], FALSE, FALSE))
         /\ MayFail => SentRec(SendDone(call[t], TRUE, FALSE))
<1>1. call[t] \in CallRec
  BY CallOf
<1>2. CASE call[t].hs = <<>>
  BY <1>2, SentNot DEF SendDone
<1>3. CASE call[t].hs # <<>>
  BY <1>1, <1>3 DEF SendDone, Finishes, CallRec, SentRec
<1> QED
  BY <1>2, <1>3

\* A call that has looked at its dispatcher or at its port ends or goes on.
LEMMA CheckMoves ==
  ASSUME TypeOK, NEW t \in Thread,
         CheckWrite(t) \/ CheckRead(t) \/ ReadNothing(t) \/ TellPeerClosed(t)
  PROVE  /\ call[t].at # "finish"
         /\ \/ Moves(t, Idle)
            \/ \E at \in {"send", "peerClosed", "finish", "read"} :
                 Moves(t, [call[t] EXCEPT !.at = at])
<1>1. call \in [Thread -> CallRec]
  BY DEF TypeOK, CallRec
<1>2. CASE CheckWrite(t)
  BY <1>1, <1>2 DEF CheckWrite, At, Moves
<1>3. CASE CheckRead(t)
  BY <1>1, <1>3 DEF CheckRead, At, Moves
<1>4. CASE ReadNothing(t)
  BY <1>1, <1>4 DEF ReadNothing, At, Moves
<1>5. CASE TellPeerClosed(t)
  BY <1>1, <1>5 DEF TellPeerClosed, At, Moves
<1> QED
  BY <1>2, <1>3, <1>4, <1>5

\* A write that succeeded without its message is one whose EndSerialize failed.
LEMMA SentStep ==
  ASSUME TypeOK, TableInv, SentOK, [Next]_vars
  PROVE  SentOK'
<1>1. CASE call' = call
  BY <1>1 DEF SentOK, SentRec
<1>2. ASSUME NEW t \in Thread, call' = [call EXCEPT ![t] = Idle] PROVE SentOK'
  BY <1>2, SentMoves, SentNot, IdleIs DEF Moves
<1>3. ASSUME NEW t \in Thread, NEW h \in table,
             \/ \E hs \in Bundles : WriteMessage(t, h, hs)
             \/ ReadMessage(t, h) \/ UseBuffer(t, h) \/ Close(t, h)
      PROVE  SentOK'
  <2>1. h \in Handle
    BY DEF TypeOK
  <2>2. ASSUME NEW hs \in Bundles, WriteMessage(t, h, hs) PROVE SentOK'
    <3> DEFINE at == IF hs = <<>> THEN "check" ELSE "begin"
    <3>1. Moves(t, Starts(at, h, hs))
      BY <2>2 DEF WriteMessage, Moves, Starts
    <3>2. hs \in Seq(Handle) /\ at \in {"begin", "check", "checkRead", "close", "buffer"}
      BY CoreAssumption DEF Handle
    <3> HIDE DEF at
    <3>3. Starts(at, h, hs) \in CallRec
      BY <2>1, <3>2, StartsIs, Zenon
    <3>4. SentRec(Starts(at, h, hs))
      BY SentNot, Zenon
    <3> QED
      BY <3>1, <3>3, <3>4, SentMoves, Zenon
  <2>3. ASSUME NEW at \in {"checkRead", "buffer", "close"},
               Moves(t, [Idle EXCEPT !.at = at, !.h = h])
        PROVE  SentOK'
    <3> DEFINE c == [Idle EXCEPT !.at = at, !.h = h]
    <3>1. c \in CallRec /\ SentRec(c)
      BY <2>1, CallStarts, SentNot
    <3> HIDE DEF c
    <3> QED
      BY <2>3, <3>1, SentMoves DEF c
  <2> QED
    BY <1>3, <2>2, <2>3 DEF ReadMessage, UseBuffer, Close, Moves
<1>4. ASSUME NEW t \in Thread,
             NEW at \in {"check", "send", "peerClosed", "finish", "read", "closePort"},
             call[t].at # "finish", Moves(t, [call[t] EXCEPT !.at = at])
      PROVE  SentOK'
  <2> DEFINE c == [call[t] EXCEPT !.at = at]
  <2>1. c \in CallRec /\ SentRec(c)
    <3>1. call[t] \in CallRec
      BY CallOf
    <3>2. c \in CallRec
      BY <3>1 DEF CallRec
    <3> QED
      BY <1>4, <3>2, SentYet, Zenon
  <2> HIDE DEF c
  <2> QED
    BY <1>4, <2>1, SentMoves DEF c
<1>5. ASSUME NEW t \in Thread, SendMessage(t) PROVE SentOK'
  <2>1. call[t].at = "send" /\ (SendFails(t) \/ Sends(t) \/ SendRefused(t))
    BY <1>5, SendIs
  <2>2. /\ SendDone(call[t], TRUE, TRUE) \in CallRec
        /\ SendDone(call[t], FALSE, FALSE) \in CallRec
        /\ SendDone(call[t], TRUE, FALSE) \in CallRec
    <3>1. TRUE \in BOOLEAN /\ FALSE \in BOOLEAN
      OBVIOUS
    <3> QED
      BY <2>1, <3>1, SendDoneIs, Zenon
  <2>3. \/ MayFail /\ Moves(t, SendDone(call[t], TRUE, FALSE))
        \/ Moves(t, SendDone(call[t], TRUE, TRUE))
        \/ Moves(t, SendDone(call[t], FALSE, FALSE))
        \/ Moves(t, [call[t] EXCEPT !.at = "peerClosed"])
    <3>1. SendRefused(t) => \/ Moves(t, SendDone(call[t], FALSE, FALSE))
                           \/ Moves(t, [call[t] EXCEPT !.at = "peerClosed"])
      BY Zenon DEF SendRefused, Refusals
    <3> QED
      BY <2>1, <3>1, Zenon DEF SendFails, Sends
  <2>4. CASE Moves(t, [call[t] EXCEPT !.at = "peerClosed"])
    BY <1>4, <2>1, <2>4
  <2> QED
    BY <2>2, <2>3, <2>4, SentMoves, SentDone, Zenon
<1>6. ASSUME NEW t \in Thread,
             \/ BeginTransit(t) \/ CheckWrite(t) \/ CheckRead(t) \/ ClosePipe(t)
             \/ ReadNothing(t) \/ TellPeerClosed(t)
      PROVE  SentOK'
  <2>1. call[t].at # "finish"
    BY <1>6, CheckMoves DEF BeginTransit, ClosePipe, At
  <2>2. \/ call' = [call EXCEPT ![t] = Idle]
        \/ \E at \in {"check", "send", "peerClosed", "finish", "read", "closePort"} :
             Moves(t, [call[t] EXCEPT !.at = at])
    <3>1. call \in [Thread -> CallRec]
      BY DEF TypeOK, CallRec
    <3>2. CASE BeginTransit(t)
      BY <3>1, <3>2 DEF BeginTransit, Moves
    <3>3. CASE CheckWrite(t) \/ CheckRead(t) \/ ReadNothing(t) \/ TellPeerClosed(t)
      BY <3>3, CheckMoves DEF Moves
    <3>4. CASE ClosePipe(t)
      BY <3>1, <3>4 DEF ClosePipe, Moves
    <3> QED
      BY <1>6, <3>2, <3>3, <3>4
  <2> QED
    BY <1>2, <1>4, <2>1, <2>2
<1>7. ASSUME NEW t \in Thread,
             \/ CompleteTransitAndClose(t) \/ CancelTransit(t)
             \/ ReadDiscards(t) \/ ReadTakes(t) \/ CloseThing(t) \/ ClosePort(t)
             \/ MapBuffer(t) \/ DuplicateBufferHandle(t)
      PROVE  SentOK'
  <2>1. call' = [call EXCEPT ![t] = Idle]
    BY <1>7, Zenon DEF CompleteTransitAndClose, CancelTransit, ReadDiscards, ReadTakes,
       CloseThing, ClosePort, MapBuffer, DuplicateBufferHandle
  <2> QED
    BY <1>2, <2>1
<1>8. ASSUME \/ CreateMessagePipe \/ CreateSharedBuffer \/ CreatePlatformHandleWrapper
             \/ \E t \in Thread, h \in table : PassWrappedPlatformHandle(t, h)
             \/ \E h \in event : OnPortStatusChanged(h)
             \/ \E w \in Waits : WaitFor(w[1], w[2])
             \/ AddAwakable \/ RemoveAwakable \/ UNCHANGED vars
      PROVE  call' = call
  BY <1>8, Zenon DEF CreateMessagePipe, CreateSharedBuffer, CreatePlatformHandleWrapper,
     Create, PassWrappedPlatformHandle, OnPortStatusChanged, WaitFor, AddAwakable,
     RemoveAwakable, vars
<1> QED
  BY <1>1, <1>3, <1>5, <1>6, <1>7, <1>8 DEF Next, Continue

-----------------------------------------------------------------------------
(* The ends of pipes, step by step.                                        *)

\* A call that moves on and leaves every dispatcher alone.
LEMMA OwnCalls ==
  ASSUME TypeOK, TableInv, OwnInv, NEW t \in Thread, call[t].at # "finish",
         \E c \in CallRec : Moves(t, c) /\ c.at # "closePort",
         UNCHANGED <<pipes, gen, shut, queue, disp>>
  PROVE  OwnInv'
<1>1. PICK c \in CallRec : Moves(t, c) /\ c.at # "closePort"
  OBVIOUS
<1> QED
  BY <1>1, OwnMoves

\* Calls that begin, or look at their dispatcher, or end without a change.
LEMMA PlainCalls ==
  ASSUME TypeOK, TableInv, NEW t \in Thread,
         \/ \E h \in table, hs \in Bundles : WriteMessage(t, h, hs)
         \/ \E h \in table : ReadMessage(t, h) \/ UseBuffer(t, h) \/ Close(t, h)
         \/ CheckWrite(t) \/ CheckRead(t) \/ ReadNothing(t) \/ TellPeerClosed(t)
         \/ MapBuffer(t)
         \/ BeginTransit(t) /\ ~Begins(call[t].hs)
  PROVE  /\ call[t].at # "finish" /\ \E c \in CallRec : Moves(t, c) /\ c.at # "closePort"
         /\ UNCHANGED <<pipes, gen, shut, queue, disp, event>>
<1>1. Idle \in CallRec /\ Idle.at # "closePort" /\ Idle.at # "finish"
  BY IdleIs
<1>2. ASSUME NEW h \in table, NEW hs \in Bundles, WriteMessage(t, h, hs)
      PROVE  \E c \in CallRec : Moves(t, c) /\ c.at # "closePort"
  <2> DEFINE at == IF hs = <<>> THEN "check" ELSE "begin"
  <2>1. Moves(t, Starts(at, h, hs))
    BY <1>2 DEF WriteMessage, Moves, Starts
  <2>2. hs \in Seq(Handle) /\ at \in {"begin", "check", "checkRead", "close", "buffer"}
        /\ h \in Handle
    BY CoreAssumption DEF Handle, TypeOK
  <2> HIDE DEF at
  <2>3. Starts(at, h, hs) \in CallRec /\ Starts(at, h, hs).at = at
    <3>1. Starts(at, h, hs) \in CallRec
      BY <2>2, StartsIs, Zenon
    <3>2. Starts(at, h, hs).at = at
      BY DEF Starts, Idle
    <3> QED
      BY <3>1, <3>2
  <2> DEFINE c == Starts(at, h, hs)
  <2>4. c \in CallRec /\ Moves(t, c) /\ c.at = at
    BY <2>1, <2>3
  <2> HIDE DEF c
  <2> QED
    BY <2>2, <2>4
<1>3. ASSUME NEW h \in table, ReadMessage(t, h) \/ UseBuffer(t, h) \/ Close(t, h)
      PROVE  \E c \in CallRec : Moves(t, c) /\ c.at # "closePort"
  <2>1. PICK at \in {"checkRead", "buffer", "close"} : Moves(t, [Idle EXCEPT !.at = at, !.h = h])
    BY <1>3 DEF ReadMessage, UseBuffer, Close, Moves
  <2>2. h \in Handle
    BY DEF TypeOK
  <2> DEFINE c == [Idle EXCEPT !.at = at, !.h = h]
  <2>3. c \in CallRec /\ c.at = at
    <3>1. c \in CallRec
      BY <2>2, CallStarts
    <3>2. c.at = at
      BY DEF Idle
    <3> QED
      BY <3>1, <3>2
  <2> HIDE DEF c
  <2> QED
    BY <2>1, <2>3 DEF c
<1>4. ASSUME \/ CheckWrite(t) \/ CheckRead(t) \/ ReadNothing(t) \/ TellPeerClosed(t)
      PROVE  \E c \in CallRec : Moves(t, c) /\ c.at # "closePort"
  <2>1. call \in [Thread -> CallRec]
    BY DEF TypeOK, CallRec
  <2>2. \/ Moves(t, Idle)
        \/ \E at \in {"send", "peerClosed", "finish", "read"} : Moves(t, [call[t] EXCEPT !.at = at])
    BY <1>4, CheckMoves
  <2>3. ASSUME NEW at \in {"send", "peerClosed", "finish", "read"},
               Moves(t, [call[t] EXCEPT !.at = at])
        PROVE  \E c \in CallRec : Moves(t, c) /\ c.at # "closePort"
    <3> DEFINE c == [call[t] EXCEPT !.at = at]
    <3>1. c \in CallRec /\ c.at = at
      BY <2>1 DEF CallRec
    <3> HIDE DEF c
    <3> QED
      BY <2>3, <3>1 DEF c
  <2> QED
    BY <1>1, <2>2, <2>3
<1>5. ASSUME MapBuffer(t) \/ (BeginTransit(t) /\ ~Begins(call[t].hs))
      PROVE  \E c \in CallRec : Moves(t, c) /\ c.at # "closePort"
  <2>1. Moves(t, Idle)
    BY <1>5 DEF MapBuffer, BeginTransit, Moves
  <2> QED
    BY <1>1, <2>1
<1>6. call[t].at # "finish"
  BY <1>1 DEF WriteMessage, ReadMessage, UseBuffer, Close, Calls, CheckWrite, CheckRead,
     ReadNothing, TellPeerClosed, MapBuffer, BeginTransit, At
<1>7. UNCHANGED <<pipes, gen, shut, queue, disp, event>>
  BY DEF WriteMessage, ReadMessage, UseBuffer, Close, CheckWrite, CheckRead,
     ReadNothing, TellPeerClosed, MapBuffer, BeginTransit, nodeVars
<1> QED
  BY <1>2, <1>3, <1>4, <1>5, <1>6, <1>7

\* BeginTransit marks dispatchers; CompleteTransitAndClose closes those whose
\* ports are gone; CancelTransit ends a write whose message was not sent.
LEMMA OwnTransit ==
  ASSUME TypeOK, TableInv, OwnInv, SentOK, NEW t \in Thread,
         \/ BeginTransit(t) /\ Begins(call[t].hs)
         \/ CompleteTransitAndClose(t) \/ CancelTransit(t)
  PROVE  OwnInv'
<1> DEFINE hs == ToSet(call[t].hs)
<1>1. /\ call[t] \in CallRec /\ call[t].hs \in Seq(Handle) /\ hs \subseteq Handle
      /\ call \in [Thread -> CallRec]
  <2>1. call[t] \in CallRec /\ call[t].hs \in Seq(Handle)
    BY CallOf
  <2> QED
    BY <2>1, ToSetIs DEF TypeOK, CallRec
<1>2. UNCHANGED <<pipes, gen, shut, queue>>
  BY DEF BeginTransit, CompleteTransitAndClose, CancelTransit, nodeVars
<1>3. CASE BeginTransit(t) /\ Begins(call[t].hs)
  <2> DEFINE c == [call[t] EXCEPT !.at = "check"]
  <2>1. /\ call[t].at = "begin" /\ disp' = Marked(hs, TRUE) /\ Moves(t, c)
    BY <1>1, <1>3 DEF BeginTransit, At, Moves
  <2>2. c \in CallRec /\ c.at = "check"
    BY <1>1 DEF CallRec
  <2> HIDE DEF c, hs
  <2>3. \A h \in Handle : /\ disp'[h].kind = disp[h].kind /\ disp'[h].res = disp[h].res
                          /\ disp'[h].port = disp[h].port
                          /\ disp[h].closed => disp'[h].closed
    BY <1>1, <2>1, MarkedOn
  <2> QED
    BY <1>2, <2>1, <2>2, <2>3, OwnMoves
<1>4. CASE CompleteTransitAndClose(t)
  <2>1. /\ Moves(t, Idle)
        /\ disp' = [h \in Handle |-> IF h \in hs THEN Transferred(disp[h]) ELSE disp[h]]
    BY <1>4 DEF CompleteTransitAndClose, Moves
  <2> HIDE DEF hs
  <2>2. \A h \in Handle : /\ disp'[h].kind = disp[h].kind /\ disp'[h].res = disp[h].res
                          /\ disp'[h].port = disp[h].port
                          /\ disp[h].closed => disp'[h].closed
                          /\ h \in hs => disp'[h].closed
    <3> SUFFICES ASSUME NEW h \in Handle
                 PROVE  /\ disp'[h].kind = disp[h].kind /\ disp'[h].res = disp[h].res
                        /\ disp'[h].port = disp[h].port
                        /\ disp[h].closed => disp'[h].closed
                        /\ h \in hs => disp'[h].closed
      OBVIOUS
    <3>1. disp[h] \in Dispatcher
      BY DispOf
    <3> QED
      BY <2>1, <3>1, TransferredIs
  <2>3. \A h \in ToSet(call[t].hs) : disp'[h].closed
    BY <1>1, <2>2 DEF hs
  <2> QED
    BY <1>2, <2>1, <2>2, <2>3, OwnMoves, IdleIs
<1>5. CASE CancelTransit(t)
  <2>1. /\ Moves(t, Idle) /\ disp' = Marked(hs, FALSE) /\ ~call[t].ok
    BY <1>5 DEF CancelTransit, Moves, WriteOK
  <2>2. ~call[t].sent
    BY <2>1 DEF SentOK, SentRec
  <2> HIDE DEF hs
  <2>3. \A h \in Handle : /\ disp'[h].kind = disp[h].kind /\ disp'[h].res = disp[h].res
                          /\ disp'[h].port = disp[h].port
                          /\ disp[h].closed => disp'[h].closed
    BY <1>1, <2>1, MarkedOff
  <2> QED
    BY <1>2, <2>1, <2>2, <2>3, OwnMoves, IdleIs
<1> QED
  BY <1>3, <1>4, <1>5

\* Close of a message pipe's dispatcher: its port is closed next.
LEMMA PipeCloses ==
  ASSUME TypeOK, TableInv, NEW t \in Thread, ClosePipe(t)
  PROVE  /\ call[t].at = "close" /\ call[t].h \in Handle /\ call[t].h \notin table
         /\ call[t].h \notin busy /\ disp[call[t].h].kind = "pipe"
         /\ UNCHANGED <<table, busy, next, event, calls, failed>> /\ UNCHANGED nodeVars
         /\ \/ disp[call[t].h].closed /\ Moves(t, Idle) /\ UNCHANGED <<disp, waiter>>
            \/ /\ ~disp[call[t].h].closed /\ disp' = [disp EXCEPT ![call[t].h].closed = TRUE]
               /\ CancelAll({call[t].h}) /\ Moves(t, [call[t] EXCEPT !.at = "closePort"])
<1> DEFINE g == call[t].h
<1>1. /\ call[t].at = "close" /\ disp[g].kind = "pipe"
      /\ UNCHANGED <<table, busy, next, event, calls, failed>> /\ UNCHANGED nodeVars
  BY DEF ClosePipe, At
<1>2. g \in Handle /\ g \notin table /\ g \notin busy /\ ~disp[g].inTransit
  BY <1>1 DEF TableInv, CallsOK, CallOK, Transit
<1>3. CASE disp[g].closed
  <2>1. Moves(t, Idle) /\ UNCHANGED <<disp, waiter>>
    BY <1>3 DEF ClosePipe, Moves
  <2> QED
    BY <1>1, <1>2, <1>3, <2>1
<1>4. CASE ~disp[g].closed
  <2>1. ~disp[g].transferred
    BY <1>2, <1>4 DEF TableInv, Tables
  <2>2. /\ disp' = [disp EXCEPT ![g].closed = TRUE] /\ CancelAll({g})
        /\ Moves(t, [call[t] EXCEPT !.at = "closePort"])
    BY <1>2, <1>4, <2>1 DEF ClosePipe, Moves, TypeOK
  <2> QED
    BY <1>1, <1>2, <1>4, <2>2
<1> QED
  BY <1>3, <1>4

\* The other dispatchers.
LEMMA ThingCloses ==
  ASSUME TypeOK, TableInv, NEW t \in Thread, CloseThing(t)
  PROVE  /\ call[t].at = "close" /\ call[t].h \in Handle /\ disp[call[t].h].kind # "pipe"
         /\ Moves(t, Idle) /\ disp' = [disp EXCEPT ![call[t].h].closed = TRUE]
         /\ UNCHANGED <<table, busy, next, event, waiter, calls, failed>>
         /\ UNCHANGED nodeVars
<1> DEFINE g == call[t].h
<1>1. /\ call[t].at = "close" /\ disp[g].kind # "pipe" /\ Moves(t, Idle)
      /\ UNCHANGED <<table, busy, next, event, waiter, calls, failed>>
      /\ UNCHANGED nodeVars
  BY DEF CloseThing, At, Moves
<1>2. g \in Handle /\ ~disp[g].inTransit
  BY <1>1 DEF TableInv, CallsOK, CallOK, Transit
<1>3. disp' = [disp EXCEPT ![g].closed = TRUE]
  <2>1. (disp[g].closed \/ ~disp[g].inTransit) = TRUE
    BY <1>2
  <2>2. disp' = [disp EXCEPT ![g].closed = disp[g].closed \/ ~disp[g].inTransit]
    BY DEF CloseThing
  <2> QED
    BY <2>1, <2>2
<1> QED
  BY <1>1, <1>2, <1>3

\* A dispatcher that is closed lets go of its end, or hands it to the call that
\* closes its port.
LEMMA OwnCloses ==
  ASSUME TypeOK, TableInv, OwnInv, NEW t \in Thread,
         \/ ClosePipe(t) \/ CloseThing(t)
         \/ \E g \in table : PassWrappedPlatformHandle(t, g)
  PROVE  OwnInv'
<1>1. ASSUME NEW g \in Handle, disp' = [disp EXCEPT ![g].closed = TRUE]
      PROVE  \A h \in Handle : /\ disp'[h].kind = disp[h].kind /\ disp'[h].res = disp[h].res
                               /\ disp'[h].port = disp[h].port
                               /\ disp[h].closed => disp'[h].closed
  <2>1. \A h \in Handle : /\ disp'[h].kind = disp[h].kind /\ disp'[h].res = disp[h].res
                          /\ disp'[h].port = disp[h].port
                          /\ h = g => disp'[h].closed
                          /\ h # g => disp'[h] = disp[h]
    BY <1>1, ClosedIs
  <2> QED
    BY <2>1
<1>2. CASE ClosePipe(t)
  <2> DEFINE g == call[t].h
  <2>1. /\ call[t].at = "close" /\ g \in Handle /\ g \notin table
        /\ g \notin busy /\ disp[g].kind = "pipe" /\ UNCHANGED <<pipes, gen, shut, queue>>
        /\ \/ disp[g].closed /\ Moves(t, Idle) /\ UNCHANGED <<disp, waiter>>
           \/ /\ ~disp[g].closed /\ disp' = [disp EXCEPT ![g].closed = TRUE]
              /\ Moves(t, [call[t] EXCEPT !.at = "closePort"])
    BY <1>2, PipeCloses DEF nodeVars
  <2>2. CASE disp[g].closed /\ Moves(t, Idle) /\ UNCHANGED <<disp, waiter>>
    BY <2>1, <2>2, OwnMoves, IdleIs
  <2>3. CASE /\ ~disp[g].closed /\ disp' = [disp EXCEPT ![g].closed = TRUE]
             /\ Moves(t, [call[t] EXCEPT !.at = "closePort"])
    <3> DEFINE c == [call[t] EXCEPT !.at = "closePort"]
    <3>1. c \in CallRec /\ c.h = g /\ c.at = "closePort"
      <4>1. call[t] \in CallRec
        BY CallOf
      <4> QED
        BY <4>1 DEF CallRec
    <3>2. disp[g].port = gen[disp[g].res]
      <4>1. ~HandedOver(g)
        <5>1. ASSUME NEW u \in Thread, call[u].at = "finish", g \in ToSet(call[u].hs)
              PROVE  FALSE
          BY <2>1, <5>1, CarriedHas DEF Carrying
        <5> QED
          BY <5>1 DEF HandedOver
      <4> QED
        BY <2>1, <2>3, <4>1 DEF OwnInv, Opens
    <3>3. disp'[g].closed
      BY <2>1, <2>3, ClosedIs
    <3>4. \A h \in Handle : /\ disp'[h].kind = disp[h].kind /\ disp'[h].res = disp[h].res
                            /\ disp'[h].port = disp[h].port
                            /\ disp[h].closed => disp'[h].closed
      BY <1>1, <2>1, <2>3
    <3>5. Moves(t, c)
      BY <2>3
    <3> HIDE DEF c, g
    <3>6. call[t].at # "finish"
      BY <2>1
    <3> QED
      BY <2>1, <2>3, <3>1, <3>2, <3>3, <3>4, <3>5, <3>6, OwnMoves
  <2> QED
    BY <2>1, <2>2, <2>3
<1>3. CASE CloseThing(t)
  <2>1. /\ call[t].at = "close" /\ call[t].h \in Handle /\ Moves(t, Idle)
        /\ disp' = [disp EXCEPT ![call[t].h].closed = TRUE]
        /\ UNCHANGED <<pipes, gen, shut, queue>>
    BY <1>3, ThingCloses DEF nodeVars
  <2>2. \A h \in Handle : /\ disp'[h].kind = disp[h].kind /\ disp'[h].res = disp[h].res
                          /\ disp'[h].port = disp[h].port
                          /\ disp[h].closed => disp'[h].closed
    BY <1>1, <2>1
  <2> QED
    BY <2>1, <2>2, OwnMoves, IdleIs
<1>4. ASSUME NEW g \in table, PassWrappedPlatformHandle(t, g) PROVE OwnInv'
  <2>1. /\ call[t] = Idle /\ UNCHANGED <<call, pipes, gen, shut, queue>> /\ g \in Handle
        /\ disp' = disp \/ disp' = [disp EXCEPT ![g].closed = TRUE]
    BY <1>4 DEF PassWrappedPlatformHandle, Calls, Passed, nodeVars, TypeOK
  <2>2. Moves(t, Idle)
    BY <2>1 DEF Moves, TypeOK
  <2>3. \A h \in Handle : /\ disp'[h].kind = disp[h].kind /\ disp'[h].res = disp[h].res
                          /\ disp'[h].port = disp[h].port
                          /\ disp[h].closed => disp'[h].closed
    BY <1>1, <2>1
  <2> QED
    BY <2>1, <2>2, <2>3, OwnMoves, IdleIs
<1> QED
  BY <1>2, <1>3, <1>4

\* A write sends its message, or closes a buffer, or is refused.
LEMMA OwnWrites ==
  ASSUME TypeOK, TableInv, OwnInv, NEW t \in Thread, SendMessage(t)
  PROVE  OwnInv'
<1>1. /\ call[t].at = "send" /\ UNCHANGED <<pipes, shut>>
      /\ SendFails(t) \/ Sends(t) \/ SendRefused(t)
  BY SendIs
<1>2. TRUE \in BOOLEAN /\ FALSE \in BOOLEAN
  OBVIOUS
<1>3. CASE SendFails(t)
  <2> DEFINE c == SendDone(call[t], TRUE, FALSE)
             bad == Unserializable(call[t].hs)
  <2>1. /\ Moves(t, c) /\ UNCHANGED <<queue, gen>>
        /\ disp' = [h \in Handle |-> IF h \in bad
                      THEN [disp[h] EXCEPT !.closed = TRUE] ELSE disp[h]]
    BY <1>3, Zenon DEF SendFails
  <2>2. c \in CallRec /\ c.at \in {"idle", "finish"}
    BY <1>1, <1>2, SendDoneIs, Zenon
  <2> HIDE DEF c, bad
  <2>3. \A h \in Handle : /\ disp'[h].kind = disp[h].kind /\ disp'[h].res = disp[h].res
                          /\ disp'[h].port = disp[h].port
                          /\ disp[h].closed => disp'[h].closed
    <3> SUFFICES ASSUME NEW h \in Handle
                 PROVE  /\ disp'[h].kind = disp[h].kind /\ disp'[h].res = disp[h].res
                        /\ disp'[h].port = disp[h].port
                        /\ disp[h].closed => disp'[h].closed
      OBVIOUS
    <3>1. disp[h] \in Dispatcher
      BY DispOf
    <3>2. disp'[h] = IF h \in bad THEN [disp[h] EXCEPT !.closed = TRUE] ELSE disp[h]
      BY <2>1
    <3> QED
      BY <3>1, <3>2 DEF Dispatcher
  <2>4. c.at # "closePort"
    BY <2>2
  <2> QED
    BY <1>1, <2>1, <2>2, <2>3, <2>4, OwnMoves
<1>4. CASE Sends(t)
  BY <1>1, <1>4, OwnSends
<1>5. CASE SendRefused(t)
  <2>1. PICK c \in Refusals(call[t]) : Moves(t, c) /\ UNCHANGED <<queue, gen, disp>>
    BY <1>5, Zenon DEF SendRefused
  <2>2. c \in CallRec /\ c.at \in {"idle", "finish", "peerClosed"}
    BY <1>1, RefusedIs, Zenon
  <2>3. c.at # "closePort"
    BY <2>2
  <2> QED
    BY <1>1, <2>1, <2>2, <2>3, OwnMoves
<1> QED
  BY <1>1, <1>3, <1>4, <1>5

\* New buffers and platform handles.
LEMMA OwnMakes ==
  ASSUME TypeOK, TableInv, OwnInv,
         \/ \E kind \in {"buffer", "platform"} : Create(kind)
         \/ \E t \in Thread : DuplicateBufferHandle(t)
  PROVE  OwnInv'
<1>1. ASSUME NEW kind \in {"buffer", "platform"}, Create(kind) PROVE OwnInv'
  <2> DEFINE d == New(kind, NoEnd, 0)
  <2>1. /\ Adds(d) /\ Quits /\ UNCHANGED <<pipes, gen, shut, queue>>
    BY <1>1, CreateAdds, QuitsNone DEF Create, nodeVars
  <2>2. d.kind # "pipe"
    BY DEF New
  <2> HIDE DEF d
  <2> QED
    BY <2>1, <2>2, OwnCreatesOne
<1>2. ASSUME NEW t \in Thread, DuplicateBufferHandle(t) PROVE OwnInv'
  <2> DEFINE d == Duplicate(disp[call[t].h])
  <2>1. /\ call[t].at = "buffer" /\ call' = [call EXCEPT ![t] = Idle]
        /\ UNCHANGED <<pipes, gen, shut, queue>>
    BY <1>2 DEF DuplicateBufferHandle, At, nodeVars
  <2>2. CASE disp[call[t].h].closed
    <3>1. disp' = disp /\ Moves(t, Idle) /\ Idle \in CallRec /\ Idle.at # "closePort"
      BY <1>2, <2>1, <2>2, IdleIs DEF DuplicateBufferHandle, Moves
    <3> QED
      BY <2>1, <3>1, OwnCalls
  <2>3. CASE ~disp[call[t].h].closed
    <3>1. Adds(d) /\ Quits
      BY <1>2, <2>1, <2>3, QuitsOne, DuplicateAdds
    <3>2. d.kind # "pipe"
      BY DEF Duplicate, New
    <3> HIDE DEF d
    <3> QED
      BY <2>1, <3>1, <3>2, OwnCreatesOne
  <2> QED
    BY <2>2, <2>3
<1> QED
  BY <1>1, <1>2

\* Nothing that the invariant is about changes.
LEMMA OwnSame ==
  ASSUME OwnInv, UNCHANGED <<pipes, gen, shut, queue, disp, call>>
  PROVE  OwnInv'
<1>1. \A e : (Mail(e)' <=> Mail(e)) /\ (Parting(e)' <=> Parting(e))
  BY DEF Mail, Parting, Carries, CarriesMsg
<1>2. \A h, e : (Holds(h, e)' <=> Holds(h, e)) /\ (HandedOver(h)' <=> HandedOver(h))
  BY DEF Holds, HandedOver
<1>3. Ends'
  BY DEF OwnInv, Ends, EndsOK, PipeEnd
<1>4. Owned'
  BY <1>1, <1>2 DEF OwnInv, Owned, OnceQ, OnceMsg, Carries, CarriesMsg
<1>5. Opens'
  BY <1>2 DEF OwnInv, Opens
<1> QED
  BY <1>3, <1>4, <1>5 DEF OwnInv

\* Every end has one owner at most, after every step that does not overflow.
LEMMA OwnStep ==
  ASSUME TypeOK, TableInv, OwnInv, SentOK, [Next]_vars, "overflow" \notin failed'
  PROVE  OwnInv'
<1>1. CASE CreateMessagePipe
  BY <1>1, OwnCreates
<1>2. ASSUME NEW kind \in {"buffer", "platform"}, Create(kind) PROVE OwnInv'
  BY <1>2, OwnMakes
<1>3. ASSUME NEW t \in Thread,
             \/ \E h \in table, hs \in Bundles : WriteMessage(t, h, hs)
             \/ \E h \in table : ReadMessage(t, h) \/ UseBuffer(t, h) \/ Close(t, h)
             \/ CheckWrite(t) \/ CheckRead(t) \/ ReadNothing(t) \/ TellPeerClosed(t)
             \/ MapBuffer(t)
             \/ BeginTransit(t) /\ ~Begins(call[t].hs)
      PROVE  OwnInv'
  BY <1>3, PlainCalls, OwnCalls
<1>4. ASSUME NEW t \in Thread,
             \/ BeginTransit(t) /\ Begins(call[t].hs)
             \/ CompleteTransitAndClose(t) \/ CancelTransit(t)
      PROVE  OwnInv'
  BY <1>4, OwnTransit
<1>5. ASSUME NEW t \in Thread,
             \/ ClosePipe(t) \/ CloseThing(t)
             \/ \E g \in table : PassWrappedPlatformHandle(t, g)
      PROVE  OwnInv'
  BY <1>5, OwnCloses
<1>6. ASSUME NEW t \in Thread,
             \/ SendMessage(t) \/ ReadDiscards(t) \/ ClosePort(t) \/ DuplicateBufferHandle(t)
      PROVE  OwnInv'
  BY <1>6, OwnWrites, OwnDiscards, OwnClosesPort, OwnMakes
<1>7. ASSUME NEW t \in Thread, ReadTakes(t) PROVE OwnInv'
  BY <1>7, OwnTakes, OwnUntaken
<1>8. ASSUME \/ \E h \in event : OnPortStatusChanged(h)
             \/ \E w \in Waits : WaitFor(w[1], w[2])
             \/ AddAwakable \/ RemoveAwakable
      PROVE  OwnInv'
  BY <1>8, OwnSame DEF OnPortStatusChanged, WaitFor, AddAwakable, RemoveAwakable, nodeVars
<1>9. CASE UNCHANGED vars
  BY <1>9, OwnSame DEF vars
<1> QED
  BY <1>1, <1>2, <1>3, <1>4, <1>5, <1>6, <1>7, <1>8, <1>9
  DEF Next, Continue, CreateSharedBuffer, CreatePlatformHandleWrapper

-----------------------------------------------------------------------------
(* Waiting.                                                                *)

\* Events are for message pipes, and a thread waits on a pipe; one that is closed
\* has nobody in its list.
Waiting ==
  /\ \A h \in event : disp[h].kind = "pipe"
  /\ waiter.at # "none" => waiter.h \in Handle /\ disp[waiter.h].kind = "pipe"
  /\ waiter.at = "added" => ~disp[waiter.h].closed

\* The waiter is left alone, or told.
Tells == waiter' = waiter \/ (waiter.at = "added" /\ waiter' = Awoken)

LEMMA TellsIs ==
  ASSUME TypeOK, Tells
  PROVE  /\ waiter'.h = waiter.h
         /\ waiter'.at # "none" => waiter.at # "none"
         /\ waiter'.at = "added" => waiter' = waiter
BY DEF TypeOK, Tells, Awoken, Wait

Sound == TypeOK /\ TableInv /\ OwnInv

\* Dispatchers of message pipes keep their end and port, and do not come back.
Lasts ==
  \A h \in Handle : disp[h].kind = "pipe" =>
    /\ disp'[h].kind = "pipe" /\ disp'[h].res = disp[h].res /\ disp'[h].port = disp[h].port
    /\ gen[disp[h].res] <= gen'[disp[h].res]
    /\ h \in table' => h \in table

\* The node knows the port of an open dispatcher that is not in transit.
LEMMA OpenReceives ==
  ASSUME Sound, NEW h \in Handle, disp[h].kind = "pipe", ~disp[h].closed
  PROVE  /\ disp[h].res \in End
         /\ Receives(disp[h]) \/ (h \in busy /\ disp[h].inTransit)
         /\ disp[h].port = gen[disp[h].res] => Receives(disp[h])
<1>1. disp[h].res \in End
  BY DEF Sound, OwnInv, Ends, PipeEnd
<1>2. ASSUME HandedOver(h) PROVE h \in busy /\ disp[h].inTransit
  <2>1. PICK u \in Thread : call[u].at = "finish" /\ h \in ToSet(call[u].hs)
    BY <1>2 DEF HandedOver
  <2> QED
    BY <2>1, CarriedHas DEF Carrying, Sound
<1>3. ASSUME disp[h].port = gen[disp[h].res] PROVE Receives(disp[h])
  <2>1. Holds(h, disp[h].res)
    BY <1>3 DEF Holds
  <2> QED
    BY <1>1, <1>3, <2>1 DEF Sound, OwnInv, Owned, Receives
<1>4. disp[h].port = gen[disp[h].res] \/ HandedOver(h)
  BY DEF Sound, OwnInv, Opens
<1> QED
  BY <1>1, <1>2, <1>3, <1>4

\* A step after which a wait that ought to end is still about to be woken.
LEMMA Wakes ==
  ASSUME Sound, Waiting, NoLostWakeup, Sound', Lasts,
         Tells,
         \A h \in event' : h \in event \/ disp[h].kind = "pipe",
         NEW h, h = waiter.h,
         waiter'.at = "added" =>
           /\ disp'[h].closed => disp[h].closed
           /\ Awakes(h, disp[h]) => (h \in event => h \in event') /\ (h \in busy => h \in busy')
           /\ disp[h].port = gen'[disp[h].res] /\ disp[h].res \notin shut' =>
                \/ h \in event'
                \/ /\ queue'[disp[h].res] # <<>> => queue[disp[h].res] # <<>>
                   /\ Peer(disp[h].res) \in shut' <=> Peer(disp[h].res) \in shut
  PROVE  Waiting' /\ NoLostWakeup'
<1>1. event' \subseteq Handle
  BY DEF Sound, TypeOK
<1>2. \A g \in event' : disp'[g].kind = "pipe"
  BY <1>1 DEF Lasts, Waiting
<1>3. CASE waiter'.at # "added"
  <2>1. TypeOK
    BY DEF Sound
  <2>2. waiter'.h = waiter.h /\ (waiter'.at # "none" => waiter.at # "none")
    BY <2>1, TellsIs
  <2>3. waiter'.at # "none" => waiter'.h \in Handle /\ disp'[waiter'.h].kind = "pipe"
    BY <2>2 DEF Waiting, Lasts
  <2>4. Waiting'
    BY <1>2, <1>3, <2>3 DEF Waiting
  <2>5. ~Awakes(waiter.h, disp[waiter.h])'
    BY <1>3 DEF Awakes
  <2> QED
    BY <2>4, <2>5 DEF NoLostWakeup
<1>4. CASE waiter'.at = "added"
  <2>1. /\ waiter' = waiter /\ waiter'.h = h /\ waiter.h = h /\ h \in Handle
        /\ disp[h].kind = "pipe" /\ ~disp[h].closed /\ waiter.at = "added"
    <3>1. TypeOK
      BY DEF Sound
    <3>2. waiter' = waiter
      BY <1>4, <3>1, TellsIs
    <3> QED
      BY <1>4, <3>2 DEF Waiting
  <2>2. /\ disp'[h].kind = "pipe" /\ ~disp'[h].closed /\ disp'[h].res = disp[h].res
        /\ disp'[h].port = disp[h].port /\ gen[disp[h].res] <= gen'[disp[h].res]
        /\ h \in table' => h \in table
    BY <1>4, <2>1 DEF Lasts
  <2>3. Waiting'
    BY <1>2, <2>1, <2>2 DEF Waiting
  <2> DEFINE res == disp[h].res
             due == waiter'.h \in event' \/ waiter'.h \in busy' \/
                    \E t \in Thread : call'[t].at = "close" /\ call'[t].h = waiter'.h
  <2>4. /\ res \in End /\ disp[h].port <= gen[res] /\ disp[h].port \in Nat
        /\ gen[res] \in Nat /\ gen'[res] \in Nat
    <3>1. res \in End /\ disp[h].port <= gen[res]
      BY <2>1 DEF Sound, OwnInv, Ends, PipeEnd
    <3> QED
      BY <2>1, <3>1, DispOf DEF Sound, TypeOK
  <2>5. \/ disp'[h].port = gen'[res] /\ res \notin shut'
        \/ h \in busy'
    <3>1. ASSUME HandedOver(h)' PROVE h \in busy'
      <4>1. PICK u \in Thread : call'[u].at = "finish" /\ h \in ToSet(call'[u].hs)
        BY <3>1 DEF HandedOver
      <4>2. Carried(call'[u]) \subseteq busy'
        BY DEF Sound, TableInv, Transit, Carried
      <4> QED
        BY <4>1, <4>2 DEF Carried, Carrying
    <3>2. disp'[h].port = gen'[res] \/ HandedOver(h)'
      BY <2>1, <2>2 DEF Sound, OwnInv, Opens
    <3>3. ASSUME disp'[h].port = gen'[res] PROVE res \notin shut'
      <4>1. PICK e \in End : e = res
        BY <2>4
      <4>2. Holds(h, e)'
        BY <2>2, <3>3, <4>1 DEF Holds
      <4> QED
        BY <2>1, <4>1, <4>2 DEF Sound, OwnInv, Owned
    <3> QED
      BY <3>1, <3>2, <3>3
  <2>6. ASSUME Awakes(h, disp[h]) PROVE due
    <3>1. /\ h \in event => h \in event'
          /\ h \in busy => h \in busy'
      BY <1>4, <2>6
    <3>2. \/ h \in event \/ h \in busy
          \/ \E t \in Thread : call[t].at = "close" /\ call[t].h = h
      BY <1>4, <2>1, <2>6 DEF NoLostWakeup
    <3>3. ASSUME NEW t \in Thread, call[t].at = "close", call[t].h = h PROVE due
      <4>1. h \notin table'
        BY <2>2, <3>3 DEF Sound, TableInv, CallsOK, CallOK
      <4>2. \/ h \in table' \/ disp'[h].closed
            \/ \E u \in Thread : call'[u].at = "close" /\ call'[u].h = h
        BY <2>1 DEF Sound, TableInv, Tables
      <4> QED
        BY <2>1, <2>2, <4>1, <4>2
    <3> QED
      BY <2>1, <3>1, <3>2, <3>3
  <2>7. ASSUME Awakes(waiter.h, disp[waiter.h])' PROVE due
    <3>1. CASE h \in busy' \/ h \in event'
      BY <2>1, <3>1
    <3>2. CASE ~(h \in busy' \/ h \in event')
      <4>1. /\ disp'[h].port = gen'[res] /\ res \notin shut'
            /\ queue'[res] # <<>> => queue[res] # <<>>
            /\ Peer(res) \in shut' <=> Peer(res) \in shut
        BY <1>4, <2>2, <2>5, <3>2
      <4>2. disp[h].port = gen[res]
        BY <2>2, <2>4, <4>1
      <4>3. Receives(disp[h])
        BY <2>1, <4>2, OpenReceives
      <4>4. LET s == waiter.signal
            IN \/ /\ s = "readable" /\ queue'[res] # <<>>
               \/ s = "writable" /\ Peer(res) \notin shut'
               \/ s = "peerClosed" /\ Peer(res) \in shut'
               \/ ~ \/ s = "peerClosed"
                    \/ s = "readable" /\ (queue'[res] # <<>> \/ Peer(res) \notin shut')
                    \/ s = "writable" /\ Peer(res) \notin shut'
        BY <2>1, <2>2, <2>7, <4>1 DEF Awakes, Satisfies, CanSatisfy, Receives, PeerClosed
      <4>5. Awakes(h, disp[h])
        BY <2>1, <4>1, <4>3, <4>4 DEF Awakes, Satisfies, CanSatisfy, PeerClosed
      <4> QED
        BY <2>6, <4>5
    <3> QED
      BY <3>1, <3>2
  <2> QED
    BY <2>3, <2>7 DEF NoLostWakeup
<1> QED
  BY <1>3, <1>4

\* Dispatchers that keep what they refer to.
LEMMA LastsKept ==
  ASSUME Sound, gen' = gen, table' \subseteq table,
         \A h \in Handle : /\ disp'[h].kind = disp[h].kind /\ disp'[h].res = disp[h].res
                           /\ disp'[h].port = disp[h].port
  PROVE  Lasts
<1> SUFFICES ASSUME NEW h \in Handle, disp[h].kind = "pipe"
             PROVE  gen[disp[h].res] <= gen'[disp[h].res]
  BY DEF Lasts
<1>1. disp[h].res \in End
  BY DEF Sound, OwnInv, Ends, PipeEnd
<1>2. gen[disp[h].res] \in Nat
  BY <1>1 DEF Sound, TypeOK
<1> QED
  BY <1>2

\* New dispatchers get handles that were never given out.
LEMMA LastsNew ==
  ASSUME Sound, gen' = gen,
         \A h \in Handle : disp[h] = None \/ (disp'[h] = disp[h] /\ (h \in table' => h \in table))
  PROVE  Lasts
<1> SUFFICES ASSUME NEW h \in Handle, disp[h].kind = "pipe"
             PROVE  /\ disp'[h] = disp[h] /\ (h \in table' => h \in table)
                    /\ gen[disp[h].res] <= gen'[disp[h].res]
  BY DEF Lasts
<1>1. disp[h] # None
  BY NoneIs
<1>2. disp[h].res \in End
  BY DEF Sound, OwnInv, Ends, PipeEnd
<1>3. gen[disp[h].res] \in Nat
  BY <1>2 DEF Sound, TypeOK
<1> QED
  BY <1>1, <1>3

\* A step that changes neither ports nor events.
LEMMA WakesSame ==
  ASSUME Sound, Waiting, NoLostWakeup, Sound', Lasts,
         Tells,
         UNCHANGED <<gen, shut, queue, event>>,
         waiter'.at = "added" =>
           /\ disp'[waiter.h].closed => disp[waiter.h].closed
           /\ Awakes(waiter.h, disp[waiter.h]) => (waiter.h \in busy => waiter.h \in busy')
  PROVE  Waiting' /\ NoLostWakeup'
<1> DEFINE h == waiter.h
<1>1. \A g \in event' : g \in event \/ disp[g].kind = "pipe"
  OBVIOUS
<1>2. waiter'.at = "added" =>
           /\ disp'[h].closed => disp[h].closed
           /\ Awakes(h, disp[h]) => (h \in event => h \in event') /\ (h \in busy => h \in busy')
           /\ disp[h].port = gen'[disp[h].res] /\ disp[h].res \notin shut' =>
                \/ h \in event'
                \/ /\ queue'[disp[h].res] # <<>> => queue[disp[h].res] # <<>>
                   /\ Peer(disp[h].res) \in shut' <=> Peer(disp[h].res) \in shut
  OBVIOUS
<1>3. h = waiter.h
  OBVIOUS
<1> HIDE DEF h
<1> QED
  BY <1>1, <1>2, <1>3, Wakes

\* What the waiter's list does with it.
LEMMA WaiterIs ==
  ASSUME NEW hs, NEW h, NEW d,
         \/ UNCHANGED waiter \/ CancelAll(hs) \/ WakeCancelled(hs)
         \/ AwakeForStateChange(h, d)
  PROVE  Tells
BY DEF CancelAll, WakeCancelled, AwakeForStateChange, Awakes, Tells

\* Calls that begin, or look at their dispatcher, or end without a change.
LEMMA WakesPlain ==
  ASSUME Sound, Waiting, NoLostWakeup, Sound', NEW t \in Thread,
         \/ \E h \in table, hs \in Bundles : WriteMessage(t, h, hs)
         \/ \E h \in table : ReadMessage(t, h) \/ UseBuffer(t, h) \/ Close(t, h)
         \/ CheckWrite(t) \/ CheckRead(t) \/ ReadNothing(t) \/ TellPeerClosed(t)
         \/ MapBuffer(t)
         \/ BeginTransit(t) /\ ~Begins(call[t].hs)
  PROVE  Waiting' /\ NoLostWakeup'
<1>1. UNCHANGED <<gen, shut, queue, disp, event>>
  BY PlainCalls DEF Sound
<1>2. busy' = busy /\ table' \subseteq table
  BY DEF WriteMessage, ReadMessage, UseBuffer, Close, CheckWrite, CheckRead,
     ReadNothing, TellPeerClosed, MapBuffer, BeginTransit
<1>3. Tells
  BY WaiterIs DEF WriteMessage, ReadMessage, UseBuffer, Close, CheckWrite, CheckRead,
     ReadNothing, TellPeerClosed, MapBuffer, BeginTransit, nodeVars
<1>4. Lasts
  BY <1>1, <1>2, LastsKept
<1> QED
  BY <1>1, <1>2, <1>3, <1>4, WakesSame

\* Transit: what a cancelled transit may have kept from a waiter wakes it.
LEMMA WakesTransit ==
  ASSUME Sound, Waiting, NoLostWakeup, Sound', NEW t \in Thread,
         \/ BeginTransit(t) /\ Begins(call[t].hs)
         \/ CompleteTransitAndClose(t) \/ CancelTransit(t)
  PROVE  Waiting' /\ NoLostWakeup'
<1> DEFINE hs == ToSet(call[t].hs)
<1>1. TypeOK /\ call[t].hs \in Seq(Handle) /\ hs \in SUBSET Handle
  <2>1. TypeOK /\ call[t].hs \in Seq(Handle)
    BY CallOf DEF Sound
  <2> QED
    BY <2>1, ToSetIs
<1>2. UNCHANGED <<gen, shut, queue, event>> /\ table' \subseteq table
  BY DEF BeginTransit, CompleteTransitAndClose, CancelTransit, nodeVars
<1>3. CASE BeginTransit(t) /\ Begins(call[t].hs)
  <2>1. disp' = Marked(hs, TRUE) /\ busy' = busy \cup hs /\ waiter' = waiter
    BY <1>3 DEF BeginTransit
  <2> HIDE DEF hs
  <2>2. \A h \in Handle : /\ disp'[h].kind = disp[h].kind /\ disp'[h].res = disp[h].res
                          /\ disp'[h].port = disp[h].port
                          /\ (disp'[h].closed <=> disp[h].closed)
    BY <1>1, <2>1, MarkedOn
  <2>3. Lasts
    BY <1>2, <2>2, LastsKept
  <2> QED
    BY <1>2, <2>1, <2>2, <2>3, WakesSame DEF Waiting, Tells
<1>4. CASE CompleteTransitAndClose(t)
  <2>1. /\ disp' = [h \in Handle |-> IF h \in hs THEN Transferred(disp[h]) ELSE disp[h]]
        /\ busy' = busy \ hs /\ CancelAll(hs)
    BY <1>4 DEF CompleteTransitAndClose
  <2> HIDE DEF hs
  <2>2. Tells
    BY <2>1, WaiterIs
  <2>3. \A h \in Handle : /\ disp'[h].kind = disp[h].kind /\ disp'[h].res = disp[h].res
                          /\ disp'[h].port = disp[h].port
                          /\ h \notin hs => disp'[h] = disp[h]
    <3> SUFFICES ASSUME NEW h \in Handle
                 PROVE  /\ disp'[h].kind = disp[h].kind /\ disp'[h].res = disp[h].res
                        /\ disp'[h].port = disp[h].port
                        /\ h \notin hs => disp'[h] = disp[h]
      OBVIOUS
    <3>1. disp[h] \in Dispatcher
      BY <1>1, DispOf
    <3> QED
      BY <2>1, <3>1, TransferredIs
  <2>4. Lasts
    BY <1>2, <2>3, LastsKept
  <2>5. waiter'.at = "added" => waiter.h \notin hs /\ waiter.h \in Handle
    BY <1>1, <2>1, <2>2, TellsIs DEF CancelAll, Waiting, Awoken, TypeOK, Wait
  <2> QED
    BY <1>2, <2>1, <2>2, <2>3, <2>4, <2>5, WakesSame
<1>5. CASE CancelTransit(t)
  <2>1. disp' = Marked(hs, FALSE) /\ busy' = busy \ hs /\ WakeCancelled(hs)
    BY <1>5 DEF CancelTransit
  <2> HIDE DEF hs
  <2>2. Tells
    BY <2>1, WaiterIs
  <2>3. \A h \in Handle : /\ disp'[h].kind = disp[h].kind /\ disp'[h].res = disp[h].res
                          /\ disp'[h].port = disp[h].port
                          /\ (disp'[h].closed <=> disp[h].closed)
    BY <1>1, <2>1, MarkedOff
  <2>4. Lasts
    BY <1>2, <2>3, LastsKept
  <2>5. waiter'.at = "added" =>
          /\ waiter.h \in Handle
          /\ waiter.h \notin hs \/ ~Awakes(waiter.h, disp[waiter.h])
    BY <1>1, <2>1, <2>2, TellsIs DEF WakeCancelled, Waiting, Awoken, TypeOK, Wait
  <2> QED
    BY <1>2, <2>1, <2>2, <2>3, <2>4, <2>5, WakesSame
<1> QED
  BY <1>3, <1>4, <1>5

\* A dispatcher that is closed cancels those who wait.
LEMMA WakesCloses ==
  ASSUME Sound, Waiting, NoLostWakeup, Sound', NEW t \in Thread,
         \/ ClosePipe(t) \/ CloseThing(t)
         \/ \E g \in table : PassWrappedPlatformHandle(t, g)
  PROVE  Waiting' /\ NoLostWakeup'
<1>1. TypeOK /\ TableInv
  BY DEF Sound
<1>2. ASSUME NEW g \in Handle, disp' = [disp EXCEPT ![g].closed = TRUE],
             UNCHANGED <<gen, shut, queue, event, busy>>, table' \subseteq table,
             CancelAll({g}) \/ (waiter' = waiter /\ disp[g].kind # "pipe")
      PROVE  Waiting' /\ NoLostWakeup'
  <2>1. \A h \in Handle : /\ disp'[h].kind = disp[h].kind /\ disp'[h].res = disp[h].res
                          /\ disp'[h].port = disp[h].port
                          /\ h # g => disp'[h] = disp[h]
    BY <1>1, <1>2, ClosedIs
  <2>2. Lasts
    BY <1>2, <2>1, LastsKept
  <2>3. Tells
    BY <1>2, WaiterIs DEF Tells
  <2>4. waiter'.at = "added" => waiter.h # g /\ waiter.h \in Handle
    BY <1>1, <1>2, <2>3, TellsIs DEF CancelAll, Waiting, Awoken, TypeOK, Wait
  <2> QED
    BY <1>2, <2>1, <2>2, <2>3, <2>4, WakesSame
<1>3. CASE ClosePipe(t)
  <2> DEFINE g == call[t].h
  <2>1. /\ g \in Handle /\ UNCHANGED <<gen, shut, queue, event, busy, table>>
        /\ \/ UNCHANGED <<disp, waiter>>
           \/ disp' = [disp EXCEPT ![g].closed = TRUE] /\ CancelAll({g})
    BY <1>1, <1>3, PipeCloses DEF nodeVars
  <2> HIDE DEF g
  <2>2. CASE UNCHANGED <<disp, waiter>>
    <3>1. Lasts
      BY <2>1, <2>2, LastsKept
    <3> QED
      BY <2>1, <2>2, <3>1, WakesSame DEF Tells
  <2> QED
    BY <1>2, <2>1, <2>2
<1>4. CASE CloseThing(t)
  <2>1. /\ call[t].h \in Handle /\ UNCHANGED <<gen, shut, queue, event, busy, table, waiter>>
        /\ disp[call[t].h].kind # "pipe" /\ disp' = [disp EXCEPT ![call[t].h].closed = TRUE]
    BY <1>1, <1>4, ThingCloses DEF nodeVars
  <2> QED
    BY <1>2, <2>1
<1>5. ASSUME NEW g \in table, PassWrappedPlatformHandle(t, g)
      PROVE  Waiting' /\ NoLostWakeup'
  <2>1. /\ g \in Handle /\ UNCHANGED <<gen, shut, queue, event, busy, waiter>>
        /\ table' \subseteq table
    BY <1>1, <1>5 DEF PassWrappedPlatformHandle, nodeVars, TypeOK
  <2>2. CASE disp[g].kind = "platform"
    <3>1. disp' = [disp EXCEPT ![g].closed = TRUE]
      BY <1>5, <2>2 DEF PassWrappedPlatformHandle, Passed
    <3> QED
      BY <1>2, <2>1, <2>2, <3>1
  <2>3. CASE disp[g].kind # "platform"
    <3>1. disp' = disp
      BY <1>5, <2>3 DEF PassWrappedPlatformHandle
    <3>2. Lasts
      BY <2>1, <3>1, LastsKept
    <3> QED
      BY <2>1, <3>1, <3>2, WakesSame DEF Tells
  <2> QED
    BY <2>2, <2>3
<1> QED
  BY <1>3, <1>4, <1>5

\* New handles leave the waits on others alone.
LEMMA WakesCreates ==
  ASSUME Sound, Waiting, NoLostWakeup, Sound',
         \/ CreateMessagePipe
         \/ \E kind \in {"buffer", "platform"} : Create(kind)
         \/ \E t \in Thread : DuplicateBufferHandle(t)
  PROVE  Waiting' /\ NoLostWakeup'
<1>1. /\ next \in 0..LastHandle /\ LastHandle \in Nat /\ disp \in [Handle -> Dispatcher]
      /\ TableInv /\ TypeOK
  BY CoreAssumption DEF Sound, TypeOK
<1>2. UNCHANGED <<gen, shut, queue, event, busy, waiter>>
  BY DEF CreateMessagePipe, Create, DuplicateBufferHandle, nodeVars
<1>3. next # INVALID => \A h \in Handle : h >= next => disp[h] = None
  BY <1>1 DEF TableInv, Tables
<1>4. ASSUME NEW d, Adds(d)
      PROVE  \A h \in Handle : disp[h] = None \/ (disp'[h] = disp[h] /\ (h \in table' => h \in table))
  BY <1>1, <1>3, <1>4 DEF Adds, AddDispatcher, OutOfHandles, Handle, INVALID
<1>5. \A h \in Handle : disp[h] = None \/ (disp'[h] = disp[h] /\ (h \in table' => h \in table))
  <2>1. CASE CreateMessagePipe
    <3>1. CASE next = INVALID \/ After(next) = INVALID
      BY <2>1, <3>1 DEF CreateMessagePipe, OutOfHandles
    <3>2. CASE next # INVALID /\ After(next) # INVALID
      <4> DEFINE a == next
                 b == After(next)
                 x == New("pipe", <<pipes + 1, 0>>, 0)
                 y == New("pipe", <<pipes + 1, 1>>, 0)
      <4>1. a \in Handle /\ b \in Handle /\ a >= next /\ b >= next
        BY <1>1, <3>2, AfterIs DEF INVALID, Handle
      <4>2. table' = table \cup {a, b} /\ disp' = [disp EXCEPT ![a] = x, ![b] = y]
        BY <2>1, <3>2 DEF CreateMessagePipe
      <4> HIDE DEF a, b, x, y
      <4>3. disp[a] = None /\ disp[b] = None
        BY <1>3, <3>2, <4>1
      <4>4. \A h \in Handle : h # a /\ h # b =>
              disp'[h] = disp[h] /\ (h \in table' => h \in table)
        BY <1>1, <4>2
      <4> QED
        BY <4>3, <4>4
    <3> QED
      BY <3>1, <3>2
  <2>2. ASSUME NEW kind \in {"buffer", "platform"}, Create(kind)
        PROVE  \A h \in Handle : disp[h] = None \/ (disp'[h] = disp[h] /\ (h \in table' => h \in table))
    BY <1>4, <2>2, CreateAdds
  <2>3. ASSUME NEW t \in Thread, DuplicateBufferHandle(t)
        PROVE  \A h \in Handle : disp[h] = None \/ (disp'[h] = disp[h] /\ (h \in table' => h \in table))
    <3>1. \/ UNCHANGED <<table, disp>> \/ Adds(Duplicate(disp[call[t].h]))
      BY <2>3, DuplicateAdds DEF DuplicateBufferHandle
    <3> QED
      BY <1>4, <3>1
  <2> QED
    BY <2>1, <2>2, <2>3
<1>6. Lasts
  BY <1>2, <1>5, LastsNew
<1>7. waiter'.at = "added" => (disp'[waiter.h].closed => disp[waiter.h].closed)
  BY <1>2, <1>5, NoneIs DEF Waiting
<1> QED
  BY <1>2, <1>6, <1>7, WakesSame DEF Tells

\* A read takes a message: a wait for it is about to end anyway.
LEMMA WakesTakes ==
  ASSUME Sound, Waiting, NoLostWakeup, Sound', NEW t \in Thread,
         \/ ReadDiscards(t)
         \/ /\ ReadTakes(t) /\ "overflow" \notin failed'
            /\ next # INVALID \/ Head(queue[disp[call[t].h].res]) = <<>>
  PROVE  Waiting' /\ NoLostWakeup'
<1> DEFINE f == disp[call[t].h].res
           cargo == Head(queue[f])
           to == FromTransit(cargo)
<1>1. /\ call[t].at = "read" /\ queue[f] # <<>> /\ queue' = [queue EXCEPT ![f] = Tail(@)]
      /\ UNCHANGED <<gen, shut, event, busy, waiter>>
  BY DEF ReadDiscards, ReadTakes, At
<1>2. TypeOK /\ TableInv /\ Ends
  BY DEF Sound, OwnInv
<1>3. f \in End /\ queue[f] \in Seq(Seq(Cargo)) /\ queue \in [End -> Seq(Seq(Cargo))]
  BY <1>1, <1>2, ReadFinds DEF TypeOK
<1>4. \A e \in End : queue'[e] # <<>> => queue[e] # <<>>
  BY <1>1, <1>3
<1>5. \A h \in Handle : disp[h] = None \/ (disp'[h] = disp[h] /\ (h \in table' => h \in table))
  <2>1. CASE ReadDiscards(t)
    BY <2>1 DEF ReadDiscards
  <2>2. CASE /\ ReadTakes(t) /\ "overflow" \notin failed'
             /\ next # INVALID \/ cargo = <<>>
    <3>1. /\ table' = table \cup (ToSet(to) \ {INVALID})
          /\ disp' = [h \in Handle |->
                        IF \E i \in DOMAIN to : to[i] = h
                        THEN Deserialized(cargo[CHOOSE i \in DOMAIN to : to[i] = h])
                        ELSE disp[h]]
          /\ failed' = failed \cup (IF INVALID \in ToSet(to) THEN {"overflow"} ELSE {})
      BY <2>2 DEF ReadTakes
    <3>2. INVALID \notin ToSet(to)
      BY <2>2, <3>1
    <3>3. cargo \in Seq(Cargo)
      BY <1>1, <1>3
    <3> HIDE DEF cargo
    <3>4. /\ \A h \in Handle : h \notin ToSet(to) => disp'[h] = disp[h]
          /\ \A h \in ToSet(to) : h >= next
      BY <1>2, <2>2, <3>1, <3>2, <3>3, TakesIs
    <3>5. \A h \in ToSet(to) : next # INVALID
      <4>1. CASE cargo = <<>>
        BY <4>1 DEF ToSet, FromTransit
      <4> QED
        BY <2>2, <4>1
    <3>6. \A h \in Handle : h \in ToSet(to) => disp[h] = None
      BY <1>2, <3>4, <3>5 DEF TableInv, Tables
    <3> HIDE DEF to
    <3> QED
      BY <3>1, <3>4, <3>6
  <2> QED
    BY <2>1, <2>2
<1>6. Lasts
  BY <1>1, <1>5, LastsNew
<1> DEFINE h == waiter.h
<1>7. waiter'.at = "added" => /\ disp'[h].closed => disp[h].closed
                              /\ disp[h].res \in End
  BY <1>1, <1>2, <1>5, NoneIs DEF Waiting, Ends, PipeEnd
<1>8. h = waiter.h /\ \A g \in event' : g \in event \/ disp[g].kind = "pipe"
  BY <1>1
<1>9. waiter'.at = "added" =>
           /\ disp'[h].closed => disp[h].closed
           /\ Awakes(h, disp[h]) => (h \in event => h \in event') /\ (h \in busy => h \in busy')
           /\ disp[h].port = gen'[disp[h].res] /\ disp[h].res \notin shut' =>
                \/ h \in event'
                \/ /\ queue'[disp[h].res] # <<>> => queue[disp[h].res] # <<>>
                   /\ Peer(disp[h].res) \in shut' <=> Peer(disp[h].res) \in shut
  BY <1>1, <1>4, <1>7
<1> HIDE DEF h
<1> QED
  BY <1>1, <1>6, <1>8, <1>9, Wakes DEF Tells

\* Ports are closed: the node tells those who observe their peers.
LEMMA WakesPorts ==
  ASSUME Sound, Waiting, NoLostWakeup, Sound', NEW t \in Thread,
         \/ ClosePort(t)
         \/ /\ ReadTakes(t)
            /\ ~(next # INVALID \/ Head(queue[disp[call[t].h].res]) = <<>>)
  PROVE  Waiting' /\ NoLostWakeup'
<1> DEFINE f == disp[call[t].h].res
           cargo == Head(queue[f])
           ends == {c.res : c \in {x \in ToSet(cargo) : x.kind = "pipe"}}
<1>1. UNCHANGED <<table, busy, gen, disp, waiter>>
  BY DEF ClosePort, ReadTakes
<1>2. TypeOK /\ TableInv /\ Ends
  BY DEF Sound, OwnInv
<1>3. \E all \in SUBSET End :
        /\ shut' = shut \cup all
        /\ event' = event \cup Observers({Peer(e) : e \in all} \ (shut \cup all))
        /\ \A e \in End : queue'[e] # <<>> => queue[e] # <<>>
  <2>1. CASE ClosePort(t)
    <3>1. call[t].at = "closePort" /\ ClosePorts({f})
      BY <2>1 DEF ClosePort, At
    <3>2. f \in End
      BY <1>2, <3>1, ReadFinds
    <3> DEFINE all == Inside({f})
    <3>3. all \in SUBSET End
      BY <1>2, <3>2, InsideIs
    <3>4. /\ shut' = shut \cup all
          /\ event' = event \cup Observers({Peer(e) : e \in all} \ (shut \cup all))
          /\ queue' = [e \in End |-> IF e \in all THEN <<>> ELSE queue[e]]
      BY <3>1 DEF ClosePorts
    <3> HIDE DEF all
    <3> QED
      BY <3>3, <3>4
  <2>2. CASE /\ ReadTakes(t) /\ ~(next # INVALID \/ cargo = <<>>)
    <3>1. call[t].at = "read" /\ queue[f] # <<>> /\ CloseUntaken(f, ends)
      BY <2>2 DEF ReadTakes, At
    <3>2. f \in End
      BY <1>2, <3>1, ReadFinds
    <3>3. \A j \in DOMAIN cargo : cargo[j].kind = "pipe" => cargo[j].res \in End
      BY <1>2, <3>1, <3>2, HeadIs DEF PipeEnd
    <3>4. ends \in SUBSET End
      BY <3>3 DEF ToSet
    <3> DEFINE all == Inside(ends)
    <3> HIDE DEF ends, f
    <3>5. all \in SUBSET End
      BY <1>2, <3>4, InsideIs
    <3>6. /\ shut' = shut \cup all
          /\ event' = event \cup Observers({Peer(e) : e \in all} \ (shut \cup all))
          /\ queue' = [e \in End |-> IF e \in all THEN <<>>
                                    ELSE IF e = f THEN Tail(queue[e]) ELSE queue[e]]
      BY <3>1 DEF CloseUntaken
    <3> HIDE DEF all
    <3>7. \A e \in End : queue'[e] # <<>> => queue[e] # <<>>
      BY <3>1, <3>6
    <3> QED
      BY <3>5, <3>6, <3>7
  <2> QED
    BY <2>1, <2>2
<1>4. PICK all \in SUBSET End :
        /\ shut' = shut \cup all
        /\ event' = event \cup Observers({Peer(e) : e \in all} \ (shut \cup all))
        /\ \A e \in End : queue'[e] # <<>> => queue[e] # <<>>
  BY <1>3
<1>5. Lasts
  BY <1>1, LastsKept
<1>6. \A g \in event' : g \in event \/ disp[g].kind = "pipe"
  BY <1>4 DEF Observers
<1> DEFINE h == waiter.h
           res == disp[h].res
<1>7. ASSUME waiter'.at = "added", disp[h].port = gen[res], res \notin shut',
             Peer(res) \in shut', Peer(res) \notin shut
      PROVE  h \in event'
  <2>1. h \in Handle /\ disp[h].kind = "pipe" /\ ~disp[h].closed /\ res \in End
    BY <1>1, <1>2, <1>7 DEF Waiting, Ends, PipeEnd
  <2>2. ~disp[h].transferred
    BY <1>2, <2>1 DEF TableInv, Tables
  <2>3. Peer(res) \in all /\ Peer(Peer(res)) = res /\ res \notin all /\ res \notin shut
    BY <1>4, <1>7, <2>1, PeerIs
  <2>4. res \in {Peer(e) : e \in all} \ (shut \cup all)
    BY <2>3
  <2> QED
    BY <1>4, <1>7, <2>1, <2>2, <2>4 DEF Observers
<1>8. waiter'.at = "added" => res \in End
  BY <1>1, <1>2 DEF Waiting, Ends, PipeEnd
<1>9. h = waiter.h
  OBVIOUS
<1>10. waiter'.at = "added" =>
           /\ disp'[h].closed => disp[h].closed
           /\ Awakes(h, disp[h]) => (h \in event => h \in event') /\ (h \in busy => h \in busy')
           /\ disp[h].port = gen'[disp[h].res] /\ disp[h].res \notin shut' =>
                \/ h \in event'
                \/ /\ queue'[disp[h].res] # <<>> => queue[disp[h].res] # <<>>
                   /\ Peer(disp[h].res) \in shut' <=> Peer(disp[h].res) \in shut
  BY <1>1, <1>4, <1>7, <1>8
<1> HIDE DEF h
<1> QED
  BY <1>1, <1>5, <1>6, <1>9, <1>10, Wakes DEF Tells

\* A message is sent: the node tells those who observe the port it goes to.
LEMMA WakesSends ==
  ASSUME Sound, Waiting, NoLostWakeup, Sound', NEW t \in Thread, SendMessage(t)
  PROVE  Waiting' /\ NoLostWakeup'
<1>1. /\ call[t].at = "send" /\ UNCHANGED <<table, busy, shut, waiter>> /\ Tells
      /\ SendFails(t) \/ Sends(t) \/ SendRefused(t)
  BY SendIs DEF Tells
<1>2. TypeOK /\ TableInv /\ Ends
  BY DEF Sound, OwnInv
<1>3. CASE SendFails(t)
  <2> DEFINE bad == Unserializable(call[t].hs)
  <2>1. /\ UNCHANGED <<queue, gen, event>>
        /\ disp' = [h \in Handle |-> IF h \in bad
                      THEN [disp[h] EXCEPT !.closed = TRUE] ELSE disp[h]]
    BY <1>3, Zenon DEF SendFails
  <2>2. \A h \in bad : disp[h].kind = "buffer"
    BY DEF Unserializable
  <2> HIDE DEF bad
  <2>3. \A h \in Handle : disp[h].kind = "pipe" => disp'[h] = disp[h]
    BY <2>1, <2>2
  <2>4. Lasts
    <3> SUFFICES ASSUME NEW h \in Handle, disp[h].kind = "pipe"
                 PROVE  gen[disp[h].res] <= gen'[disp[h].res]
      BY <1>1, <2>3 DEF Lasts
    <3>1. disp[h].res \in End
      BY <1>2 DEF Ends, PipeEnd
    <3>2. gen[disp[h].res] \in Nat
      BY <1>2, <3>1 DEF TypeOK
    <3> QED
      BY <2>1, <3>2
  <2>5. waiter'.at = "added" => (disp'[waiter.h].closed => disp[waiter.h].closed)
    BY <1>1, <2>1, <2>3 DEF Waiting
  <2> QED
    BY <1>1, <2>1, <2>4, <2>5, WakesSame
<1>4. CASE Sends(t)
  <2> DEFINE to == Peer(disp[call[t].h].res)
             m == CargoOf(call[t].hs)
             E == EndsOf(call[t].hs)
  <2>1. /\ queue' = [queue EXCEPT ![to] = Append(queue[to], m)]
        /\ gen' = [e \in End |-> IF e \in E THEN gen[e] + 1 ELSE gen[e]]
        /\ event' = event \cup Observers({to}) /\ UNCHANGED disp
    BY <1>4, Zenon DEF Sends
  <2> HIDE DEF to, m, E
  <2>2. \A e \in End : /\ gen[e] \in Nat /\ gen'[e] \in Nat /\ gen[e] <= gen'[e]
                       /\ e # to => queue'[e] = queue[e]
    <3>1. gen \in [End -> Nat] /\ queue \in [End -> Seq(Seq(Cargo))]
      BY <1>2 DEF TypeOK
    <3>2. \A e \in End : e # to => queue'[e] = queue[e]
      BY <2>1, <3>1
    <3>3. \A e \in End : gen'[e] = gen[e] + 1 \/ gen'[e] = gen[e]
      BY <2>1
    <3> QED
      BY <3>1, <3>2, <3>3
  <2>3. \A h \in Handle : disp[h].kind = "pipe" =>
          disp[h].res \in End /\ disp[h].port \in Nat /\ disp[h].port <= gen[disp[h].res]
    BY <1>2, DispOf DEF Ends, PipeEnd
  <2>4. Lasts
    BY <1>1, <2>1, <2>2, <2>3 DEF Lasts
  <2>5. \A g \in event' : g \in event \/ disp[g].kind = "pipe"
    BY <2>1 DEF Observers
  <2> DEFINE h == waiter.h
             res == disp[h].res
  <2>6. h = waiter.h
    OBVIOUS
  <2>7. waiter'.at = "added" => /\ h \in Handle /\ disp[h].kind = "pipe" /\ ~disp[h].closed
                                /\ ~disp[h].transferred
    BY <1>1, <1>2, <2>1 DEF Waiting, TableInv, Tables
  <2>8. ASSUME waiter'.at = "added", disp[h].port = gen'[res], res = to PROVE h \in event'
    <3>1. disp[h].port = gen[res]
      BY <2>2, <2>3, <2>7, <2>8
    <3> QED
      BY <2>1, <2>7, <2>8, <3>1 DEF Observers
  <2>9. waiter'.at = "added" =>
           /\ disp'[h].closed => disp[h].closed
           /\ Awakes(h, disp[h]) => (h \in event => h \in event') /\ (h \in busy => h \in busy')
           /\ disp[h].port = gen'[disp[h].res] /\ disp[h].res \notin shut' =>
                \/ h \in event'
                \/ /\ queue'[disp[h].res] # <<>> => queue[disp[h].res] # <<>>
                   /\ Peer(disp[h].res) \in shut' <=> Peer(disp[h].res) \in shut
    BY <1>1, <2>1, <2>2, <2>3, <2>7, <2>8
  <2> HIDE DEF h
  <2> QED
    BY <1>1, <2>1, <2>4, <2>5, <2>6, <2>9, Wakes
<1>5. CASE SendRefused(t)
  <2>1. UNCHANGED <<disp, queue, gen, event>>
    BY <1>5, Zenon DEF SendRefused
  <2>2. Lasts
    BY <1>1, <2>1, LastsKept
  <2> QED
    BY <1>1, <2>1, <2>2, WakesSame
<1> QED
  BY <1>1, <1>3, <1>4, <1>5

\* OnPortStatusChanged wakes whoever its event is for; the check that the node
\* knows the port does not fail.
LEMMA WakesEvent ==
  ASSUME Sound, Waiting, NoLostWakeup, Sound', NEW g \in event, OnPortStatusChanged(g)
  PROVE  Waiting' /\ NoLostWakeup' /\ failed' = failed
<1>1. /\ event' = event \ {g} /\ UNCHANGED <<table, busy, disp, gen, shut, queue>>
      /\ \/ disp[g].transferred /\ UNCHANGED <<waiter, failed>>
         \/ /\ ~disp[g].transferred /\ failed' = StatusCheck(disp[g])
            /\ AwakeForStateChange(g, disp[g])
  BY DEF OnPortStatusChanged, nodeVars
<1>2. g \in Handle /\ disp[g].kind = "pipe" /\ TypeOK /\ TableInv /\ Ends
  BY DEF Sound, TypeOK, Waiting, OwnInv
<1>3. failed' = failed
  <2>1. disp[g].closed \/ Receives(disp[g]) \/ disp[g].inTransit
    BY <1>2, OpenReceives
  <2> QED
    BY <1>1, <2>1 DEF StatusCheck, StatusOK
<1>4. Tells
  BY <1>1, WaiterIs
<1>5. Lasts
  BY <1>1, LastsKept
<1>6. \A x \in event' : x \in event \/ disp[x].kind = "pipe"
  BY <1>1
<1> DEFINE h == waiter.h
<1>7. h = waiter.h
  OBVIOUS
<1>8. ASSUME waiter'.at = "added", Awakes(h, disp[h]), h \in event PROVE h \in event'
  <2>1. h # g
    <3>1. CASE disp[g].transferred
      BY <1>1, <1>2, <1>8, <3>1 DEF Waiting, TableInv, Tables
    <3>2. CASE ~disp[g].transferred
      <4>1. waiter.at = "added" => waiter'.at = "over" \/ ~Awakes(g, disp[g])
        BY <1>1, <1>2, <3>2 DEF AwakeForStateChange, Awoken, TypeOK, Wait
      <4> QED
        BY <1>8, <4>1 DEF Awakes
    <3> QED
      BY <3>1, <3>2
  <2> QED
    BY <1>1, <1>8, <2>1
<1>9. waiter'.at = "added" =>
           /\ disp'[h].closed => disp[h].closed
           /\ Awakes(h, disp[h]) => (h \in event => h \in event') /\ (h \in busy => h \in busy')
           /\ disp[h].port = gen'[disp[h].res] /\ disp[h].res \notin shut' =>
                \/ h \in event'
                \/ /\ queue'[disp[h].res] # <<>> => queue[disp[h].res] # <<>>
                   /\ Peer(disp[h].res) \in shut' <=> Peer(disp[h].res) \in shut
  BY <1>1, <1>8
<1> HIDE DEF h
<1> QED
  BY <1>3, <1>4, <1>5, <1>6, <1>7, <1>9, Wakes

\* MojoWait waits only for what is not there and can still come; the checks that
\* the node knows the port do not fail.
LEMMA WakesWaits ==
  ASSUME Sound, Waiting, NoLostWakeup, Sound',
         (\E w \in Waits : WaitFor(w[1], w[2])) \/ AddAwakable \/ RemoveAwakable
  PROVE  Waiting' /\ NoLostWakeup' /\ failed' = failed
<1> DEFINE d == disp[waiter.h]
<1>1. UNCHANGED <<event, disp, gen, shut, queue>> /\ TypeOK
  BY DEF WaitFor, AddAwakable, RemoveAwakable, nodeVars, Sound
<1>2. ASSUME waiter'.at # "added", failed' = failed,
             waiter'.at # "none" => waiter'.h \in Handle /\ disp[waiter'.h].kind = "pipe"
      PROVE  Waiting' /\ NoLostWakeup' /\ failed' = failed
  <2>1. Waiting'
    BY <1>1, <1>2 DEF Waiting
  <2>2. ~Awakes(waiter.h, disp[waiter.h])'
    BY <1>2 DEF Awakes
  <2> QED
    BY <1>2, <2>1, <2>2 DEF NoLostWakeup
<1>3. ASSUME waiter.at # "none" PROVE StatusCheck(d) = failed
  <2>1. waiter.h \in Handle /\ d.kind = "pipe"
    BY <1>3 DEF Waiting
  <2>2. d.closed \/ Receives(d) \/ d.inTransit
    BY <2>1, OpenReceives
  <2> QED
    BY <2>2 DEF StatusCheck, StatusOK
<1>4. ASSUME NEW w \in Waits, WaitFor(w[1], w[2])
      PROVE  Waiting' /\ NoLostWakeup' /\ failed' = failed
  <2>1. /\ w[1] \in table /\ disp[w[1]].kind = "pipe" /\ failed' = failed
        /\ waiter' = [at |-> "asked", h |-> w[1], signal |-> w[2]]
    BY <1>4 DEF WaitFor
  <2>2. waiter'.at = "asked" /\ waiter'.h = w[1] /\ w[1] \in Handle
    BY <1>1, <2>1 DEF TypeOK
  <2> QED
    BY <1>2, <2>1, <2>2
<1>5. CASE AddAwakable
  <2> DEFINE open == ~d.closed /\ ~d.inTransit
             s == waiter.signal
             waits == open /\ ~Satisfies(d, s) /\ CanSatisfy(d, s)
  <2>1. /\ waiter.at = "asked" /\ failed' = (IF open THEN StatusCheck(d) ELSE failed)
        /\ waiter' = [waiter EXCEPT !.at = IF waits THEN "added" ELSE "over"]
    BY <1>5 DEF AddAwakable
  <2>2. failed' = failed /\ waiter.h \in Handle /\ disp[waiter.h].kind = "pipe"
    BY <1>3, <2>1 DEF Waiting
  <2>3. /\ waiter'.h = waiter.h /\ waiter'.signal = s
        /\ waiter'.at = IF waits THEN "added" ELSE "over"
    BY <1>1, <2>1 DEF TypeOK, Wait
  <2>4. CASE waits
    <3>1. Waiting'
      BY <1>1, <2>2, <2>3, <2>4 DEF Waiting
    <3>2. ~Awakes(waiter.h, disp[waiter.h])'
      BY <1>1, <2>3, <2>4 DEF Awakes, Satisfies, CanSatisfy, Receives, PeerClosed
    <3> QED
      BY <2>2, <3>1, <3>2 DEF NoLostWakeup
  <2>5. CASE ~waits
    BY <1>2, <2>2, <2>3, <2>5
  <2> QED
    BY <2>4, <2>5
<1>6. CASE RemoveAwakable
  <2>1. /\ waiter.at # "none" /\ failed' = StatusCheck(d) /\ waiter' = NotWaiting
    BY <1>6 DEF RemoveAwakable
  <2>2. waiter'.at = "none" /\ failed' = failed
    BY <1>3, <2>1 DEF NotWaiting
  <2> QED
    BY <1>2, <2>2
<1> QED
  BY <1>4, <1>5, <1>6

\* Nobody waits for ever, after every step that does not overflow.
LEMMA WakesStep ==
  ASSUME Sound, Waiting, NoLostWakeup, Sound', Next, "overflow" \notin failed'
  PROVE  Waiting' /\ NoLostWakeup'
<1>1. CASE CreateMessagePipe
  BY <1>1, WakesCreates
<1>2. ASSUME NEW kind \in {"buffer", "platform"}, Create(kind) PROVE Waiting' /\ NoLostWakeup'
  BY <1>2, WakesCreates
<1>3. ASSUME NEW t \in Thread,
             \/ \E h \in table, hs \in Bundles : WriteMessage(t, h, hs)
             \/ \E h \in table : ReadMessage(t, h) \/ UseBuffer(t, h) \/ Close(t, h)
             \/ CheckWrite(t) \/ CheckRead(t) \/ ReadNothing(t) \/ TellPeerClosed(t)
             \/ MapBuffer(t)
             \/ BeginTransit(t) /\ ~Begins(call[t].hs)
      PROVE  Waiting' /\ NoLostWakeup'
  BY <1>3, WakesPlain
<1>4. ASSUME NEW t \in Thread,
             \/ BeginTransit(t) /\ Begins(call[t].hs)
             \/ CompleteTransitAndClose(t) \/ CancelTransit(t)
      PROVE  Waiting' /\ NoLostWakeup'
  BY <1>4, WakesTransit
<1>5. ASSUME NEW t \in Thread,
             \/ ClosePipe(t) \/ CloseThing(t)
             \/ \E g \in table : PassWrappedPlatformHandle(t, g)
      PROVE  Waiting' /\ NoLostWakeup'
  BY <1>5, WakesCloses
<1>6. ASSUME NEW t \in Thread, SendMessage(t) \/ DuplicateBufferHandle(t)
      PROVE  Waiting' /\ NoLostWakeup'
  BY <1>6, WakesSends, WakesCreates
<1>7. ASSUME NEW t \in Thread, ReadTakes(t) \/ ReadDiscards(t) \/ ClosePort(t)
      PROVE  Waiting' /\ NoLostWakeup'
  BY <1>7, WakesTakes, WakesPorts
<1>8. ASSUME \/ \E h \in event : OnPortStatusChanged(h)
             \/ \E w \in Waits : WaitFor(w[1], w[2])
             \/ AddAwakable \/ RemoveAwakable
      PROVE  Waiting' /\ NoLostWakeup'
  BY <1>8, WakesEvent, WakesWaits
<1> QED
  BY <1>1, <1>2, <1>3, <1>4, <1>5, <1>6, <1>7, <1>8
  DEF Next, Continue, CreateSharedBuffer, CreatePlatformHandleWrapper

-----------------------------------------------------------------------------
(* The checks.                                                             *)

\* A check ends the process: in a state with a step none has failed yet.
LEMMA NotFailed ==
  ASSUME Next
  PROVE  failed = {}
BY DEF Next, Continue, CreateMessagePipe, CreateSharedBuffer,
   CreatePlatformHandleWrapper, Create, Creates, WriteMessage, ReadMessage, Close,
   PassWrappedPlatformHandle, UseBuffer, Calls, BeginTransit, CheckWrite, SendMessage,
   CompleteTransitAndClose, CancelTransit, CheckRead, ReadNothing, TellPeerClosed,
   ReadDiscards, ReadTakes, ClosePipe, CloseThing, ClosePort, MapBuffer,
   DuplicateBufferHandle, At, OnPortStatusChanged, WaitFor, AddAwakable, RemoveAwakable

\* The node knows the port of a pipe end whose transit is cancelled.
LEMMA CancelOK ==
  ASSUME Sound, NEW hs \in SUBSET table, \A h \in hs : ~HandedOver(h)
  PROVE  CancelCheck(hs) = {}
<1> SUFFICES ASSUME NEW h \in hs, disp[h].kind = "pipe"
             PROVE  StatusOK([disp[h] EXCEPT !.inTransit = FALSE])
  BY DEF CancelCheck
<1>1. h \in Handle /\ disp[h] \in Dispatcher /\ ~disp[h].closed
  BY DispOf DEF Sound, TypeOK, TableInv, Tables
<1>2. Receives(disp[h])
  BY <1>1, OpenReceives DEF Sound, OwnInv, Opens
<1> DEFINE d == [disp[h] EXCEPT !.inTransit = FALSE]
<1>3. d.port = disp[h].port /\ d.res = disp[h].res
  BY <1>1 DEF Dispatcher
<1> QED
  BY <1>2, <1>3 DEF Receives, StatusOK

\* BeginTransit cancels what no write carries, and CancelTransit what its own write
\* carries and has not sent.
LEMMA CancelsOK ==
  ASSUME Sound, SentOK, NEW t \in Thread, BeginTransit(t) \/ CancelTransit(t)
  PROVE  failed' = failed
<1>1. TypeOK /\ TableInv /\ call[t].hs \in Seq(Handle)
  BY CallOf DEF Sound
<1>2. ASSUME NEW h, HandedOver(h)
      PROVE  h \in busy /\ \E u \in Thread : call[u].sent /\ h \in Carried(call[u])
  <2>1. PICK u \in Thread : call[u].at = "finish" /\ call[u].sent /\ h \in ToSet(call[u].hs)
    BY <1>2 DEF HandedOver
  <2> QED
    BY <1>1, <2>1, CarriedHas DEF Carrying
<1>3. CASE BeginTransit(t)
  <2> DEFINE hs == call[t].hs
             begun == {hs[i] : i \in Begun(hs)}
  <2>1. failed' = failed \/ failed' = failed \cup CancelCheck(begun)
    BY <1>3 DEF BeginTransit
  <2>2. ASSUME NEW i \in Begun(hs) PROVE hs[i] \in table /\ hs[i] \notin busy
    <3>1. i \in DOMAIN hs /\ i \in 1..i
      BY <1>1 DEF Begun
    <3> QED
      BY <3>1 DEF Begun
  <2>3. begun \in SUBSET table /\ \A h \in begun : ~HandedOver(h)
    BY <1>2, <2>2
  <2> HIDE DEF begun
  <2> QED
    BY <2>1, <2>3, CancelOK
<1>4. CASE CancelTransit(t)
  <2> DEFINE hs == ToSet(call[t].hs)
  <2>1. failed' = failed \cup CancelCheck(hs) /\ call[t].at = "finish" /\ ~call[t].ok
    BY <1>1, <1>4, TableCancels DEF CancelTransit, At, WriteOK
  <2>2. hs \in SUBSET table /\ hs = Carried(call[t]) /\ ~call[t].sent
    BY <1>1, <2>1, CarriedHas DEF Carrying, SentOK, SentRec
  <2> HIDE DEF hs
  <2>3. \A h \in hs : ~HandedOver(h)
    BY <1>1, <1>2, <2>2 DEF TableInv, Transit
  <2> QED
    BY <2>1, <2>2, <2>3, CancelOK
<1> QED
  BY <1>3, <1>4

\* A write or read that met a closed peer finds its dispatcher closed, or its port
\* known.
LEMMA TellsOK ==
  ASSUME Sound, NEW t \in Thread, TellPeerClosed(t)
  PROVE  failed' = failed
<1> DEFINE d == disp[call[t].h]
<1>1. call[t].at = "peerClosed" /\ failed' = StatusCheck(d)
  BY DEF TellPeerClosed, At
<1>2. call[t].h \in Handle /\ d.kind = "pipe"
  BY <1>1 DEF Sound, TableInv, CallsOK, CallOK
<1>3. d.closed \/ Receives(d) \/ d.inTransit
  BY <1>2, OpenReceives
<1> QED
  BY <1>1, <1>3 DEF StatusCheck, StatusOK

\* What a step adds to the checks that failed.
LEMMA FailsStep ==
  ASSUME Sound, Waiting, SentOK, Next, ~ \E t \in Thread : ReadTakes(t)
  PROVE  failed' \subseteq failed \cup {"full", "buffer", "cast"}
<1>1. TypeOK /\ TableInv
  BY DEF Sound
<1>2. ASSUME \/ CreateMessagePipe
             \/ \E kind \in {"buffer", "platform"} : Create(kind)
             \/ \E t \in Thread : DuplicateBufferHandle(t) \/ MapBuffer(t)
             \/ \E t \in Thread, h \in table : PassWrappedPlatformHandle(t, h)
      PROVE  failed' \subseteq failed \cup {"full", "buffer", "cast"}
  BY <1>2 DEF CreateMessagePipe, Create, DuplicateBufferHandle, MapBuffer, AddDispatcher,
     OutOfHandles, BufferCheck, PassWrappedPlatformHandle
<1>3. ASSUME NEW t \in Thread, CompleteTransitAndClose(t) PROVE failed' = failed
  BY <1>1, <1>3, TableCompletes
<1>4. ASSUME NEW t \in Thread, BeginTransit(t) \/ CancelTransit(t) \/ TellPeerClosed(t)
      PROVE  failed' = failed
  BY <1>4, CancelsOK, TellsOK
<1>5. ASSUME NEW h \in event, OnPortStatusChanged(h) PROVE failed' = failed
  <2>1. h \in Handle /\ disp[h].kind = "pipe"
    BY <1>1 DEF TypeOK, Waiting
  <2>2. disp[h].closed \/ Receives(disp[h]) \/ disp[h].inTransit
    BY <2>1, OpenReceives
  <2> QED
    BY <1>5, <2>2 DEF OnPortStatusChanged, StatusCheck, StatusOK
<1>6. ASSUME AddAwakable \/ RemoveAwakable PROVE failed' = failed
  <2> DEFINE d == disp[waiter.h]
  <2>1. waiter.at # "none" /\ (failed' = failed \/ failed' = StatusCheck(d))
    BY <1>6 DEF AddAwakable, RemoveAwakable
  <2>2. waiter.h \in Handle /\ d.kind = "pipe"
    BY <2>1 DEF Waiting
  <2>3. d.closed \/ Receives(d) \/ d.inTransit
    BY <2>2, OpenReceives
  <2> QED
    BY <2>1, <2>3 DEF StatusCheck, StatusOK
<1>7. ASSUME NEW t \in Thread,
             \/ \E h \in table, hs \in Bundles : WriteMessage(t, h, hs)
             \/ \E h \in table : ReadMessage(t, h) \/ UseBuffer(t, h) \/ Close(t, h)
             \/ CheckWrite(t) \/ CheckRead(t) \/ ReadNothing(t) \/ SendMessage(t)
             \/ ReadDiscards(t) \/ ClosePipe(t) \/ CloseThing(t) \/ ClosePort(t)
      PROVE  failed' = failed
  <2>1. CASE SendMessage(t)
    BY <2>1, SendIs
  <2> QED
    BY <1>7, <2>1 DEF WriteMessage, ReadMessage, UseBuffer, Close, CheckWrite, CheckRead,
       ReadNothing, ReadDiscards, ClosePipe, CloseThing, ClosePort
<1>8. ASSUME NEW w \in Waits, WaitFor(w[1], w[2]) PROVE failed' = failed
  BY <1>8 DEF WaitFor
<1> QED
  BY <1>2, <1>3, <1>4, <1>5, <1>6, <1>7, <1>8
  DEF Next, Continue, CreateSharedBuffer, CreatePlatformHandleWrapper

\* The CHECK of GetHandleSignalsStateNoLock and the DCHECKs of the handle table
\* do not fail.
LEMMA CheckStep ==
  ASSUME Sound, Waiting, SentOK, Next
  PROVE  failed' \cap {"status", "transit"} = {}
<1>1. failed = {}
  BY NotFailed
<1>2. ASSUME \E t \in Thread : ReadTakes(t)
      PROVE  failed' \cap {"status", "transit"} = {}
  <2>1. failed' = failed \/ failed' = failed \cup {"overflow"} \/ failed' = failed \cup {}
    BY <1>2 DEF ReadTakes
  <2> QED
    BY <1>1, <2>1
<1> QED
  BY <1>1, <1>2, FailsStep

\* The destructor of a dispatcher that nothing refers to finds it closed.
LEMMA Destroyed ==
  ASSUME Sound, NEW h \in Handle \ table
  PROVE  \/ disp[h].closed /\ ~disp[h].inTransit
         \/ \E t \in Thread : call[t].at = "close" /\ call[t].h = h
<1>1. ~disp[h].inTransit
  BY DEF Sound, TableInv, Transit
<1> QED
  BY <1>1 DEF Sound, TableInv, Tables

\* So it does after an overflow, which replaces dispatchers of the table only.
LEMMA CheckOverflow ==
  ASSUME Sound, Waiting, SentOK, Next, "overflow" \in failed', NEW h \in Handle \ table'
  PROVE  \/ disp'[h].closed /\ ~disp'[h].inTransit
         \/ \E t \in Thread : call'[t].h = h \/ h \in ToSet(call'[t].hs)
<1>1. failed = {} /\ TypeOK /\ TableInv
  BY NotFailed DEF Sound
<1>2. ASSUME NEW t \in Thread, ReadTakes(t)
      PROVE  \/ disp'[h].closed /\ ~disp'[h].inTransit
             \/ \E u \in Thread : call'[u].h = h \/ h \in ToSet(call'[u].hs)
  <2> DEFINE d == disp[call[t].h]
             cargo == Head(queue[d.res])
             to == FromTransit(cargo)
  <2>1. call[t].at = "read" /\ call' = [call EXCEPT ![t] = Idle]
    BY <1>2 DEF ReadTakes, At
  <2>2. \/ UNCHANGED <<table, disp>>
        \/ /\ table' = table \cup (ToSet(to) \ {INVALID})
           /\ disp' = [g \in Handle |->
                         IF \E i \in DOMAIN to : to[i] = g
                         THEN Deserialized(cargo[CHOOSE i \in DOMAIN to : to[i] = g])
                         ELSE disp[g]]
    BY <1>2 DEF ReadTakes
  <2>3. h \notin table /\ disp'[h] = disp[h]
    <3>1. CASE UNCHANGED <<table, disp>>
      BY <3>1
    <3>2. CASE /\ table' = table \cup (ToSet(to) \ {INVALID})
               /\ disp' = [g \in Handle |->
                         IF \E i \in DOMAIN to : to[i] = g
                         THEN Deserialized(cargo[CHOOSE i \in DOMAIN to : to[i] = g])
                         ELSE disp[g]]
      <4>1. h # INVALID
        BY DEF Handle, INVALID
      <4>2. ~ \E i \in DOMAIN to : to[i] = h
        BY <3>2, <4>1 DEF ToSet
      <4> HIDE DEF to, cargo
      <4> QED
        BY <3>2, <4>2
    <3> QED
      BY <2>2, <3>1, <3>2
  <2>4. CASE disp[h].closed /\ ~disp[h].inTransit
    BY <2>3, <2>4
  <2>5. ASSUME NEW u \in Thread, call[u].at = "close", call[u].h = h
        PROVE  \E v \in Thread : call'[v].h = h
    <3>1. call'[u] = call[u]
      BY <1>1, <2>1, <2>5 DEF TypeOK
    <3> QED
      BY <2>5, <3>1
  <2> QED
    BY <2>3, <2>4, <2>5, Destroyed
<1>3. ASSUME ~ \E t \in Thread : ReadTakes(t) PROVE "overflow" \notin failed'
  BY <1>1, <1>3, FailsStep
<1> QED
  BY <1>2, <1>3

-----------------------------------------------------------------------------
(* The theorems.                                                           *)

\* All of it, unless a read gave out MOJO_HANDLE_INVALID.
Good == TableInv /\ OwnInv /\ SentOK /\ Waiting /\ NoLostWakeup
IInv == TypeOK /\ ChecksHold /\ ("overflow" \notin failed => Good)

\* Nothing has been created.
LEMMA InitGood ==
  ASSUME Init
  PROVE  IInv
<1>1. /\ table = {} /\ busy = {} /\ next = 1 /\ disp = [h \in Handle |-> None] /\ pipes = 0
      /\ gen = [e \in End |-> 0] /\ shut = {} /\ queue = [e \in End |-> <<>>] /\ event = {}
      /\ waiter = NotWaiting /\ call = [t \in Thread |-> Idle] /\ calls = 0 /\ lost = {}
      /\ failed = {}
  BY DEF Init
<1>2. \A h \in Handle : disp[h] = None
  BY <1>1
<1>3. \A t \in Thread : call[t] = Idle
  BY <1>1
<1>4. \A e \in End : gen[e] = 0 /\ queue[e] = <<>>
  BY <1>1
<1>5. LastHandle \in Nat \ {0} /\ MaxPipes \in Nat /\ MaxCalls \in Nat
  BY CoreAssumption
<1>6. TypeOK
  <2>1. Idle \in CallRec /\ None \in Dispatcher
    BY IdleIs, NoneIs
  <2>2. call \in [Thread -> CallRec] /\ disp \in [Handle -> Dispatcher]
    BY <1>1, <2>1
  <2>3. gen \in [End -> Nat] /\ queue \in [End -> Seq(Seq(Cargo))]
    BY <1>1
  <2>4. waiter \in Wait
    BY <1>1, <1>5 DEF NotWaiting, Wait
  <2> QED
    BY <1>1, <1>5, <2>2, <2>3, <2>4 DEF TypeOK, CallRec
<1>7. ChecksHold
  BY <1>1, <1>2, NoneIs DEF ChecksHold
<1>8. TableInv
  <2>1. Tables
    BY <1>1, <1>2, NoneIs DEF Tables
  <2>2. Transit
    BY <1>1, <1>2, <1>3, NoneIs, IdleIs DEF Transit, Carrying
  <2>3. CallsOK
    BY <1>3, IdleIs DEF CallsOK, CallOK
  <2> QED
    BY <2>1, <2>2, <2>3 DEF TableInv
<1>9. OwnInv
  <2>1. \A e : ~Mail(e)
    BY <1>4 DEF Mail, Carries
  <2>2. \A h \in Handle : disp[h].kind # "pipe"
    BY <1>2, NoneIs
  <2>3. Ends
    BY <1>1, <1>4, <2>2 DEF Ends, EndsOK
  <2>4. Owned
    BY <1>4, <2>1, <2>2 DEF Owned, Holds, OnceQ, Carries
  <2>5. Opens
    BY <2>2 DEF Opens
  <2> QED
    BY <2>3, <2>4, <2>5 DEF OwnInv
<1>10. SentOK
  BY <1>3, SentNot DEF SentOK
<1>11. Waiting /\ NoLostWakeup
  BY <1>1 DEF Waiting, NoLostWakeup, NotWaiting, Awakes
<1> QED
  BY <1>6, <1>7, <1>8, <1>9, <1>10, <1>11 DEF IInv, Good

\* Every step keeps the invariant.
LEMMA StepGood ==
  ASSUME IInv, [Next]_vars
  PROVE  IInv'
<1>1. CASE UNCHANGED vars
  <2>1. TypeOK' /\ ChecksHold'
    BY <1>1 DEF IInv, vars, TypeOK, ChecksHold
  <2>2. ASSUME "overflow" \notin failed' PROVE Good'
    <3>1. TypeOK /\ Good /\ failed' = failed
      BY <1>1, <2>2 DEF IInv, vars
    <3>2. TableInv' /\ OwnInv' /\ SentOK'
      BY <1>1, <2>2, <3>1, TableStep, OwnStep, SentStep DEF Good, OwnInv
    <3>3. Waiting'
      BY <1>1, <3>1 DEF Good, vars, Waiting
    <3>4. NoLostWakeup'
      BY <1>1, <3>1 DEF Good, vars, NoLostWakeup, Awakes, Satisfies, CanSatisfy, Receives,
         PeerClosed
    <3> QED
      BY <3>2, <3>3, <3>4 DEF Good
  <2> QED
    BY <2>1, <2>2 DEF IInv
<1>2. CASE Next
  <2>1. failed = {}
    BY <1>2, NotFailed
  <2>2. TypeOK /\ TableInv /\ OwnInv /\ SentOK /\ Waiting /\ NoLostWakeup /\ Sound /\ Ends
    BY <2>1 DEF IInv, Good, Sound, OwnInv
  <2>3. TypeOK'
    BY <2>2, TypeStep
  <2>4. failed' \cap {"status", "transit"} = {}
    BY <1>2, <2>2, CheckStep
  <2>5. CASE "overflow" \notin failed'
    <3>1. TableInv' /\ OwnInv' /\ SentOK'
      BY <2>2, <2>5, TableStep, OwnStep, SentStep
    <3>2. Sound'
      BY <2>3, <3>1 DEF Sound
    <3>3. Waiting' /\ NoLostWakeup'
      BY <1>2, <2>2, <2>5, <3>2, WakesStep
    <3>4. \A h \in Handle \ table' :
            \/ disp'[h].closed /\ ~disp'[h].inTransit
            \/ \E t \in Thread : call'[t].at = "close" /\ call'[t].h = h
      <4>1. \A h \in Handle : ~disp'[h].inTransit \/ h \in table'
        BY <3>1 DEF TableInv, Transit
      <4> QED
        BY <3>1, <4>1 DEF TableInv, Tables
    <3>5. ChecksHold'
      BY <2>4, <3>4 DEF ChecksHold
    <3> QED
      BY <2>3, <3>1, <3>3, <3>5 DEF IInv, Good
  <2>6. CASE "overflow" \in failed'
    <3>1. \A h \in Handle \ table' :
            \/ disp'[h].closed /\ ~disp'[h].inTransit
            \/ \E t \in Thread : call'[t].h = h \/ h \in ToSet(call'[t].hs)
      BY <1>2, <2>2, <2>6, CheckOverflow
    <3>2. ChecksHold'
      BY <2>4, <3>1 DEF ChecksHold
    <3> QED
      BY <2>3, <2>6, <3>2 DEF IInv
  <2> QED
    BY <2>5, <2>6
<1> QED
  BY <1>1, <1>2

\* The inductive invariant holds in every state.
THEOREM Invariance == Spec => []IInv
<1>1. Init => IInv
  BY InitGood
<1>2. IInv /\ [Next]_vars => IInv'
  BY StepGood
<1> QED
  BY <1>1, <1>2, PTL DEF Spec

\* The variables have their types: handles, dispatchers, ports, queues and calls
\* of the handle table and of the message pipe dispatchers.
THEOREM TypeCorrect == Spec => []TypeOK
<1>1. IInv => TypeOK
  BY DEF IInv
<1> QED
  BY <1>1, Invariance, PTL

\* No thread runs into the CHECK of GetHandleSignalsStateNoLock, the DCHECKs of
\* HandleTable::CompleteTransitAndClose and CancelTransit, or the DCHECKs of a
\* dispatcher's destructor, whatever the threads do and even after an overflow.
THEOREM ChecksHoldAlways == Spec => []ChecksHold
<1>1. IInv => ChecksHold
  BY DEF IInv
<1> QED
  BY <1>1, Invariance, PTL

\* An entry of the handle table is busy, and its dispatcher in transit, exactly
\* while one write carries it, unless a read gave out MOJO_HANDLE_INVALID.
THEOREM BusyInTransitHolds == Spec => []("overflow" \notin failed => BusyInTransit)
<1>1. ASSUME IInv, "overflow" \notin failed PROVE BusyInTransit
  <2>1. TableInv
    BY <1>1 DEF IInv, Good
  <2>2. \A h \in Handle : h \in busy <=> disp[h].inTransit
    BY <2>1 DEF TableInv, Transit
  <2>3. ASSUME NEW h \in Handle, h \in busy
        PROVE  h \in table /\ Cardinality({t \in Thread :
                 /\ call[t].at \in {"check", "send", "peerClosed", "finish"}
                 /\ h \in ToSet(call[t].hs)}) = 1
    <3>1. h \in table
      BY <2>1, <2>3 DEF TableInv, Transit
    <3>2. PICK u \in Thread : h \in Carried(call[u])
      BY <2>1, <2>3 DEF TableInv, Transit
    <3>3. \A t \in Thread : t # u => h \notin Carried(call[t])
      BY <2>1, <3>2 DEF TableInv, Transit
    <3>4. {t \in Thread : /\ call[t].at \in {"check", "send", "peerClosed", "finish"}
                          /\ h \in ToSet(call[t].hs)} = {u}
      BY <3>2, <3>3 DEF Carried, Carrying
    <3>5. Cardinality({u}) = 1
      BY FS_Singleton
    <3> QED
      BY <3>1, <3>4, <3>5
  <2> QED
    BY <2>2, <2>3 DEF BusyInTransit
<1>2. IInv => ("overflow" \notin failed => BusyInTransit)
  BY <1>1
<1> QED
  BY <1>2, Invariance, PTL

\* Nobody waits for ever on a message pipe: MojoWait is about to be woken whenever
\* its signal is there or can no longer come, unless a read gave out
\* MOJO_HANDLE_INVALID.
THEOREM NoLostWakeupHolds == Spec => []("overflow" \notin failed => NoLostWakeup)
<1>1. IInv => ("overflow" \notin failed => NoLostWakeup)
  BY DEF IInv, Good
<1> QED
  BY <1>1, Invariance, PTL

-----------------------------------------------------------------------------
(* One owner for each end and for the platform handle.                     *)

\* An end that a dispatcher has, and one that somebody has.
Held(e) == \E h \in Handle : Holds(h, e)
Somebodys(e) == Held(e) \/ Mail(e) \/ Parting(e) \/ e \in shut \/ e \in lost

\* A call that is about to close the port of an end.
Closing(t, e) == call[t].at = "closePort" /\ disp[call[t].h].res = e

\* What OwnInv does not say: an end that was dropped with its message is nobody
\* else's, one that is being closed is not closed and by one call only, and no
\* end of a pipe is forgotten.
Apart ==
  /\ \A e \in End : e \in lost =>
       ~Held(e) /\ ~Mail(e) /\ ~Parting(e) /\ e \notin shut
  /\ \A e \in End : Parting(e) => e \notin shut
  /\ \A e \in End, t, u \in Thread : Closing(t, e) /\ Closing(u, e) => t = u
Found == failed = {} => \A e \in End : e[1] <= pipes => Somebodys(e)

\* The dispatcher of an end that a write has sent has an old port of it.
Stale ==
  \A h \in Handle : HandedOver(h) /\ disp[h].kind = "pipe" =>
    disp[h].port < gen[disp[h].res]

\* How an end changes hands: from a dispatcher to a message or to a call that
\* closes it, from a message to a dispatcher, to the ends that are lost or to
\* those that are closed; a write whose EndSerialize failed loses its dispatchers'.
HandOver(e) ==
  /\ Mail(e)' => Mail(e) \/ Held(e)
  /\ Parting(e)' => Parting(e) \/ Held(e)
  /\ e \in shut' /\ e \notin shut => (Mail(e) \/ Parting(e)) /\ ~Parting(e)'
  /\ Held(e)' => Held(e) \/ Mail(e) \/ e[1] > pipes
  /\ e \in lost' /\ e \notin lost =>
       /\ Mail(e) \/ Held(e)
       /\ ~Held(e)' /\ ~Mail(e)' /\ ~Parting(e)' /\ e \notin shut'

\* A lost end is one of a pipe that was created.
LostOld == \A e \in lost : ~(e[1] > pipes)

\* Nobody has two owners after a step in which ends change hands like that.
LEMMA ApartStep ==
  ASSUME TypeOK, OwnInv, Apart, LostOld, \A e \in End : HandOver(e),
         \A e \in End, t, u \in Thread :
           Closing(t, e)' /\ Closing(u, e)' => t = u
  PROVE  Apart'
<1>1. \A e \in End : Held(e) => e \notin shut /\ ~Mail(e) /\ ~Parting(e)
  BY DEF OwnInv, Owned, Held
<1>2. \A e \in End : Mail(e) => e \notin shut /\ ~Parting(e)
  BY DEF OwnInv, Owned
<1>3. ASSUME NEW e \in End, e \in lost'
      PROVE  ~Held(e)' /\ ~Mail(e)' /\ ~Parting(e)' /\ e \notin shut'
  <2>1. HandOver(e)
    OBVIOUS
  <2>2. CASE e \in lost
    <3>1. ~Held(e) /\ ~Mail(e) /\ ~Parting(e) /\ e \notin shut /\ ~(e[1] > pipes)
      BY <2>2 DEF Apart, LostOld
    <3> QED BY <2>1, <3>1 DEF HandOver
  <2>3. CASE e \notin lost
    BY <1>3, <2>1, <2>3 DEF HandOver
  <2> QED BY <2>2, <2>3
<1>4. ASSUME NEW e \in End, Parting(e)' PROVE e \notin shut'
  <2>1. HandOver(e)
    OBVIOUS
  <2>2. e \notin shut
    BY <1>1, <1>4, <2>1 DEF HandOver, Apart
  <2> QED BY <1>4, <2>1, <2>2 DEF HandOver
<1> QED BY <1>3, <1>4 DEF Apart

\* A step in which no end changes hands.
Still ==
  /\ UNCHANGED <<pipes, shut, lost>>
  /\ \A e \in End : /\ Mail(e)' <=> Mail(e)
                    /\ \A h \in Handle : Holds(h, e)' <=> Holds(h, e)
                    /\ \A t \in Thread : Closing(t, e)' <=> Closing(t, e)

\* After it nobody has two owners and nobody is forgotten.
LEMMA StillStep ==
  ASSUME TypeOK, OwnInv, Apart, LostOld, Still
  PROVE  Apart' /\ LostOld' /\ (Found /\ (failed' = {} => failed = {}) => Found')
<1>1. \A e \in End : (Held(e)' <=> Held(e)) /\ (Parting(e)' <=> Parting(e))
  BY DEF Still, Held, Parting, Closing
<1>2. \A e \in End : HandOver(e)
  BY <1>1 DEF Still, HandOver
<1>3. \A e \in End, t, u \in Thread :
        Closing(t, e)' /\ Closing(u, e)' => t = u
  BY DEF Still, Apart
<1>4. Apart'
  BY <1>2, <1>3, ApartStep
<1>5. LostOld'
  BY DEF Still, LostOld
<1>6. \A e \in End : Somebodys(e) => Somebodys(e)'
  BY <1>1 DEF Still, Somebodys
<1> QED BY <1>4, <1>5, <1>6 DEF Found, Still

\* A call moves on, and no open dispatcher of a pipe is closed but one that has an
\* old port.
LEMMA StillMoves ==
  ASSUME TypeOK, TableInv, NEW t \in Thread, NEW c \in CallRec, Moves(t, c),
         c.at # "closePort", call[t].at # "closePort",
         UNCHANGED <<pipes, gen, shut, queue, lost>>,
         \A h \in Handle :
           /\ disp'[h].kind = disp[h].kind /\ disp'[h].res = disp[h].res
           /\ disp'[h].port = disp[h].port /\ (disp[h].closed => disp'[h].closed)
           /\ disp[h].kind = "pipe" /\ disp'[h].closed =>
                disp[h].closed \/ disp[h].port # gen[disp[h].res]
  PROVE  Still
<1>1. call'[t] = c /\ \A u \in Thread : u # t => call'[u] = call[u]
  BY MovesIs
<1>2. \A e \in End : Mail(e)' <=> Mail(e)
  BY DEF Mail, Carries, CarriesMsg
<1>3. \A e \in End, h \in Handle : Holds(h, e)' <=> Holds(h, e)
  BY DEF Holds
<1>4. ASSUME NEW e \in End, NEW u \in Thread PROVE Closing(u, e)' <=> Closing(u, e)
  <2>1. CASE u = t
    BY <1>1, <2>1 DEF Closing
  <2>2. CASE u # t
    <3>1. call'[u] = call[u]
      BY <1>1, <2>2
    <3>2. call[u].at = "closePort" => call[u].h \in Handle
      BY DEF TableInv, CallsOK, CallOK
    <3> QED BY <3>1, <3>2 DEF Closing
  <2> QED BY <2>1, <2>2
<1> QED BY <1>2, <1>3, <1>4 DEF Still

\* Dispatchers that are not pipes are added, and a call ends.
LEMMA StillAdds ==
  ASSUME TypeOK, TableInv, UNCHANGED <<pipes, gen, shut, queue, lost>>,
         \A u \in Thread : \/ call'[u] = call[u]
                           \/ call'[u] = Idle /\ call[u].at # "closePort",
         NEW d, d.kind # "pipe", Adds(d)
  PROVE  Still
<1>1. next \in 0..LastHandle /\ LastHandle \in Nat
  BY CoreAssumption DEF TypeOK
<1>2. \A h \in Handle :
        disp'[h] = disp[h] \/ (disp[h].kind # "pipe" /\ disp'[h].kind # "pipe")
  <2>1. CASE next = INVALID
    BY <2>1 DEF Adds, AddDispatcher, OutOfHandles
  <2>2. CASE next # INVALID
    <3>1. next \in Handle /\ disp' = [disp EXCEPT ![next] = d]
      BY <1>1, <2>2 DEF INVALID, Handle, Adds, AddDispatcher
    <3>2. disp[next] = None
      BY <1>1, <2>2, <3>1 DEF TableInv, Tables
    <3> QED BY <3>1, <3>2, NoneIs DEF TypeOK
  <2> QED BY <2>1, <2>2
<1>3. \A e \in End : Mail(e)' <=> Mail(e)
  BY DEF Mail, Carries, CarriesMsg
<1>4. \A e \in End, h \in Handle : Holds(h, e)' <=> Holds(h, e)
  BY <1>2 DEF Holds
<1>5. ASSUME NEW e \in End, NEW u \in Thread PROVE Closing(u, e)' <=> Closing(u, e)
  <2>1. call[u].at = "closePort" =>
          call[u].h \in Handle /\ disp[call[u].h].kind = "pipe"
    BY DEF TableInv, CallsOK, CallOK
  <2>2. Idle.at # "closePort"
    BY IdleIs
  <2> QED BY <1>2, <2>1, <2>2 DEF Closing
<1> QED BY <1>3, <1>4, <1>5 DEF Still

\* Nothing that has to do with ends changes.
LEMMA StillSame ==
  ASSUME UNCHANGED <<pipes, gen, shut, queue, lost, disp, call>>
  PROVE  Still
BY DEF Still, Mail, Carries, CarriesMsg, Holds, Closing

\* Calls that begin, look, or end without a change; beginning and ending a transit.
LEMMA StillCalls ==
  ASSUME TypeOK, TableInv, Stale, NEW t \in Thread,
         \/ \E h \in table, hs \in Bundles : WriteMessage(t, h, hs)
         \/ \E h \in table : ReadMessage(t, h) \/ UseBuffer(t, h) \/ Close(t, h)
         \/ CheckWrite(t) \/ CheckRead(t) \/ ReadNothing(t) \/ TellPeerClosed(t)
         \/ MapBuffer(t)
         \/ BeginTransit(t)
         \/ CompleteTransitAndClose(t) /\ call[t].sent
         \/ CancelTransit(t)
  PROVE  Still
<1> DEFINE hs == ToSet(call[t].hs)
<1>1. /\ call[t] \in CallRec /\ call[t].hs \in Seq(Handle) /\ hs \subseteq Handle
      /\ call \in [Thread -> CallRec]
  <2>1. call[t] \in CallRec /\ call[t].hs \in Seq(Handle)
    BY CallOf
  <2> QED BY <2>1, ToSetIs DEF TypeOK, CallRec
<1>2. UNCHANGED <<pipes, gen, shut, queue, lost>>
  BY DEF WriteMessage, ReadMessage, UseBuffer, Close, CheckWrite, CheckRead,
     ReadNothing, TellPeerClosed, MapBuffer, BeginTransit, CompleteTransitAndClose,
     CancelTransit, nodeVars
<1>3. call[t].at # "closePort"
  BY IdleIs DEF WriteMessage, ReadMessage, UseBuffer, Close, Calls, CheckWrite,
     CheckRead, ReadNothing, TellPeerClosed, MapBuffer, BeginTransit,
     CompleteTransitAndClose, CancelTransit, At
<1>4. CASE \/ \E h \in table, x \in Bundles : WriteMessage(t, h, x)
           \/ \E h \in table : ReadMessage(t, h) \/ UseBuffer(t, h) \/ Close(t, h)
           \/ CheckWrite(t) \/ CheckRead(t) \/ ReadNothing(t) \/ TellPeerClosed(t)
           \/ MapBuffer(t)
           \/ BeginTransit(t) /\ ~Begins(call[t].hs)
  <2>1. (\E c \in CallRec : Moves(t, c) /\ c.at # "closePort") /\ disp' = disp
    BY <1>4, PlainCalls
  <2>2. PICK c \in CallRec : Moves(t, c) /\ c.at # "closePort"
    BY <2>1
  <2> QED BY <1>2, <1>3, <2>1, <2>2, StillMoves
<1>5. CASE BeginTransit(t) /\ Begins(call[t].hs)
  <2> DEFINE c == [call[t] EXCEPT !.at = "check"]
  <2>1. /\ disp' = Marked(hs, TRUE) /\ Moves(t, c)
    BY <1>1, <1>5 DEF BeginTransit, Moves
  <2>2. c \in CallRec /\ c.at = "check"
    BY <1>1 DEF CallRec
  <2> HIDE DEF c, hs
  <2>3. \A h \in Handle : /\ disp'[h].kind = disp[h].kind /\ disp'[h].res = disp[h].res
                          /\ disp'[h].port = disp[h].port
                          /\ (disp'[h].closed <=> disp[h].closed)
    BY <1>1, <2>1, MarkedOn
  <2> QED BY <1>2, <1>3, <2>1, <2>2, <2>3, StillMoves
<1>6. CASE CompleteTransitAndClose(t) /\ call[t].sent
  <2>1. /\ Moves(t, Idle) /\ call[t].at = "finish"
        /\ disp' = [h \in Handle |-> IF h \in hs THEN Transferred(disp[h]) ELSE disp[h]]
    BY <1>6 DEF CompleteTransitAndClose, Moves, At
  <2>2. call[t].sent
    BY <1>6
  <2>3. \A h \in hs : disp[h].kind = "pipe" => disp[h].port # gen[disp[h].res]
    <3> SUFFICES ASSUME NEW h \in hs, disp[h].kind = "pipe",
                        disp[h].port = gen[disp[h].res]
                 PROVE  FALSE
      OBVIOUS
    <3>1. HandedOver(h) /\ h \in Handle
      BY <1>1, <2>1, <2>2 DEF HandedOver
    <3>2. disp[h].port < gen[disp[h].res] /\ disp[h].port \in Nat
      BY <3>1, DispOf DEF Stale
    <3> QED BY <3>2
  <2> HIDE DEF hs
  <2>4. ASSUME NEW h \in Handle
        PROVE  /\ disp'[h].kind = disp[h].kind /\ disp'[h].res = disp[h].res
               /\ disp'[h].port = disp[h].port /\ (disp[h].closed => disp'[h].closed)
               /\ disp[h].kind = "pipe" /\ disp'[h].closed =>
                    disp[h].closed \/ disp[h].port # gen[disp[h].res]
    <3>1. disp[h] \in Dispatcher
      BY DispOf
    <3>2. CASE h \in hs
      BY <2>1, <2>3, <3>1, <3>2, TransferredIs
    <3>3. CASE h \notin hs
      BY <2>1, <3>3
    <3> QED BY <3>2, <3>3
  <2> QED BY <1>2, <1>3, <2>1, <2>4, StillMoves, IdleIs
<1>7. CASE CancelTransit(t)
  <2>1. Moves(t, Idle) /\ disp' = Marked(hs, FALSE)
    BY <1>7 DEF CancelTransit, Moves
  <2> HIDE DEF hs
  <2>2. \A h \in Handle : /\ disp'[h].kind = disp[h].kind /\ disp'[h].res = disp[h].res
                          /\ disp'[h].port = disp[h].port
                          /\ (disp'[h].closed <=> disp[h].closed)
    BY <1>1, <2>1, MarkedOff
  <2> QED BY <1>2, <1>3, <2>1, <2>2, StillMoves, IdleIs
<1> QED BY <1>4, <1>5, <1>6, <1>7

\* Things that are not pipes are created and closed, a write is refused, and
\* those who wait come and go.
LEMMA StillOthers ==
  ASSUME TypeOK, TableInv,
         \/ \E kind \in {"buffer", "platform"} : Create(kind)
         \/ \E t \in Thread :
              \/ CloseThing(t) \/ DuplicateBufferHandle(t)
              \/ \E g \in table : PassWrappedPlatformHandle(t, g)
              \/ SendMessage(t) /\ ~Sends(t)
              \/ ClosePipe(t) /\ disp[call[t].h].closed
         \/ \E h \in event : OnPortStatusChanged(h)
         \/ \E w \in Waits : WaitFor(w[1], w[2])
         \/ AddAwakable \/ RemoveAwakable
  PROVE  Still
<1>1. ASSUME NEW g \in Handle, disp' = [disp EXCEPT ![g].closed = TRUE],
             disp[g].kind # "pipe", NEW h \in Handle
      PROVE  /\ disp'[h].kind = disp[h].kind /\ disp'[h].res = disp[h].res
             /\ disp'[h].port = disp[h].port /\ (disp[h].closed => disp'[h].closed)
             /\ disp[h].kind = "pipe" /\ disp'[h].closed =>
                  disp[h].closed \/ disp[h].port # gen[disp[h].res]
  BY <1>1, ClosedIs
<1>2. ASSUME NEW kind \in {"buffer", "platform"}, Create(kind) PROVE Still
  <2> DEFINE d == New(kind, NoEnd, 0)
  <2>1. Adds(d) /\ call' = call /\ UNCHANGED <<pipes, gen, shut, queue, lost>>
    BY <1>2, CreateAdds DEF Create, nodeVars
  <2>2. d.kind # "pipe"
    BY DEF New
  <2> HIDE DEF d
  <2> QED BY <2>1, <2>2, StillAdds
<1>3. ASSUME NEW t \in Thread, CloseThing(t) PROVE Still
  <2>1. /\ call[t].at = "close" /\ call[t].h \in Handle /\ Moves(t, Idle)
        /\ disp' = [disp EXCEPT ![call[t].h].closed = TRUE]
        /\ disp[call[t].h].kind # "pipe"
        /\ UNCHANGED <<pipes, gen, shut, queue, lost>>
    BY <1>3, ThingCloses DEF nodeVars
  <2>2. call[t].at # "closePort"
    BY <2>1
  <2> QED BY <1>1, <2>1, <2>2, StillMoves, IdleIs
<1>4. ASSUME NEW t \in Thread, DuplicateBufferHandle(t) PROVE Still
  <2> DEFINE d == Duplicate(disp[call[t].h])
  <2>1. /\ call[t].at = "buffer" /\ Moves(t, Idle)
        /\ UNCHANGED <<pipes, gen, shut, queue, lost>>
    BY <1>4 DEF DuplicateBufferHandle, At, nodeVars, Moves
  <2>2. \A u \in Thread : \/ call'[u] = call[u]
                          \/ call'[u] = Idle /\ call[u].at # "closePort"
    BY <2>1, MovesIs, IdleIs
  <2>3. CASE disp[call[t].h].closed
    <3>1. disp' = disp /\ call[t].at # "closePort"
      BY <1>4, <2>1, <2>3 DEF DuplicateBufferHandle
    <3> QED BY <2>1, <3>1, StillMoves, IdleIs
  <2>4. CASE ~disp[call[t].h].closed
    <3>1. Adds(d)
      BY <1>4, <2>4, DuplicateAdds
    <3>2. d.kind # "pipe"
      BY DEF Duplicate, New
    <3> HIDE DEF d
    <3> QED BY <2>1, <2>2, <3>1, <3>2, StillAdds
  <2> QED BY <2>3, <2>4
<1>5. ASSUME NEW t \in Thread, NEW g \in table, PassWrappedPlatformHandle(t, g)
      PROVE  Still
  <2>1. /\ call[t] = Idle /\ UNCHANGED <<call, pipes, gen, shut, queue, lost>>
        /\ g \in Handle
    BY <1>5 DEF PassWrappedPlatformHandle, Calls, nodeVars, TypeOK
  <2>2. Moves(t, Idle)
    BY <2>1 DEF Moves, TypeOK
  <2>3. CASE disp[g].kind = "platform"
    <3>1. disp' = [disp EXCEPT ![g].closed = TRUE]
      BY <1>5, <2>3 DEF PassWrappedPlatformHandle, Passed
    <3>2. call[t].at # "closePort" /\ disp[g].kind # "pipe"
      BY <2>1, <2>3, IdleIs
    <3> QED BY <1>1, <2>1, <2>2, <3>1, <3>2, StillMoves, IdleIs
  <2>4. CASE disp[g].kind # "platform"
    BY <1>5, <2>1, <2>4, StillSame DEF PassWrappedPlatformHandle
  <2> QED BY <2>3, <2>4
<1>6. ASSUME NEW t \in Thread, SendMessage(t), ~Sends(t) PROVE Still
  <2>1. /\ call[t].at = "send" /\ UNCHANGED <<pipes, shut, lost>>
        /\ SendFails(t) \/ SendRefused(t)
    BY <1>6, SendIs
  <2>2. call[t].at # "closePort"
    BY <2>1
  <2>3. CASE SendRefused(t)
    <3>1. PICK c \in Refusals(call[t]) : Moves(t, c)
      BY <2>3, Zenon DEF SendRefused
    <3>2. UNCHANGED <<queue, gen, disp>>
      BY <2>3, Zenon DEF SendRefused
    <3>3. c \in CallRec /\ c.at # "closePort"
      BY <2>1, RefusedIs
    <3> QED BY <2>1, <2>2, <3>1, <3>2, <3>3, StillMoves
  <2>4. CASE SendFails(t)
    <3> DEFINE bad == Unserializable(call[t].hs)
               c == SendDone(call[t], TRUE, FALSE)
    <3>1. /\ UNCHANGED <<queue, gen>> /\ Moves(t, c)
          /\ disp' = [h \in Handle |-> IF h \in bad
                        THEN [disp[h] EXCEPT !.closed = TRUE] ELSE disp[h]]
      BY <2>4, Zenon DEF SendFails
    <3>2. \A h \in bad : disp[h].kind = "buffer"
      BY DEF Unserializable
    <3>3. TRUE \in BOOLEAN /\ FALSE \in BOOLEAN
      OBVIOUS
    <3>4. c \in CallRec /\ c.at \in {"idle", "finish"}
      BY <2>1, <3>3, SendDoneIs, Zenon
    <3> HIDE DEF bad, c
    <3>5. ASSUME NEW h \in Handle
          PROVE  /\ disp'[h].kind = disp[h].kind /\ disp'[h].res = disp[h].res
                 /\ disp'[h].port = disp[h].port /\ (disp[h].closed => disp'[h].closed)
                 /\ disp[h].kind = "pipe" /\ disp'[h].closed =>
                      disp[h].closed \/ disp[h].port # gen[disp[h].res]
      <4>1. disp[h] \in Dispatcher
        BY DispOf
      <4> QED BY <3>1, <3>2, <4>1 DEF Dispatcher
    <3>6. c.at # "closePort"
      BY <3>4
    <3> QED BY <2>1, <2>2, <3>1, <3>4, <3>5, <3>6, StillMoves
  <2> QED BY <2>1, <2>3, <2>4
<1>7. ASSUME NEW t \in Thread, ClosePipe(t), disp[call[t].h].closed PROVE Still
  <2>1. /\ call[t].at = "close" /\ Moves(t, Idle) /\ disp' = disp
        /\ UNCHANGED <<pipes, gen, shut, queue, lost>>
    BY <1>7, PipeCloses DEF nodeVars
  <2>2. call[t].at # "closePort"
    BY <2>1
  <2> QED BY <2>1, <2>2, StillMoves, IdleIs
<1>8. ASSUME \/ \E h \in event : OnPortStatusChanged(h)
             \/ \E w \in Waits : WaitFor(w[1], w[2])
             \/ AddAwakable \/ RemoveAwakable
      PROVE  Still
  BY <1>8, StillSame DEF OnPortStatusChanged, WaitFor, AddAwakable, RemoveAwakable, nodeVars
<1> QED BY <1>2, <1>3, <1>4, <1>5, <1>6, <1>7, <1>8

\* Nobody has two owners, and nobody is forgotten.
Alone == Apart /\ LostOld /\ Found

\* Ends change hands, and none is forgotten.
LEMMA AloneStep ==
  ASSUME TypeOK, OwnInv, Alone, failed = {}, \A e \in End : HandOver(e),
         \A e \in End, t, u \in Thread :
           Closing(t, e)' /\ Closing(u, e)' => t = u,
         LostOld',
         \A e \in End : e[1] <= pipes /\ Somebodys(e) => Somebodys(e)',
         failed' = {} =>
           \A e \in End : e[1] <= pipes' /\ ~(e[1] <= pipes) => Somebodys(e)'
  PROVE  Alone'
<1>1. Apart'
  BY ApartStep DEF Alone
<1>2. Found'
  BY DEF Alone, Found
<1> QED BY <1>1, <1>2 DEF Alone

\* The two ends of a new pipe go to two new dispatchers.
LEMMA AloneCreates ==
  ASSUME TypeOK, TableInv, OwnInv, Alone, CreateMessagePipe
  PROVE  Alone'
<1> DEFINE a == next
           b == After(next)
           x == <<pipes + 1, 0>>
           y == <<pipes + 1, 1>>
<1>1. /\ next \in 0..LastHandle /\ disp \in [Handle -> Dispatcher] /\ LastHandle \in Nat
      /\ MaxPipes \in Nat /\ pipes \in 0..MaxPipes /\ failed = {}
  BY CoreAssumption DEF TypeOK, CreateMessagePipe, Creates
<1>2. /\ pipes < MaxPipes /\ pipes' = pipes + 1
      /\ UNCHANGED <<gen, shut, queue, lost, call>>
  BY DEF CreateMessagePipe
<1>3. \A e \in End : Mail(e)' <=> Mail(e)
  BY <1>2 DEF Mail, Carries, CarriesMsg
<1>4. \/ disp' = disp /\ failed' # {}
      \/ /\ a \in Handle /\ b \in Handle /\ a # b
         /\ disp[a] = None /\ disp[b] = None
         /\ disp'[a] = New("pipe", x, 0) /\ disp'[b] = New("pipe", y, 0)
         /\ \A h \in Handle : h # a /\ h # b => disp'[h] = disp[h]
  <2>1. CASE a = INVALID \/ b = INVALID
    BY <2>1 DEF CreateMessagePipe, OutOfHandles
  <2>2. CASE a # INVALID /\ b # INVALID
    <3>1. a \in Handle /\ b \in Handle /\ b = a + 1 /\ a # b /\ b >= next /\ a >= next
      BY <1>1, <2>2, AfterIs DEF INVALID, Handle
    <3>2. disp' = [disp EXCEPT ![a] = New("pipe", x, 0), ![b] = New("pipe", y, 0)]
      BY <2>2 DEF CreateMessagePipe
    <3>3. disp[a] = None /\ disp[b] = None
      BY <2>2, <3>1 DEF TableInv, Tables
    <3> HIDE DEF a, b, x, y
    <3> QED BY <1>1, <3>1, <3>2, <3>3
  <2> QED BY <2>1, <2>2
<1>5. /\ x \in End /\ y \in End /\ x[1] > pipes /\ y[1] > pipes
      /\ \A e \in End : e[1] <= pipes' /\ ~(e[1] <= pipes) => e = x \/ e = y
      /\ \A e \in End : ~(e[1] > pipes) => ~(e[1] > pipes')
  BY <1>1, <1>2 DEF End
<1> HIDE DEF a, b, x, y
<1>6. \A h \in Handle : disp[h].kind = "pipe" => disp'[h] = disp[h]
  BY <1>4, NoneIs
<1>7. ASSUME NEW e \in End, NEW h \in Handle
      PROVE  /\ Holds(h, e) => Holds(h, e)'
             /\ Holds(h, e)' => Holds(h, e) \/ e[1] > pipes
  <2>1. Holds(h, e) => Holds(h, e)'
    BY <1>2, <1>6 DEF Holds
  <2>2. disp'[h] = disp[h] => (Holds(h, e)' => Holds(h, e))
    BY <1>2 DEF Holds
  <2>3. disp'[h] # disp[h] => disp'[h].res \in {x, y}
    BY <1>4, NewHas
  <2>4. Holds(h, e)' => disp'[h].res = e
    BY DEF Holds
  <2> QED BY <1>5, <2>1, <2>2, <2>3, <2>4
<1>8. ASSUME NEW e \in End, NEW t \in Thread PROVE Closing(t, e)' <=> Closing(t, e)
  <2>1. call[t].at = "closePort" =>
          call[t].h \in Handle /\ disp[call[t].h].kind = "pipe"
    BY DEF TableInv, CallsOK, CallOK
  <2> QED BY <1>2, <1>6, <2>1 DEF Closing
<1>9. \A e \in End : /\ Held(e) => Held(e)'
                     /\ Held(e)' => Held(e) \/ e[1] > pipes
                     /\ Parting(e)' <=> Parting(e)
  BY <1>7, <1>8 DEF Held, Parting, Closing
<1>10. \A e \in End : HandOver(e)
  BY <1>2, <1>3, <1>9 DEF HandOver
<1>11. LostOld'
  BY <1>2, <1>5 DEF Alone, LostOld, TypeOK
<1>12. \A e \in End : Somebodys(e) => Somebodys(e)'
  BY <1>2, <1>3, <1>9 DEF Somebodys
<1>13. ASSUME failed' = {}, NEW e \in End, e[1] <= pipes', ~(e[1] <= pipes)
       PROVE  Somebodys(e)'
  <2>1. e \in {x, y} /\ gen[x] = 0 /\ gen[y] = 0
    BY <1>5, <1>13, FreshEnd
  <2>2. PICK h \in Handle : disp'[h] = New("pipe", e, 0)
    BY <1>4, <1>13, <2>1
  <2>3. Holds(h, e)'
    BY <1>2, <2>1, <2>2, NewHas DEF Holds
  <2> QED BY <2>3 DEF Somebodys, Held
<1>14. \A e \in End, t, u \in Thread :
         Closing(t, e)' /\ Closing(u, e)' => t = u
  BY <1>8 DEF Alone, Apart
<1> QED BY <1>1, <1>10, <1>11, <1>12, <1>13, <1>14, AloneStep

\* A dispatcher that is closed hands its end to the call that closes it.
LEMMA AloneCloses ==
  ASSUME TypeOK, TableInv, OwnInv, Alone, failed = {}, NEW t \in Thread,
         ClosePipe(t), ~disp[call[t].h].closed
  PROVE  Alone'
<1> DEFINE g == call[t].h
           f == disp[g].res
           c == [call[t] EXCEPT !.at = "closePort"]
<1>1. /\ call[t].at = "close" /\ g \in Handle /\ g \notin table
      /\ g \notin busy /\ disp[g].kind = "pipe"
      /\ UNCHANGED <<pipes, gen, shut, queue, lost, failed>>
      /\ disp' = [disp EXCEPT ![g].closed = TRUE] /\ Moves(t, c)
  BY PipeCloses DEF nodeVars
<1>2. c \in CallRec /\ c.h = g /\ c.at = "closePort"
  <2>1. call[t] \in CallRec
    BY CallOf
  <2> QED BY <2>1 DEF CallRec
<1>3. Holds(g, f) /\ f \in End
  <2>1. ~HandedOver(g)
    <3>1. ASSUME NEW u \in Thread, call[u].at = "finish", g \in ToSet(call[u].hs)
          PROVE  FALSE
      BY <1>1, <3>1, CarriedHas DEF Carrying
    <3> QED BY <3>1 DEF HandedOver
  <2> QED BY <1>1, <2>1 DEF OwnInv, Opens, Ends, PipeEnd, Holds
<1>4. \A h \in Handle : /\ disp'[h].kind = disp[h].kind /\ disp'[h].res = disp[h].res
                        /\ disp'[h].port = disp[h].port
                        /\ h = g => disp'[h].closed
                        /\ h # g => disp'[h] = disp[h]
  BY <1>1, ClosedIs
<1> HIDE DEF c
<1>5. call'[t] = c /\ \A u \in Thread : u # t => call'[u] = call[u]
  BY <1>1, <1>2, MovesIs
<1> HIDE DEF g
<1>6. \A e \in End : Mail(e)' <=> Mail(e)
  BY <1>1 DEF Mail, Carries, CarriesMsg
<1>7. \A e \in End, h \in Handle : Holds(h, e)' <=> Holds(h, e) /\ h # g
  BY <1>1, <1>4 DEF Holds
<1>8. ASSUME NEW e \in End, NEW u \in Thread
      PROVE  Closing(u, e)' <=> Closing(u, e) \/ (u = t /\ e = f)
  <2>1. CASE u = t
    BY <1>1, <1>2, <1>4, <1>5, <2>1 DEF Closing, g
  <2>2. CASE u # t
    <3>1. call'[u] = call[u]
      BY <1>5, <2>2
    <3>2. call[u].at = "closePort" => call[u].h \in Handle
      BY DEF TableInv, CallsOK, CallOK
    <3> QED BY <1>4, <2>2, <3>1, <3>2 DEF Closing
  <2> QED BY <2>1, <2>2
<1> HIDE DEF f
<1>9. \A e \in End : /\ Held(e)' => Held(e)
                     /\ Held(e) => Held(e)' \/ e = f
                     /\ Parting(e)' <=> Parting(e) \/ e = f
                     /\ e = f => Held(e)
  <2>1. \A e \in End : Held(e)' => Held(e)
    BY <1>7 DEF Held
  <2>2. \A e \in End : Holds(g, e) => e = f
    BY <1>3 DEF Holds
  <2>3. \A e \in End : Held(e) => Held(e)' \/ e = f
    BY <1>7, <2>2 DEF Held
  <2>4. \A e \in End : Parting(e) <=> \E u \in Thread : Closing(u, e)
    BY DEF Parting, Closing
  <2>5. \A e \in End : Parting(e)' <=> \E u \in Thread : Closing(u, e)'
    BY DEF Parting, Closing
  <2>6. \A e \in End : Parting(e)' <=> Parting(e) \/ e = f
    BY <1>8, <2>4, <2>5
  <2> QED BY <1>1, <1>3, <2>1, <2>3, <2>6 DEF Held
<1>10. \A e \in End : HandOver(e)
  BY <1>1, <1>6, <1>9 DEF HandOver
<1>11. \A e \in End, s, u \in Thread :
         Closing(s, e)' /\ Closing(u, e)' => s = u
  <2>1. \A u \in Thread : ~Closing(u, f)
    BY <1>1, <1>3 DEF OwnInv, Owned, Parting, Closing
  <2> QED BY <1>8, <2>1 DEF Alone, Apart
<1>12. \A e \in End : Somebodys(e) => Somebodys(e)'
  BY <1>1, <1>6, <1>9 DEF Somebodys
<1>13. LostOld' /\ pipes' = pipes
  BY <1>1 DEF Alone, LostOld
<1> QED BY <1>10, <1>11, <1>12, <1>13, AloneStep

\* What a message that can be sent carries goes from its dispatchers to a queue.
LEMMA SendMoves ==
  ASSUME TypeOK, TableInv, OwnInv, NEW t \in Thread, call[t].at = "send", Sends(t)
  PROVE  \A e \in End :
           /\ Mail(e)' <=> Mail(e) \/ e \in EndsOf(call[t].hs)
           /\ e \in EndsOf(call[t].hs) => Held(e)
           /\ \A h \in Handle :
                Holds(h, e)' <=> Holds(h, e) /\ e \notin EndsOf(call[t].hs)
           /\ \A u \in Thread : Closing(u, e)' <=> Closing(u, e)
<1> DEFINE hs == call[t].hs
           d == disp[call[t].h]
           to == Peer(d.res)
           m == CargoOf(hs)
           E == EndsOf(hs)
           c == SendDone(call[t], TRUE, TRUE)
<1>1. /\ Sendable(d, hs) /\ queue' = [queue EXCEPT ![to] = Append(queue[to], m)]
      /\ gen' = [e \in End |-> IF e \in E THEN gen[e] + 1 ELSE gen[e]]
      /\ Moves(t, c) /\ UNCHANGED disp
  BY Zenon DEF Sends
<1>2. to \in End
  BY ReadFinds, PeerIs DEF OwnInv
<1>3. m \in Seq(Cargo)
  BY CargoOfIs DEF Carrying
<1>4. /\ \A e : CarriesMsg(m, e) <=> e \in E
      /\ \A e \in E : \E h \in ToSet(hs) : h \in Handle /\ Holds(h, e)
  BY <1>1, SendHolds
<1>5. c \in CallRec /\ c.at \in {"idle", "finish"}
  <2>1. TRUE \in BOOLEAN
    OBVIOUS
  <2> QED BY <2>1, SendDoneIs, Zenon
<1>6. call'[t] = c /\ \A u \in Thread : u # t => call'[u] = call[u]
  BY <1>1, <1>5, MovesIs
<1> HIDE DEF c, E, m, to, d, hs
<1>7. \A e : Carries(queue'[to], e) <=> Carries(queue[to], e) \/ CarriesMsg(m, e)
  <2>1. queue'[to] = Append(queue[to], m) /\ queue[to] \in Seq(Seq(Cargo))
    BY <1>1, <1>2 DEF TypeOK
  <2> QED BY <1>3, <2>1, AppendQ
<1>8. \A f \in End : f # to => queue'[f] = queue[f]
  BY <1>1 DEF TypeOK
<1>9. ASSUME NEW e \in End PROVE Mail(e)' <=> Mail(e) \/ e \in E
  <2>1. Mail(e)' <=> \E f \in End : Carries(queue'[f], e)
    BY DEF Mail, Carries, CarriesMsg
  <2>2. Mail(e) <=> \E f \in End : Carries(queue[f], e)
    BY DEF Mail
  <2> QED BY <1>2, <1>4, <1>7, <1>8, <2>1, <2>2
<1>10. \A e \in End : gen'[e] = (IF e \in E THEN gen[e] + 1 ELSE gen[e]) /\ gen[e] \in Nat
  BY <1>1 DEF TypeOK
<1>11. ASSUME NEW h \in Handle, NEW e \in End
       PROVE  Holds(h, e)' <=> Holds(h, e) /\ e \notin E
  <2>1. disp[h].kind = "pipe" /\ disp[h].res = e => disp[h].port <= gen[e]
    BY DEF OwnInv, Ends
  <2>2. disp[h].port \in Nat
    BY DispOf
  <2>3. disp[h].kind = "pipe" /\ disp[h].res = e /\ e \in E => disp[h].port # gen'[e]
    BY <1>10, <2>1, <2>2
  <2> QED BY <1>1, <1>10, <2>3 DEF Holds
<1>12. ASSUME NEW u \in Thread, NEW e \in End PROVE Closing(u, e)' <=> Closing(u, e)
  BY <1>1, <1>5, <1>6 DEF Closing
<1>13. \A e \in E : Held(e)
  BY <1>4 DEF Held
<1> QED BY <1>9, <1>11, <1>12, <1>13 DEF E, hs

\* A message is sent.
LEMMA AloneSends ==
  ASSUME TypeOK, TableInv, OwnInv, Alone, failed = {}, NEW t \in Thread,
         SendMessage(t), Sends(t)
  PROVE  Alone'
<1> DEFINE E == EndsOf(call[t].hs)
<1>1. call[t].at = "send" /\ UNCHANGED <<pipes, shut, lost, failed>>
  BY SendIs
<1>2. \A e \in End : /\ Mail(e)' <=> Mail(e) \/ e \in E
                     /\ e \in E => Held(e)
                     /\ \A h \in Handle : Holds(h, e)' <=> Holds(h, e) /\ e \notin E
                     /\ \A u \in Thread : Closing(u, e)' <=> Closing(u, e)
  BY <1>1, SendMoves
<1> HIDE DEF E
<1>3. \A e \in End : /\ Held(e)' <=> Held(e) /\ e \notin E
                     /\ Parting(e)' <=> Parting(e)
  BY <1>2 DEF Held, Parting, Closing
<1>4. \A e \in End : HandOver(e)
  BY <1>1, <1>2, <1>3 DEF HandOver
<1>5. \A e \in End, s, u \in Thread :
        Closing(s, e)' /\ Closing(u, e)' => s = u
  BY <1>2 DEF Alone, Apart
<1>6. \A e \in End : Somebodys(e) => Somebodys(e)'
  BY <1>1, <1>2, <1>3 DEF Somebodys
<1>7. LostOld' /\ pipes' = pipes
  BY <1>1 DEF Alone, LostOld
<1> QED BY <1>4, <1>5, <1>6, <1>7, AloneStep

\* A write whose EndSerialize failed ends: its dispatchers let go of their ends.
LEMMA AloneLoses ==
  ASSUME TypeOK, TableInv, OwnInv, Alone, failed = {}, NEW t \in Thread,
         CompleteTransitAndClose(t), ~call[t].sent
  PROVE  Alone'
<1> DEFINE hs == ToSet(call[t].hs)
           E == EndsOf(call[t].hs)
<1>1. /\ call[t].at = "finish" /\ Moves(t, Idle) /\ UNCHANGED <<pipes, gen, shut, queue>>
      /\ disp' = [h \in Handle |-> IF h \in hs THEN Transferred(disp[h]) ELSE disp[h]]
      /\ lost' = lost \cup E
  BY DEF CompleteTransitAndClose, At, Moves
<1>2. /\ hs \in SUBSET Handle /\ hs \subseteq table /\ Carried(call[t]) = hs
  BY <1>1, CarriedHas DEF Carrying
<1>3. ASSUME NEW h \in hs, disp[h].kind = "pipe"
      PROVE  Holds(h, disp[h].res) /\ disp[h].res \in E /\ PipeEnd(disp[h].res)
  <2>1. ~disp[h].closed /\ h \in Handle
    BY <1>2, <1>3 DEF TableInv, Tables
  <2>2. ~HandedOver(h)
    <3>1. ASSUME NEW u \in Thread, call[u].at = "finish", call[u].sent, h \in ToSet(call[u].hs)
          PROVE  FALSE
      <4>1. u # t /\ h \in Carried(call[u])
        BY <3>1 DEF Carried, Carrying
      <4> QED BY <1>2, <4>1 DEF TableInv, Transit
    <3> QED BY <3>1 DEF HandedOver
  <2> QED BY <1>3, <2>1, <2>2 DEF OwnInv, Opens, Ends, Holds, EndsOf
<1>4. \A e \in E : \E h \in hs : disp[h].kind = "pipe" /\ disp[h].res = e
  BY DEF EndsOf
<1> HIDE DEF hs, E
<1>5. ASSUME NEW h \in Handle
      PROVE  /\ disp'[h].kind = disp[h].kind /\ disp'[h].res = disp[h].res
             /\ h \in hs => disp'[h].closed
             /\ h \notin hs => disp'[h] = disp[h]
  <2>1. disp[h] \in Dispatcher
    BY DispOf
  <2> QED BY <1>1, <2>1, TransferredIs
<1>6. \A e \in End, h \in Handle : Holds(h, e)' <=> Holds(h, e) /\ h \notin hs
  BY <1>1, <1>5 DEF Holds
<1>7. \A e \in End : Mail(e)' <=> Mail(e)
  BY <1>1 DEF Mail, Carries, CarriesMsg
<1>8. ASSUME NEW e \in End, NEW u \in Thread PROVE Closing(u, e)' <=> Closing(u, e)
  <2>1. call'[t] = Idle /\ \A v \in Thread : v # t => call'[v] = call[v]
    BY <1>1, MovesIs, IdleIs
  <2>2. CASE u = t
    BY <1>1, <2>1, <2>2, IdleIs DEF Closing
  <2>3. CASE u # t
    <3>1. call'[u] = call[u]
      BY <2>1, <2>3
    <3>2. call[u].at = "closePort" => call[u].h \in Handle
      BY DEF TableInv, CallsOK, CallOK
    <3> QED BY <1>5, <3>1, <3>2 DEF Closing
  <2> QED BY <2>2, <2>3
<1>9. ASSUME NEW e \in E
      PROVE  /\ e \in End /\ ~(e[1] > pipes) /\ Held(e) /\ ~Held(e)' /\ ~Mail(e)
             /\ ~Parting(e) /\ e \notin shut
  <2>1. PICK h \in hs : Holds(h, e) /\ PipeEnd(e)
    BY <1>3, <1>4
  <2>2. e \in End /\ h \in Handle /\ e[1] <= pipes
    BY <1>2, <2>1 DEF PipeEnd
  <2>3. ~(e[1] > pipes)
    BY <2>2 DEF End, TypeOK
  <2>4. \A k \in Handle : Holds(k, e) => k \in hs
    BY <2>1, <2>2 DEF OwnInv, Owned
  <2>5. ~Held(e)'
    BY <1>6, <2>2, <2>4 DEF Held
  <2> QED BY <2>1, <2>2, <2>3, <2>5 DEF OwnInv, Owned, Held
<1>10. \A e \in End : /\ Held(e)' => Held(e)
                      /\ Held(e) => Held(e)' \/ e \in E
                      /\ Parting(e)' <=> Parting(e)
  <2>1. \A e \in End : Held(e)' => Held(e)
    BY <1>6 DEF Held
  <2>2. \A e \in End, h \in hs : Holds(h, e) => e \in E
    BY <1>3 DEF Holds
  <2>3. \A e \in End : Held(e) => Held(e)' \/ e \in E
    BY <1>6, <2>2 DEF Held
  <2> QED BY <1>8, <2>1, <2>3 DEF Parting, Closing
<1>11. \A e \in End : HandOver(e)
  BY <1>1, <1>7, <1>9, <1>10 DEF HandOver
<1>12. \A e \in End, s, u \in Thread :
         Closing(s, e)' /\ Closing(u, e)' => s = u
  BY <1>8 DEF Alone, Apart
<1>13. \A e \in End : Somebodys(e) => Somebodys(e)'
  BY <1>1, <1>7, <1>10 DEF Somebodys
<1>14. LostOld' /\ pipes' = pipes
  BY <1>1, <1>9 DEF Alone, LostOld
<1> QED BY <1>11, <1>12, <1>13, <1>14, AloneStep

\* Who is closing what when a call ends and some handles get a dispatcher.
LEMMA ClosingQuits ==
  ASSUME TypeOK, TableInv, NEW t \in Thread, call' = [call EXCEPT ![t] = Idle],
         NEW new \in SUBSET Handle, \A h \in new : disp[h] = None,
         \A h \in Handle : h \notin new => disp'[h] = disp[h]
  PROVE  /\ \A e : \A u \in Thread : Closing(u, e)' <=> Closing(u, e) /\ u # t
         /\ \A e : Parting(e) <=> \E u \in Thread : Closing(u, e)
         /\ \A e : Parting(e)' <=> \E u \in Thread : Closing(u, e)'
<1>1. ASSUME NEW e, NEW u \in Thread PROVE Closing(u, e)' <=> Closing(u, e) /\ u # t
  <2>1. call'[t] = Idle /\ (u # t => call'[u] = call[u]) /\ Idle.at # "closePort"
    BY IdleIs DEF TypeOK
  <2>2. call[u].at = "closePort" => call[u].h \in Handle /\ disp[call[u].h].kind = "pipe"
    BY DEF TableInv, CallsOK, CallOK
  <2>3. call[u].at = "closePort" => disp'[call[u].h] = disp[call[u].h]
    BY <2>2, NoneIs
  <2> QED BY <2>1, <2>3 DEF Closing
<1> QED BY <1>1 DEF Parting, Closing

\* What a queue carried that loses its first message.
LEMMA PopsRest ==
  ASSUME TypeOK, NEW f \in End, queue[f] # <<>>,
         queue' = [queue EXCEPT ![f] = Tail(queue[f])], NEW e \in End, Mail(e)
  PROVE  Mail(e)' \/ CarriesMsg(Head(queue[f]), e)
<1>1. queue'[f] = Tail(queue[f]) /\ \A g \in End : g # f => queue'[g] = queue[g]
  BY DEF TypeOK
<1>2. queue[f] \in Seq(Seq(Cargo))
  BY DEF TypeOK
<1>3. \A i \in DOMAIN queue[f] : i = 1 \/ (i - 1 \in DOMAIN Tail(queue[f])
                                           /\ Tail(queue[f])[i - 1] = queue[f][i])
  BY <1>2
<1>4. Head(queue[f]) = queue[f][1]
  BY <1>2
<1>5. Carries(queue[f], e) => CarriesMsg(Head(queue[f]), e) \/ Carries(Tail(queue[f]), e)
  BY <1>3, <1>4 DEF Carries
<1>6. Mail(e)' <=> \E g \in End : Carries(queue'[g], e)
  BY DEF Mail, Carries, CarriesMsg
<1> QED BY <1>1, <1>5, <1>6 DEF Mail

\* A message is destroyed: the ends in it are lost.
LEMMA AloneDiscards ==
  ASSUME TypeOK, TableInv, OwnInv, Alone, failed = {}, NEW t \in Thread,
         ReadDiscards(t)
  PROVE  Alone'
<1> DEFINE f == disp[call[t].h].res
           m == Head(queue[f])
<1>1. /\ call[t].at = "read" /\ queue[f] # <<>> /\ call' = [call EXCEPT ![t] = Idle]
      /\ UNCHANGED <<pipes, gen, disp, shut, failed>>
      /\ queue' = [queue EXCEPT ![f] = Tail(queue[f])]
      /\ lost' = lost \cup {c.res : c \in {x \in ToSet(m) : x.kind = "pipe"}}
  BY DEF ReadDiscards, At
<1>2. f \in End
  BY <1>1, ReadFinds DEF OwnInv
<1>3. \A e \in lost' : e \in lost \/ CarriesMsg(m, e)
  BY <1>1 DEF ToSet, CarriesMsg
<1>4. \A e : CarriesMsg(m, e) => e \in lost'
  BY <1>1 DEF ToSet, CarriesMsg
<1>5. lost' \subseteq End
  BY TypeDrops DEF TypeOK, OwnInv
<1>6. LessMail /\ \A e \in End : CarriesMsg(m, e) => Mail(e) /\ ~Mail(e)'
  BY <1>1, <1>2, PopsMail
<1>7. \A e \in End : Mail(e) => Mail(e)' \/ CarriesMsg(m, e)
  BY <1>1, <1>2, PopsRest
<1> HIDE DEF m, f
<1>8. \A e \in End : Mail(e)' => Mail(e)
  BY <1>6 DEF LessMail, Mail
<1>9. /\ \A e : \A u \in Thread : Closing(u, e)' <=> Closing(u, e) /\ u # t
      /\ \A e : Parting(e) <=> \E u \in Thread : Closing(u, e)
      /\ \A e : Parting(e)' <=> \E u \in Thread : Closing(u, e)'
  <2>1. {} \in SUBSET Handle
    OBVIOUS
  <2> QED BY <1>1, <2>1, ClosingQuits
<1>10. \A e : \A u \in Thread : Closing(u, e)' <=> Closing(u, e)
  <2>1. \A e : ~Closing(t, e)
    BY <1>1 DEF Closing
  <2> QED BY <1>9, <2>1
<1>11. \A e \in End : (Held(e)' <=> Held(e)) /\ (Parting(e)' <=> Parting(e))
  BY <1>1, <1>9, <1>10 DEF Held, Holds
<1>12. \A e \in End : Mail(e) =>
         e[1] <= pipes /\ e \notin shut /\ ~Parting(e) /\ ~Held(e)
  BY MailOld DEF Held
<1>13. \A e \in End : HandOver(e)
  BY <1>1, <1>3, <1>6, <1>8, <1>11, <1>12 DEF HandOver
<1>14. \A e \in End, s, u \in Thread :
         Closing(s, e)' /\ Closing(u, e)' => s = u
  BY <1>10 DEF Alone, Apart
<1>15. LostOld'
  <2>1. \A e \in End : e[1] <= pipes => ~(e[1] > pipes)
    BY DEF End, TypeOK
  <2> QED BY <1>1, <1>3, <1>5, <1>6, <1>12, <2>1 DEF Alone, LostOld
<1>16. \A e \in End : Somebodys(e) => Somebodys(e)'
  BY <1>1, <1>4, <1>7, <1>11 DEF Somebodys
<1>17. pipes' = pipes
  BY <1>1
<1> QED BY <1>13, <1>14, <1>15, <1>16, <1>17, AloneStep

\* A message is read: the ends in it go to new dispatchers.
LEMMA AloneTakes ==
  ASSUME TypeOK, TableInv, OwnInv, Alone, failed = {}, NEW t \in Thread,
         ReadTakes(t), "overflow" \notin failed',
         next # INVALID \/ Head(queue[disp[call[t].h].res]) = <<>>
  PROVE  Alone'
<1> DEFINE d == disp[call[t].h]
           f == d.res
           m == Head(queue[f])
           to == FromTransit(m)
<1>1. /\ call[t].at = "read" /\ queue[f] # <<>> /\ call' = [call EXCEPT ![t] = Idle]
      /\ UNCHANGED <<pipes, gen, lost>>
  BY DEF ReadTakes, At
<1>2. f \in End /\ Ends
  BY <1>1, ReadFinds DEF OwnInv
<1>3. m \in Seq(Cargo) /\ \A j \in DOMAIN m : m[j] \in Cargo
  BY <1>1, <1>2, HeadIs
<1>4. /\ queue' = [queue EXCEPT ![f] = Tail(queue[f])]
      /\ disp' = [h \in Handle |->
                    IF \E i \in DOMAIN to : to[i] = h
                    THEN Deserialized(m[CHOOSE i \in DOMAIN to : to[i] = h])
                    ELSE disp[h]]
      /\ failed' = failed \cup (IF INVALID \in ToSet(to) THEN {"overflow"} ELSE {})
      /\ UNCHANGED shut
  BY DEF ReadTakes
<1>5. INVALID \notin ToSet(to)
  BY <1>4
<1>6. LessMail /\ \A e \in End : CarriesMsg(m, e) => Mail(e) /\ ~Mail(e)'
  BY <1>1, <1>2, <1>4, PopsMail
<1>7. \A e \in End : Mail(e) => Mail(e)' \/ CarriesMsg(m, e)
  BY <1>1, <1>2, <1>4, PopsRest
<1>8. next # INVALID \/ m = <<>>
  OBVIOUS
<1> HIDE DEF m, f, d
<1>9. /\ ToSet(to) \subseteq Handle
      /\ \A h \in Handle : h \notin ToSet(to) => disp'[h] = disp[h]
      /\ \A h \in ToSet(to) : /\ h >= next /\ h - next + 1 \in DOMAIN m
                              /\ disp'[h] = Deserialized(m[h - next + 1])
  BY <1>3, <1>4, <1>5, <1>8, TakesIs
<1>10. \A i \in DOMAIN m : \E h \in ToSet(to) : h - next + 1 = i
  <2>1. \A i \in DOMAIN m : to[i] = next + i - 1 /\ to[i] \in Handle
    BY <1>3, <1>5, <1>8, FromTransitIs
  <2>2. DOMAIN to = DOMAIN m /\ \A i \in DOMAIN m : i \in Nat
    BY <1>3 DEF FromTransit
  <2>3. \A i \in DOMAIN m : to[i] \in ToSet(to)
    BY <2>2 DEF ToSet
  <2>4. next \in Nat
    BY CoreAssumption DEF TypeOK
  <2> HIDE DEF to
  <2>5. \A i \in DOMAIN m : to[i] - next + 1 = i
    BY <2>1, <2>2, <2>4
  <2> QED BY <2>3, <2>5
<1> DEFINE new == ToSet(to)
<1> HIDE DEF to
<1>11. \A h \in new : disp[h] = None
  <2>1. CASE m = <<>>
    BY <1>9, <2>1
  <2>2. CASE next # INVALID
    BY <1>9, <2>2 DEF TableInv, Tables
  <2> QED BY <1>8, <2>1, <2>2
<1>12. new \in SUBSET Handle
  BY <1>9
<1> HIDE DEF new
<1>13. \A h \in Handle : h \notin new => disp'[h] = disp[h]
  BY <1>9 DEF new
<1>14. /\ \A e : \A u \in Thread : Closing(u, e)' <=> Closing(u, e) /\ u # t
       /\ \A e : Parting(e) <=> \E u \in Thread : Closing(u, e)
       /\ \A e : Parting(e)' <=> \E u \in Thread : Closing(u, e)'
  BY <1>1, <1>11, <1>12, <1>13, ClosingQuits
<1>15. \A e : \A u \in Thread : Closing(u, e)' <=> Closing(u, e)
  <2>1. \A e : ~Closing(t, e)
    BY <1>1 DEF Closing
  <2> QED BY <1>14, <2>1
<1>16. \A e \in End : Parting(e)' <=> Parting(e)
  BY <1>14, <1>15
<1>17. ASSUME NEW h \in Handle, NEW e \in End
       PROVE  /\ Holds(h, e) => Holds(h, e)'
              /\ Holds(h, e)' => Holds(h, e) \/ CarriesMsg(m, e)
  <2>1. CASE h \notin new
    BY <1>1, <1>13, <2>1 DEF Holds
  <2>2. CASE h \in new
    <3>1. ~Holds(h, e)
      BY <1>11, <2>2, NoneIs DEF Holds
    <3>2. h - next + 1 \in DOMAIN m /\ disp'[h] = Deserialized(m[h - next + 1])
      BY <1>9, <2>2 DEF new
    <3>3. Holds(h, e)' => CarriesMsg(m, e)
      BY <1>3, <3>2, CargoHas DEF Holds, CarriesMsg
    <3> QED BY <3>1, <3>3
  <2> QED BY <2>1, <2>2
<1>18. ASSUME NEW e \in End, CarriesMsg(m, e) PROVE Held(e)'
  <2>1. PICK j \in DOMAIN m : m[j].kind = "pipe" /\ m[j].res = e
    BY <1>18 DEF CarriesMsg
  <2>2. PICK h \in new : h - next + 1 = j
    BY <1>10, <2>1 DEF new
  <2>3. disp'[h] = Deserialized(m[j]) /\ h \in Handle
    BY <1>9, <2>2 DEF new
  <2>4. Holds(h, e)'
    BY <1>1, <1>3, <2>1, <2>3, CargoHas DEF Holds
  <2> QED BY <2>3, <2>4 DEF Held
<1>19. \A e \in End : (Held(e) => Held(e)') /\ (Held(e)' => Held(e) \/ CarriesMsg(m, e))
  BY <1>17 DEF Held
<1>20. \A e \in End : Mail(e)' => Mail(e)
  BY <1>6 DEF LessMail, Mail
<1>21. \A e \in End : HandOver(e)
  BY <1>1, <1>4, <1>6, <1>16, <1>19, <1>20 DEF HandOver
<1>22. \A e \in End, s, u \in Thread :
         Closing(s, e)' /\ Closing(u, e)' => s = u
  BY <1>15 DEF Alone, Apart
<1>23. \A e \in End : Somebodys(e) => Somebodys(e)'
  BY <1>1, <1>4, <1>7, <1>16, <1>18, <1>19 DEF Somebodys
<1>24. LostOld' /\ pipes' = pipes
  BY <1>1 DEF Alone, LostOld
<1> QED BY <1>21, <1>22, <1>23, <1>24, AloneStep

\* Ends in messages, and the one a call is closing, are closed.
LEMMA AloneShuts ==
  ASSUME TypeOK, TableInv, OwnInv, Alone, failed = {}, NEW t \in Thread,
         call' = [call EXCEPT ![t] = Idle], UNCHANGED <<pipes, gen, disp, lost>>,
         NEW all \in SUBSET End, shut' = shut \cup all,
         \A e \in End : Mail(e)' => Mail(e),
         \A e \in End : Mail(e) => Mail(e)' \/ e \in all,
         \A e \in all : Mail(e) \/ Closing(t, e),
         \A e \in End : Closing(t, e) => e \in all
  PROVE  Alone'
<1>1. /\ \A e : \A u \in Thread : Closing(u, e)' <=> Closing(u, e) /\ u # t
      /\ \A e : Parting(e) <=> \E u \in Thread : Closing(u, e)
      /\ \A e : Parting(e)' <=> \E u \in Thread : Closing(u, e)'
  <2>1. {} \in SUBSET Handle
    OBVIOUS
  <2> QED BY <2>1, ClosingQuits
<1>2. \A e \in End, s, u \in Thread : Closing(s, e) /\ Closing(u, e) => s = u
  BY DEF Alone, Apart
<1>3. \A e \in End : Mail(e) => ~Parting(e) /\ e \notin shut
  BY MailOld
<1>4. ASSUME NEW e \in all PROVE (Mail(e) \/ Parting(e)) /\ ~Parting(e)'
  <2>1. e \in End
    OBVIOUS
  <2>2. CASE Mail(e)
    BY <1>1, <1>3, <2>1, <2>2
  <2>3. CASE Closing(t, e)
    BY <1>1, <1>2, <2>1, <2>3
  <2> QED BY <2>2, <2>3
<1>5. \A e \in End : (Parting(e)' => Parting(e)) /\ (Parting(e) => Parting(e)' \/ e \in all)
  BY <1>1
<1>6. \A e \in End : Held(e)' <=> Held(e)
  BY DEF Held, Holds
<1>7. \A e \in End : HandOver(e)
  BY <1>4, <1>5, <1>6 DEF HandOver
<1>8. \A e \in End, s, u \in Thread :
        Closing(s, e)' /\ Closing(u, e)' => s = u
  BY <1>1, <1>2
<1>9. \A e \in End : Somebodys(e) => Somebodys(e)'
  BY <1>5, <1>6 DEF Somebodys
<1>10. LostOld' /\ pipes' = pipes
  BY DEF Alone, LostOld
<1> QED BY <1>7, <1>8, <1>9, <1>10, AloneStep

\* A port is closed, and the ports inside it.
LEMMA AloneClosesPort ==
  ASSUME TypeOK, TableInv, OwnInv, Alone, failed = {}, NEW t \in Thread, ClosePort(t)
  PROVE  Alone'
<1> DEFINE f == disp[call[t].h].res
           all == Inside({f})
<1>1. /\ call[t].at = "closePort" /\ call' = [call EXCEPT ![t] = Idle]
      /\ UNCHANGED <<pipes, gen, disp, lost>> /\ ClosePorts({f})
  BY DEF ClosePort, At
<1>2. f \in End /\ Ends
  BY <1>1, ReadFinds DEF OwnInv
<1>3. \A e : Closing(t, e) <=> e = f
  BY <1>1 DEF Closing
<1> HIDE DEF f
<1>4. /\ shut' = shut \cup all
      /\ queue' = [e \in End |-> IF e \in all THEN <<>> ELSE queue[e]]
  BY <1>1 DEF ClosePorts
<1>5. /\ all \in SUBSET End /\ f \in all
      /\ \A e \in all : e = f \/ \E g \in all : Carries(queue[g], e)
      /\ \A g \in all : \A e : Carries(queue[g], e) => e \in all
  BY <1>2, InsideIs
<1> HIDE DEF all
<1>6. ASSUME NEW e \in End
      PROVE  (Mail(e)' => Mail(e)) /\ (Mail(e) => Mail(e)' \/ e \in all)
  <2>1. Mail(e)' <=> \E g \in End : Carries(queue'[g], e)
    BY DEF Mail, Carries, CarriesMsg
  <2>2. ~Carries(<<>>, e)
    BY DEF Carries
  <2>3. \A g \in End : queue'[g] = IF g \in all THEN <<>> ELSE queue[g]
    BY <1>4
  <2> QED BY <1>5, <2>1, <2>2, <2>3 DEF Mail
<1>7. \A e \in all : Mail(e) \/ Closing(t, e)
  BY <1>3, <1>5 DEF Mail
<1>8. \A e \in End : Closing(t, e) => e \in all
  BY <1>3, <1>5
<1> QED BY <1>1, <1>4, <1>5, <1>6, <1>7, <1>8, AloneShuts

\* The table is full: the ends in the message are closed.
LEMMA AloneUntaken ==
  ASSUME TypeOK, TableInv, OwnInv, Alone, failed = {}, NEW t \in Thread, ReadTakes(t),
         ~(next # INVALID \/ Head(queue[disp[call[t].h].res]) = <<>>)
  PROVE  Alone'
<1> DEFINE f == disp[call[t].h].res
           m == Head(queue[f])
           ends == {c.res : c \in {x \in ToSet(m) : x.kind = "pipe"}}
           all == Inside(ends)
<1>1. /\ call[t].at = "read" /\ queue[f] # <<>> /\ call' = [call EXCEPT ![t] = Idle]
      /\ UNCHANGED <<pipes, gen, disp, lost>> /\ CloseUntaken(f, ends)
  BY DEF ReadTakes, At
<1>2. f \in End /\ Ends
  BY <1>1, ReadFinds DEF OwnInv
<1>3. \A j \in DOMAIN m : m[j].kind = "pipe" => m[j].res \in End
  BY <1>1, <1>2, HeadIs DEF PipeEnd
<1>4. ends \in SUBSET End /\ \A e : e \in ends <=> CarriesMsg(m, e)
  BY <1>3 DEF ToSet, CarriesMsg
<1>5. queue[f] \in Seq(Seq(Cargo))
  BY <1>2 DEF TypeOK
<1>6. \A e : /\ CarriesMsg(m, e) => Carries(queue[f], e)
             /\ Carries(Tail(queue[f]), e) => Carries(queue[f], e)
  BY <1>1, <1>5, TailQ
<1>7. \A e : Carries(queue[f], e) => CarriesMsg(m, e) \/ Carries(Tail(queue[f]), e)
  <2>1. \A i \in DOMAIN queue[f] : i = 1 \/ (i - 1 \in DOMAIN Tail(queue[f])
                                             /\ Tail(queue[f])[i - 1] = queue[f][i])
    <3>1. queue[f] # <<>>
      BY <1>1
    <3> HIDE DEF f
    <3> QED BY <1>5, <3>1
  <2>2. m = queue[f][1]
    BY <1>1, <1>2, HeadIs
  <2> QED BY <2>1, <2>2 DEF Carries
<1>8. \A e : ~Closing(t, e)
  BY <1>1 DEF Closing
<1> HIDE DEF ends, m, f
<1>9. /\ shut' = shut \cup all
      /\ queue' = [e \in End |-> IF e \in all THEN <<>>
                                ELSE IF e = f THEN Tail(queue[e]) ELSE queue[e]]
  BY <1>1 DEF CloseUntaken
<1>10. /\ all \in SUBSET End /\ ends \subseteq all
       /\ \A e \in all : e \in ends \/ \E g \in all : Carries(queue[g], e)
       /\ \A g \in all : \A e : Carries(queue[g], e) => e \in all
  BY <1>2, <1>4, InsideIs
<1> HIDE DEF all
<1>11. ASSUME NEW e \in End
       PROVE  (Mail(e)' => Mail(e)) /\ (Mail(e) => Mail(e)' \/ e \in all)
  <2>1. Mail(e)' <=> \E g \in End : Carries(queue'[g], e)
    BY DEF Mail, Carries, CarriesMsg
  <2>2. ~Carries(<<>>, e)
    BY DEF Carries
  <2>3. \A g \in End : queue'[g] = IF g \in all THEN <<>>
                                   ELSE IF g = f THEN Tail(queue[f]) ELSE queue[g]
    BY <1>9
  <2> QED BY <1>2, <1>4, <1>6, <1>7, <1>10, <2>1, <2>2, <2>3 DEF Mail
<1>12. \A e \in all : Mail(e) \/ Closing(t, e)
  BY <1>2, <1>4, <1>6, <1>10 DEF Mail
<1> QED BY <1>1, <1>8, <1>9, <1>10, <1>11, <1>12, AloneShuts

-----------------------------------------------------------------------------
(* Dispatchers that have handed over what they had.                        *)

\* The write of c was sent.
Over(c) == c.at = "finish" /\ c.sent

\* A call that moves on and neither was nor is at the end of a write that was sent.
LEMMA HandedMoves ==
  ASSUME TypeOK, NEW t \in Thread, NEW c \in CallRec, Moves(t, c),
         ~Over(c), ~Over(call[t]), NEW h
  PROVE  HandedOver(h)' <=> HandedOver(h)
<1>1. call'[t] = c /\ \A u \in Thread : u # t => call'[u] = call[u]
  BY MovesIs
<1> QED BY <1>1 DEF HandedOver, Over

\* Only sending a message and completing its transit change who has handed over.
LEMMA HandedStep ==
  ASSUME TypeOK, TableInv, SentOK, [Next]_vars,
         \A t \in Thread : ~CompleteTransitAndClose(t) /\ ~(SendMessage(t) /\ Sends(t))
  PROVE  \A h : HandedOver(h)' <=> HandedOver(h)
<1> DEFINE Same == \A h : HandedOver(h)' <=> HandedOver(h)
<1>1. ASSUME call' = call PROVE Same
  BY <1>1 DEF HandedOver
<1>2. ASSUME NEW t \in Thread, NEW c \in CallRec, Moves(t, c), ~Over(c), ~Over(call[t])
      PROVE  Same
  BY <1>2, HandedMoves
<1> HIDE DEF Same
<1>3. ASSUME NEW t \in Thread, Moves(t, Idle), ~Over(call[t]) PROVE Same
  BY <1>2, <1>3, IdleIs DEF Over
<1>4. ASSUME NEW t \in Thread, NEW h \in table,
             \/ \E hs \in Bundles : WriteMessage(t, h, hs)
             \/ ReadMessage(t, h) \/ UseBuffer(t, h) \/ Close(t, h)
      PROVE  Same
  <2>1. \E c \in CallRec : Moves(t, c) /\ c.at # "closePort"
    BY <1>4, PlainCalls
  <2>2. PICK c \in CallRec : Moves(t, c)
    BY <2>1
  <2>3. call[t] = Idle
    BY <1>4 DEF WriteMessage, ReadMessage, UseBuffer, Close, Calls
  <2>4. ~Over(call[t])
    BY <2>3, IdleIs DEF Over
  <2>5. call'[t] = c
    BY <2>2, MovesIs
  <2>6. call'[t].at # "finish"
    <3>1. ASSUME NEW hs \in Bundles, WriteMessage(t, h, hs) PROVE call'[t].at # "finish"
      <4> DEFINE at == IF hs = <<>> THEN "check" ELSE "begin"
      <4>1. Moves(t, Starts(at, h, hs))
        BY <3>1 DEF WriteMessage, Moves, Starts
      <4>2. hs \in Seq(Handle) /\ h \in Handle
        BY CoreAssumption DEF Handle, TypeOK
      <4>3. at \in {"begin", "check", "checkRead", "close", "buffer"} /\ at # "finish"
        OBVIOUS
      <4> HIDE DEF at
      <4>4. Starts(at, h, hs) \in CallRec /\ Starts(at, h, hs).at = at
        BY <4>2, <4>3, StartsIs
      <4>5. call'[t] = Starts(at, h, hs)
        BY <4>1, <4>4, MovesIs, Zenon
      <4> QED BY <4>3, <4>4, <4>5
    <3>2. ASSUME NEW at \in {"checkRead", "buffer", "close"},
                 call' = [call EXCEPT ![t] = [Idle EXCEPT !.at = at, !.h = h]]
          PROVE  call'[t].at # "finish"
      BY <3>2 DEF TypeOK, Idle
    <3> QED BY <1>4, <3>1, <3>2 DEF ReadMessage, UseBuffer, Close
  <2> QED BY <1>2, <2>2, <2>4, <2>5, <2>6 DEF Over
<1>5. ASSUME NEW t \in Thread,
             NEW at \in {"check", "send", "peerClosed", "finish", "read", "closePort"},
             call[t].at # "finish", Moves(t, [call[t] EXCEPT !.at = at])
      PROVE  Same
  <2> DEFINE c == [call[t] EXCEPT !.at = at]
  <2>1. c \in CallRec /\ c.sent = call[t].sent
    <3>1. call[t] \in CallRec
      BY CallOf
    <3> QED BY <3>1 DEF CallRec
  <2>2. ~call[t].sent
    BY <1>5 DEF SentOK, SentRec
  <2> HIDE DEF c
  <2>3. ~Over(c) /\ ~Over(call[t])
    BY <2>1, <2>2 DEF Over
  <2>4. Moves(t, c)
    BY <1>5 DEF c
  <2> QED BY <1>2, <2>1, <2>3, <2>4
<1>6. ASSUME NEW t \in Thread, SendMessage(t) PROVE Same
  <2>1. call[t].at = "send" /\ (SendFails(t) \/ SendRefused(t))
    BY <1>6, SendIs
  <2>2. \/ \E ok \in BOOLEAN : Moves(t, SendDone(call[t], ok, FALSE))
        \/ Moves(t, [call[t] EXCEPT !.at = "peerClosed"])
    <3>1. SendFails(t) => Moves(t, SendDone(call[t], TRUE, FALSE))
      BY Zenon DEF SendFails
    <3>2. SendRefused(t) => \/ Moves(t, SendDone(call[t], FALSE, FALSE))
                            \/ Moves(t, [call[t] EXCEPT !.at = "peerClosed"])
      BY Zenon DEF SendRefused, Refusals
    <3> QED BY <2>1, <3>1, <3>2, Zenon
  <2>3. CASE Moves(t, [call[t] EXCEPT !.at = "peerClosed"])
    BY <1>5, <2>1, <2>3
  <2>4. ASSUME NEW ok \in BOOLEAN, Moves(t, SendDone(call[t], ok, FALSE)) PROVE Same
    <3> DEFINE c == SendDone(call[t], ok, FALSE)
    <3>1. FALSE \in BOOLEAN
      OBVIOUS
    <3>2. c \in CallRec
      BY <2>1, <3>1, SendDoneIs, Zenon
    <3>3. c.at = "idle" <=> call[t].hs = <<>>
      BY <2>1, <3>1, SendDoneIs, Zenon
    <3>4. call[t].hs # <<>> => c.sent = FALSE
      BY <2>1, <3>1, SendDoneIs, Zenon
    <3>5. Moves(t, c)
      BY <2>4
    <3> HIDE DEF c
    <3>6. ~Over(c)
      BY <3>3, <3>4 DEF Over
    <3>7. ~Over(call[t])
      BY <2>1 DEF Over
    <3> QED BY <1>2, <3>2, <3>5, <3>6, <3>7
  <2> QED BY <2>2, <2>3, <2>4
<1>7. ASSUME NEW t \in Thread,
             \/ BeginTransit(t) \/ CheckWrite(t) \/ CheckRead(t) \/ ClosePipe(t)
             \/ ReadNothing(t) \/ TellPeerClosed(t)
      PROVE  Same
  <2>1. call[t].at # "finish"
    BY <1>7 DEF BeginTransit, CheckWrite, CheckRead, ReadNothing, TellPeerClosed,
       ClosePipe, At
  <2>2. \/ Moves(t, Idle)
        \/ \E at \in {"check", "send", "peerClosed", "finish", "read", "closePort"} :
             Moves(t, [call[t] EXCEPT !.at = at])
    <3>1. call \in [Thread -> CallRec]
      BY DEF TypeOK, CallRec
    <3>2. CASE BeginTransit(t)
      BY <3>1, <3>2 DEF BeginTransit, Moves
    <3>3. CASE CheckWrite(t) \/ CheckRead(t) \/ ReadNothing(t) \/ TellPeerClosed(t)
      BY <3>3, CheckMoves
    <3>4. CASE ClosePipe(t)
      BY <3>1, <3>4 DEF ClosePipe, Moves
    <3> QED BY <1>7, <3>2, <3>3, <3>4
  <2> QED BY <1>3, <1>5, <2>1, <2>2 DEF Over
<1>8. ASSUME NEW t \in Thread,
             \/ CancelTransit(t) \/ ReadDiscards(t) \/ ReadTakes(t)
             \/ CloseThing(t) \/ ClosePort(t)
             \/ MapBuffer(t) \/ DuplicateBufferHandle(t)
      PROVE  Same
  <2>1. Moves(t, Idle)
    BY <1>8, Zenon DEF CancelTransit, ReadDiscards, ReadTakes, CloseThing, ClosePort,
       MapBuffer, DuplicateBufferHandle, Moves
  <2>2. call[t].at # "finish" \/ ~call[t].ok
    BY <1>8 DEF CancelTransit, ReadDiscards, ReadTakes, CloseThing, ClosePort, MapBuffer,
       DuplicateBufferHandle, At, WriteOK
  <2>3. ~Over(call[t])
    BY <2>2 DEF SentOK, SentRec, Over
  <2> QED BY <1>3, <2>1, <2>3
<1>9. ASSUME \/ CreateMessagePipe \/ CreateSharedBuffer \/ CreatePlatformHandleWrapper
             \/ \E t \in Thread, h \in table : PassWrappedPlatformHandle(t, h)
             \/ \E h \in event : OnPortStatusChanged(h)
             \/ \E w \in Waits : WaitFor(w[1], w[2])
             \/ AddAwakable \/ RemoveAwakable \/ UNCHANGED vars
      PROVE  call' = call
  BY <1>9, Zenon DEF CreateMessagePipe, CreateSharedBuffer, CreatePlatformHandleWrapper,
     Create, PassWrappedPlatformHandle, OnPortStatusChanged, WaitFor, AddAwakable,
     RemoveAwakable, vars
<1>10. Same
  BY <1>1, <1>4, <1>6, <1>7, <1>8, <1>9 DEF Next, Continue
<1> QED BY <1>10 DEF Same

\* A dispatcher stays what it is, and is not opened again.
Lives(h) ==
  /\ disp'[h].kind = disp[h].kind /\ disp'[h].res = disp[h].res
  /\ disp'[h].port = disp[h].port /\ (disp[h].closed => disp'[h].closed)

\* Calls that give no handle a dispatcher.
LEMMA LivesCalls ==
  ASSUME TypeOK, TableInv, NEW t \in Thread,
         \/ \E h \in table, hs \in Bundles : WriteMessage(t, h, hs)
         \/ \E h \in table : \/ ReadMessage(t, h) \/ UseBuffer(t, h) \/ Close(t, h)
                             \/ PassWrappedPlatformHandle(t, h)
         \/ BeginTransit(t) \/ CheckWrite(t) \/ SendMessage(t)
         \/ CompleteTransitAndClose(t) \/ CancelTransit(t)
         \/ CheckRead(t) \/ ReadNothing(t) \/ TellPeerClosed(t) \/ ReadDiscards(t)
         \/ ClosePipe(t) \/ CloseThing(t) \/ ClosePort(t) \/ MapBuffer(t)
  PROVE  \A h \in Handle : Lives(h)
<1> DEFINE hs == ToSet(call[t].hs)
<1>1. hs \in SUBSET Handle
  <2>1. call[t].hs \in Seq(Handle)
    BY CallOf
  <2> QED BY <2>1, ToSetIs
<1> HIDE DEF hs
<1>2. CASE disp' = disp
  BY <1>2 DEF Lives
<1>3. CASE disp' = Marked(hs, TRUE) \/ disp' = Marked(hs, FALSE)
  BY <1>1, <1>3, MarkedOn, MarkedOff DEF Lives
<1>4. ASSUME NEW g \in Handle, disp' = [disp EXCEPT ![g].closed = TRUE]
      PROVE  \A h \in Handle : Lives(h)
  BY <1>4, ClosedIs DEF Lives
<1>5. CASE disp' = [h \in Handle |-> IF h \in hs THEN Transferred(disp[h]) ELSE disp[h]]
  <2> SUFFICES ASSUME NEW h \in Handle PROVE Lives(h)
    OBVIOUS
  <2>1. disp[h] \in Dispatcher
    BY DispOf
  <2> QED BY <1>5, <2>1, TransferredIs DEF Lives
<1>6. CASE SendMessage(t)
  <2>1. SendFails(t) \/ Sends(t) \/ SendRefused(t)
    BY <1>6, SendIs
  <2>2. CASE SendFails(t)
    <3> DEFINE bad == Unserializable(call[t].hs)
    <3>1. disp' = [h \in Handle |-> IF h \in bad
                      THEN [disp[h] EXCEPT !.closed = TRUE] ELSE disp[h]]
      BY <2>2 DEF SendFails
    <3> HIDE DEF bad
    <3> SUFFICES ASSUME NEW h \in Handle PROVE Lives(h)
      OBVIOUS
    <3>2. disp[h] \in Dispatcher
      BY DispOf
    <3> QED BY <3>1, <3>2 DEF Lives, Dispatcher
  <2>3. CASE Sends(t) \/ SendRefused(t)
    BY <1>2, <2>3 DEF Sends, SendRefused
  <2> QED BY <2>1, <2>2, <2>3
<1>7. CASE BeginTransit(t)
  BY <1>2, <1>3, <1>7 DEF BeginTransit, hs
<1>8. CASE CompleteTransitAndClose(t)
  BY <1>5, <1>8 DEF CompleteTransitAndClose, hs
<1>9. CASE CancelTransit(t)
  BY <1>3, <1>9 DEF CancelTransit, hs
<1>10. CASE ClosePipe(t)
  BY <1>2, <1>4, <1>10, PipeCloses
<1>11. CASE CloseThing(t)
  BY <1>4, <1>11, ThingCloses
<1>12. ASSUME NEW g \in table, PassWrappedPlatformHandle(t, g)
       PROVE  \A h \in Handle : Lives(h)
  BY <1>2, <1>4, <1>12 DEF PassWrappedPlatformHandle, Passed, TypeOK
<1>13. CASE \/ \E h \in table, x \in Bundles : WriteMessage(t, h, x)
            \/ \E h \in table : ReadMessage(t, h) \/ UseBuffer(t, h) \/ Close(t, h)
            \/ CheckWrite(t) \/ CheckRead(t) \/ ReadNothing(t) \/ TellPeerClosed(t)
            \/ ReadDiscards(t)
            \/ ClosePort(t) \/ MapBuffer(t)
  BY <1>2, <1>13, Zenon DEF WriteMessage, ReadMessage, UseBuffer, Close, CheckWrite,
     CheckRead, ReadNothing, TellPeerClosed, ReadDiscards, ClosePort, MapBuffer
<1> QED
  BY <1>6, <1>7, <1>8, <1>9, <1>10, <1>11, <1>12, <1>13

\* A dispatcher that is added goes to a handle that had none.
LEMMA LivesAdds ==
  ASSUME TypeOK, TableInv, NEW d, Adds(d)
  PROVE  \A h \in Handle : \/ disp'[h] = disp[h]
                           \/ h = next /\ disp[h] = None /\ disp'[h] = d
<1>1. next \in 0..LastHandle /\ LastHandle \in Nat /\ disp \in [Handle -> Dispatcher]
  BY CoreAssumption DEF TypeOK
<1>2. CASE next = INVALID
  BY <1>2 DEF Adds, AddDispatcher, OutOfHandles
<1>3. CASE next # INVALID
  <2>1. next \in Handle /\ disp' = [disp EXCEPT ![next] = d]
    BY <1>1, <1>3 DEF INVALID, Handle, Adds, AddDispatcher
  <2>2. disp[next] = None
    BY <1>1, <1>3, <2>1 DEF TableInv, Tables
  <2> QED BY <1>1, <2>1, <2>2
<1> QED BY <1>2, <1>3

\* A dispatcher that a handle has remains, in every step that does not overflow.
LEMMA LivesStep ==
  ASSUME TypeOK, TableInv, Ends, [Next]_vars, "overflow" \notin failed', NEW h \in Handle
  PROVE  Lives(h) \/ disp[h] = None
<1>1. CASE disp' = disp
  BY <1>1 DEF Lives
<1>2. ASSUME NEW t \in Thread,
             \/ \E g \in table, hs \in Bundles : WriteMessage(t, g, hs)
             \/ \E g \in table : \/ ReadMessage(t, g) \/ UseBuffer(t, g) \/ Close(t, g)
                                 \/ PassWrappedPlatformHandle(t, g)
             \/ BeginTransit(t) \/ CheckWrite(t) \/ SendMessage(t)
             \/ CompleteTransitAndClose(t) \/ CancelTransit(t)
             \/ CheckRead(t) \/ ReadNothing(t) \/ TellPeerClosed(t) \/ ReadDiscards(t)
             \/ ClosePipe(t) \/ CloseThing(t) \/ ClosePort(t) \/ MapBuffer(t)
      PROVE  Lives(h)
  BY <1>2, LivesCalls
<1>3. ASSUME NEW d, Adds(d) PROVE Lives(h) \/ disp[h] = None
  BY <1>3, LivesAdds DEF Lives
<1>4. CASE CreateMessagePipe
  <2>1. next \in 0..LastHandle /\ LastHandle \in Nat /\ disp \in [Handle -> Dispatcher]
    BY CoreAssumption DEF TypeOK
  <2>2. CASE next = INVALID \/ After(next) = INVALID
    BY <1>1, <1>4, <2>2 DEF CreateMessagePipe, OutOfHandles
  <2>3. CASE next # INVALID /\ After(next) # INVALID
    <3>1. next \in Handle /\ After(next) \in Handle /\ After(next) >= next /\ next >= next
      BY <2>1, <2>3, AfterIs DEF INVALID, Handle
    <3>2. disp[next] = None /\ disp[After(next)] = None
      BY <2>1, <2>3, <3>1 DEF TableInv, Tables
    <3>3. h # next /\ h # After(next) => disp'[h] = disp[h]
      BY <1>4, <2>1, <2>3 DEF CreateMessagePipe
    <3> QED BY <3>2, <3>3 DEF Lives
  <2> QED BY <2>2, <2>3
<1>5. ASSUME NEW kind \in {"buffer", "platform"}, Create(kind)
      PROVE  Lives(h) \/ disp[h] = None
  BY <1>3, <1>5, CreateAdds
<1>6. ASSUME NEW t \in Thread, DuplicateBufferHandle(t) PROVE Lives(h) \/ disp[h] = None
  BY <1>1, <1>3, <1>6, DuplicateAdds DEF DuplicateBufferHandle
<1>7. ASSUME NEW t \in Thread, ReadTakes(t) PROVE Lives(h) \/ disp[h] = None
  <2> DEFINE f == disp[call[t].h].res
             m == Head(queue[f])
             to == FromTransit(m)
  <2>1. call[t].at = "read" /\ queue[f] # <<>>
    BY <1>7 DEF ReadTakes, At
  <2>2. f \in End
    BY <2>1, ReadFinds
  <2>3. m \in Seq(Cargo)
    BY <2>1, <2>2, HeadIs
  <2>4. CASE next = INVALID /\ m # <<>>
    BY <1>1, <1>7, <2>4 DEF ReadTakes
  <2>5. CASE next # INVALID \/ m = <<>>
    <3>1. /\ disp' = [g \in Handle |->
                        IF \E i \in DOMAIN to : to[i] = g
                        THEN Deserialized(m[CHOOSE i \in DOMAIN to : to[i] = g])
                        ELSE disp[g]]
          /\ failed' = failed \cup (IF INVALID \in ToSet(to) THEN {"overflow"} ELSE {})
      BY <1>7, <2>5 DEF ReadTakes
    <3>2. INVALID \notin ToSet(to)
      BY <3>1
    <3> HIDE DEF m, f
    <3>3. /\ h \notin ToSet(to) => disp'[h] = disp[h]
          /\ h \in ToSet(to) => h >= next /\ h - next + 1 \in DOMAIN m
      BY <2>3, <2>5, <3>1, <3>2, TakesIs
    <3> HIDE DEF to
    <3>4. CASE m = <<>>
      BY <3>3, <3>4 DEF Lives
    <3>5. CASE next # INVALID
      BY <3>3, <3>5 DEF Lives, TableInv, Tables
    <3> QED BY <2>5, <3>4, <3>5
  <2> QED BY <2>4, <2>5
<1>8. ASSUME \/ \E g \in event : OnPortStatusChanged(g)
             \/ \E w \in Waits : WaitFor(w[1], w[2])
             \/ AddAwakable \/ RemoveAwakable \/ UNCHANGED vars
      PROVE  disp' = disp
  BY <1>8, Zenon DEF OnPortStatusChanged, WaitFor, AddAwakable, RemoveAwakable, vars
<1> QED
  BY <1>1, <1>2, <1>4, <1>5, <1>6, <1>7, <1>8
  DEF Next, Continue, CreateSharedBuffer, CreatePlatformHandleWrapper

\* A dispatcher that has sent its end has an old port of it, after every step that
\* does not overflow.
LEMMA StaleStep ==
  ASSUME TypeOK, TableInv, OwnInv, SentOK, Stale, [Next]_vars, "overflow" \notin failed'
  PROVE  Stale'
<1> SUFFICES ASSUME NEW h \in Handle, HandedOver(h)', disp'[h].kind = "pipe"
             PROVE  disp'[h].port < gen'[disp'[h].res]
  BY DEF Stale
<1>1. ASSUME NEW t \in Thread, call[t].at \in Carrying, h \in ToSet(call[t].hs)
      PROVE  disp[h].kind # "none"
  BY <1>1, CarriedHas
<1>2. Lives(h) \/ disp[h] = None
  BY LivesStep DEF OwnInv
<1>3. disp[h].kind # "none" => Lives(h)
  BY <1>2, NoneIs
<1>4. HandedOver(h) => disp[h].kind # "none"
  BY <1>1 DEF HandedOver, Carrying
<1>5. ASSUME NEW t \in Thread, SendMessage(t), Sends(t)
      PROVE  disp'[h].port < gen'[disp'[h].res]
  <2> DEFINE hs == call[t].hs
             c == SendDone(call[t], TRUE, TRUE)
  <2>1. /\ call[t].at = "send" /\ Sendable(disp[call[t].h], hs) /\ Moves(t, c) /\ disp' = disp
        /\ gen' = [e \in End |-> IF e \in EndsOf(hs) THEN gen[e] + 1 ELSE gen[e]]
    BY <1>5, SendIs, Zenon DEF Sends
  <2>2. TRUE \in BOOLEAN
    OBVIOUS
  <2>3. c \in CallRec
    BY <2>1, <2>2, SendDoneIs, Zenon
  <2>4. c.at = "idle" <=> hs = <<>>
    BY <2>1, <2>2, SendDoneIs, Zenon
  <2>5. hs # <<>> => c.hs = hs
    BY <2>1, <2>2, SendDoneIs, Zenon
  <2> HIDE DEF c
  <2>6. call'[t] = c /\ \A u \in Thread : u # t => call'[u] = call[u]
    BY <2>1, <2>3, MovesIs
  <2>7. HandedOver(h) \/ h \in ToSet(hs)
    BY <2>4, <2>5, <2>6 DEF HandedOver
  <2>8. disp[h].kind = "pipe" /\ disp[h].port \in Nat
    BY <2>1, DispOf
  <2>9. disp[h].res \in End /\ disp[h].port <= gen[disp[h].res]
    BY <2>8 DEF OwnInv, Ends, PipeEnd
  <2>10. gen[disp[h].res] \in Nat
    BY <2>9 DEF TypeOK
  <2>11. CASE HandedOver(h)
    <3>1. disp[h].port < gen[disp[h].res]
      BY <2>8, <2>11 DEF Stale
    <3>2. gen'[disp[h].res] \in {gen[disp[h].res], gen[disp[h].res] + 1}
      BY <2>1, <2>9
    <3> QED BY <2>1, <2>8, <2>10, <3>1, <3>2
  <2>12. CASE h \in ToSet(hs)
    <3>1. disp[h].res \in EndsOf(hs)
      BY <2>8, <2>12 DEF EndsOf
    <3>2. gen'[disp[h].res] = gen[disp[h].res] + 1
      BY <2>1, <2>9, <3>1
    <3> QED BY <2>1, <2>8, <2>9, <2>10, <3>2
  <2> QED BY <2>7, <2>11, <2>12
<1>6. ASSUME ~\E t \in Thread : SendMessage(t) /\ Sends(t) PROVE gen' = gen
  <2>1. ASSUME NEW t \in Thread, SendMessage(t) PROVE gen' = gen
    BY <1>6, <2>1, SendIs DEF SendFails, SendRefused
  <2>2. ASSUME NEW t \in Thread,
               \/ ReadTakes(t) \/ ReadDiscards(t) \/ ClosePort(t) \/ CompleteTransitAndClose(t)
        PROVE  gen' = gen
    BY <2>2, Zenon DEF ReadTakes, ReadDiscards, ClosePort, CompleteTransitAndClose
  <2>3. CASE CreateMessagePipe \/ UNCHANGED vars
    BY <2>3, Zenon DEF CreateMessagePipe, vars
  <2>4. CASE UNCHANGED nodeVars
    BY <2>4 DEF nodeVars
  <2>5. ASSUME ~CreateMessagePipe, ~UNCHANGED vars,
               \A t \in Thread : /\ ~SendMessage(t) /\ ~ReadTakes(t) /\ ~ReadDiscards(t)
                                 /\ ~ClosePort(t) /\ ~CompleteTransitAndClose(t)
        PROVE  UNCHANGED nodeVars
    <3>1. ASSUME NEW t \in Thread, Continue(t) PROVE UNCHANGED nodeVars
      BY <2>5, <3>1, Zenon DEF Continue, BeginTransit, CheckWrite, CancelTransit,
         CheckRead, ReadNothing, TellPeerClosed, ClosePipe, CloseThing, MapBuffer,
         DuplicateBufferHandle
    <3>2. CASE \/ CreateSharedBuffer \/ CreatePlatformHandleWrapper
               \/ \E t \in Thread, g \in table, hs \in Bundles : WriteMessage(t, g, hs)
               \/ \E t \in Thread, g \in table :
                    \/ ReadMessage(t, g) \/ Close(t, g)
                    \/ PassWrappedPlatformHandle(t, g) \/ UseBuffer(t, g)
               \/ \E g \in event : OnPortStatusChanged(g)
               \/ \E w \in Waits : WaitFor(w[1], w[2])
               \/ AddAwakable \/ RemoveAwakable
      BY <3>2, Zenon DEF CreateSharedBuffer, CreatePlatformHandleWrapper, Create,
         WriteMessage, ReadMessage, Close, PassWrappedPlatformHandle, UseBuffer,
         OnPortStatusChanged, WaitFor, AddAwakable, RemoveAwakable
    <3> QED BY <2>5, <3>1, <3>2 DEF Next
  <2> QED BY <2>1, <2>2, <2>3, <2>4, <2>5
<1>7. ASSUME ~\E t \in Thread : SendMessage(t) /\ Sends(t), HandedOver(h)
      PROVE  disp'[h].port < gen'[disp'[h].res]
  <2>1. Lives(h)
    BY <1>3, <1>4, <1>7
  <2> QED BY <1>6, <1>7, <2>1 DEF Stale, Lives
<1>8. ASSUME NEW t \in Thread, CompleteTransitAndClose(t) PROVE HandedOver(h)
  <2>1. call' = [call EXCEPT ![t] = Idle]
    BY <1>8 DEF CompleteTransitAndClose
  <2>2. call'[t] = Idle /\ \A u \in Thread : u # t => call'[u] = call[u]
    BY <2>1 DEF TypeOK
  <2> QED BY <2>2, IdleIs DEF HandedOver
<1>9. ASSUME ~\E t \in Thread : SendMessage(t) /\ Sends(t) PROVE HandedOver(h)
  <2>1. CASE \E t \in Thread : CompleteTransitAndClose(t)
    BY <1>8, <2>1
  <2>2. CASE ~\E t \in Thread : CompleteTransitAndClose(t)
    BY <1>9, <2>2, HandedStep
  <2> QED BY <2>1, <2>2
<1> QED BY <1>5, <1>7, <1>9

\* Nobody has two owners and nobody is forgotten, after every step that does not
\* overflow.
LEMMA AloneNext ==
  ASSUME TypeOK, TableInv, OwnInv, SentOK, Stale, Alone, Next,
         "overflow" \notin failed'
  PROVE  Alone'
<1>1. failed = {}
  BY NotFailed
<1>2. ASSUME Still PROVE Alone'
  BY <1>1, <1>2, StillStep DEF Alone
<1>3. CASE CreateMessagePipe
  BY <1>3, AloneCreates
<1>4. ASSUME NEW t \in Thread,
             \/ \E h \in table, hs \in Bundles : WriteMessage(t, h, hs)
             \/ \E h \in table : ReadMessage(t, h) \/ UseBuffer(t, h) \/ Close(t, h)
             \/ CheckWrite(t) \/ CheckRead(t) \/ ReadNothing(t) \/ TellPeerClosed(t)
             \/ MapBuffer(t)
             \/ BeginTransit(t)
             \/ CompleteTransitAndClose(t) \/ CancelTransit(t)
      PROVE  Alone'
  BY <1>1, <1>2, <1>4, StillCalls, AloneLoses
<1>5. ASSUME \/ \E kind \in {"buffer", "platform"} : Create(kind)
             \/ \E t \in Thread :
                  \/ CloseThing(t) \/ DuplicateBufferHandle(t)
                  \/ \E g \in table : PassWrappedPlatformHandle(t, g)
             \/ \E h \in event : OnPortStatusChanged(h)
             \/ \E w \in Waits : WaitFor(w[1], w[2])
             \/ AddAwakable \/ RemoveAwakable
      PROVE  Alone'
  BY <1>2, <1>5, StillOthers
<1>6. ASSUME NEW t \in Thread, SendMessage(t) PROVE Alone'
  <2>1. CASE Sends(t)
    BY <1>1, <1>6, <2>1, AloneSends
  <2>2. CASE ~Sends(t)
    BY <1>2, <1>6, <2>2, StillOthers
  <2> QED BY <2>1, <2>2
<1>7. ASSUME NEW t \in Thread, ClosePipe(t) PROVE Alone'
  <2>1. CASE ~disp[call[t].h].closed
    BY <1>1, <1>7, <2>1, AloneCloses
  <2>2. CASE disp[call[t].h].closed
    BY <1>2, <1>7, <2>2, StillOthers
  <2> QED BY <2>1, <2>2
<1>8. ASSUME NEW t \in Thread, ReadDiscards(t) \/ ClosePort(t) PROVE Alone'
  BY <1>1, <1>8, AloneDiscards, AloneClosesPort
<1>9. ASSUME NEW t \in Thread, ReadTakes(t) PROVE Alone'
  BY <1>1, <1>9, AloneTakes, AloneUntaken
<1> QED
  BY <1>3, <1>4, <1>5, <1>6, <1>7, <1>8, <1>9
  DEF Next, Continue, CreateSharedBuffer, CreatePlatformHandleWrapper

-----------------------------------------------------------------------------
(* The platform handle.                                                    *)

\* A dispatcher that has the platform handle, and a place in the queues that has it.
PlatHeld(h) == disp[h].kind = "platform" /\ ~disp[h].closed /\ ~HandedOver(h)
ParcelQ(q, i, j) == i \in DOMAIN q /\ j \in DOMAIN q[i] /\ q[i][j].kind = "platform"
Parcel(f, i, j) == ParcelQ(queue[f], i, j)

\* The platform handle is in one place at most.
Plat ==
  /\ \A h, k \in Handle : PlatHeld(h) /\ PlatHeld(k) => h = k
  /\ \A h \in Handle, f \in End, i, j \in Nat : PlatHeld(h) => ~Parcel(f, i, j)
  /\ \A f, g \in End, i, j, k, l \in Nat :
       Parcel(f, i, j) /\ Parcel(g, k, l) => f = g /\ i = k /\ j = l

\* Before the first call there are no messages.
Early ==
  calls = 0 => /\ \A t \in Thread : call[t] = Idle
               /\ \A e \in End : queue[e] = <<>>

\* The first call is counted before it does anything.
LEMMA EarlyStep ==
  ASSUME TypeOK, Early, Next
  PROVE  Early'
<1> SUFFICES ASSUME calls' = 0
             PROVE  /\ \A t \in Thread : call'[t] = Idle
                    /\ \A e \in End : queue'[e] = <<>>
  BY DEF Early
<1>1. calls \in Nat
  BY CoreAssumption DEF TypeOK
<1>2. ASSUME NEW t \in Thread, NEW h \in table,
             \/ \E hs \in Bundles : WriteMessage(t, h, hs)
             \/ ReadMessage(t, h) \/ Close(t, h) \/ PassWrappedPlatformHandle(t, h)
             \/ UseBuffer(t, h)
      PROVE  FALSE
  <2>1. calls' = calls + 1
    BY <1>2, Zenon DEF WriteMessage, ReadMessage, Close, PassWrappedPlatformHandle,
       UseBuffer, Calls
  <2> QED BY <1>1, <2>1
<1>3. ASSUME NEW t \in Thread, Continue(t) PROVE FALSE
  <2>1. calls' = calls
    BY <1>3, Zenon DEF Continue, BeginTransit, CheckWrite, SendMessage,
       CompleteTransitAndClose, CancelTransit, CheckRead, ReadNothing, TellPeerClosed,
       ReadDiscards, ReadTakes, ClosePipe, CloseThing, ClosePort, MapBuffer,
       DuplicateBufferHandle
  <2>2. call[t].at # "idle"
    BY <1>3 DEF Continue, BeginTransit, CheckWrite, SendMessage, CompleteTransitAndClose,
       CancelTransit, CheckRead, ReadNothing, TellPeerClosed, ReadDiscards, ReadTakes,
       ClosePipe, CloseThing, ClosePort, MapBuffer, DuplicateBufferHandle, At
  <2> QED BY <2>1, <2>2, IdleIs DEF Early
<1>4. ASSUME \/ CreateMessagePipe \/ CreateSharedBuffer \/ CreatePlatformHandleWrapper
             \/ \E h \in event : OnPortStatusChanged(h)
             \/ \E w \in Waits : WaitFor(w[1], w[2])
             \/ AddAwakable \/ RemoveAwakable
      PROVE  UNCHANGED <<call, calls, queue>>
  BY <1>4, Zenon DEF CreateMessagePipe, CreateSharedBuffer, CreatePlatformHandleWrapper,
     Create, OnPortStatusChanged, WaitFor, AddAwakable, RemoveAwakable, nodeVars
<1> QED BY <1>2, <1>3, <1>4 DEF Next, Early

\* The places in a queue that loses its first message.
LEMMA ParcelTail ==
  ASSUME NEW q \in Seq(Seq(Cargo)), q # <<>>, NEW i \in Nat, NEW j \in Nat,
         ParcelQ(Tail(q), i, j)
  PROVE  ParcelQ(q, i + 1, j) /\ i >= 1
BY DEF ParcelQ

\* No dispatcher gets the platform handle, and messages go.
LEMMA PlatPops ==
  ASSUME TypeOK, Plat, \A h \in Handle : PlatHeld(h)' => PlatHeld(h),
         \A f \in End : \/ queue'[f] = queue[f] \/ queue'[f] = <<>>
                        \/ queue[f] # <<>> /\ queue'[f] = Tail(queue[f])
  PROVE  Plat'
<1>1. ASSUME NEW f \in End PROVE queue[f] \in Seq(Seq(Cargo))
  BY DEF TypeOK
<1>2. ASSUME NEW f \in End
      PROVE  \E s \in {0, 1} : \A i, j \in Nat : Parcel(f, i, j)' => Parcel(f, i + s, j)
  <2>1. CASE queue'[f] = queue[f]
    <3>1. \A i, j \in Nat : Parcel(f, i, j)' => Parcel(f, i + 0, j)
      BY <2>1 DEF Parcel, ParcelQ
    <3> QED BY <3>1
  <2>2. CASE queue'[f] = <<>>
    <3>1. \A i, j \in Nat : Parcel(f, i, j)' => Parcel(f, i + 0, j)
      BY <2>2 DEF Parcel, ParcelQ
    <3> QED BY <3>1
  <2>3. CASE queue[f] # <<>> /\ queue'[f] = Tail(queue[f])
    <3>1. \A i, j \in Nat : ParcelQ(Tail(queue[f]), i, j) => ParcelQ(queue[f], i + 1, j)
      BY <1>1, <2>3, ParcelTail
    <3>2. \A i, j \in Nat : Parcel(f, i, j)' => Parcel(f, i + 1, j)
      BY <2>3, <3>1 DEF Parcel, ParcelQ
    <3> QED BY <3>2
  <2> QED BY <2>1, <2>2, <2>3
<1>3. ASSUME NEW h \in Handle, NEW f \in End, NEW i \in Nat, NEW j \in Nat,
             PlatHeld(h)', Parcel(f, i, j)'
      PROVE  FALSE
  <2>1. PICK s \in {0, 1} : \A x, y \in Nat : Parcel(f, x, y)' => Parcel(f, x + s, y)
    BY <1>2
  <2>2. Parcel(f, i + s, j) /\ i + s \in Nat /\ PlatHeld(h)
    BY <1>3, <2>1
  <2> QED BY <2>2 DEF Plat
<1>4. ASSUME NEW f \in End, NEW g \in End, NEW i \in Nat, NEW j \in Nat, NEW k \in Nat,
             NEW l \in Nat, Parcel(f, i, j)', Parcel(g, k, l)'
      PROVE  f = g /\ i = k /\ j = l
  <2>1. PICK s \in {0, 1} : \A x, y \in Nat : Parcel(f, x, y)' => Parcel(f, x + s, y)
    BY <1>2
  <2>2. PICK r \in {0, 1} : \A x, y \in Nat : Parcel(g, x, y)' => Parcel(g, x + r, y)
    BY <1>2
  <2>3. Parcel(f, i + s, j) /\ Parcel(g, k + r, l) /\ i + s \in Nat /\ k + r \in Nat
    BY <1>4, <2>1, <2>2
  <2>4. f = g /\ i + s = k + r /\ j = l
    BY <2>3 DEF Plat
  <2>5. Parcel(f, k + s, l)
    BY <1>4, <2>1, <2>4
  <2>6. k + s = k + r
    BY <2>3, <2>4, <2>5 DEF Plat
  <2> QED BY <2>4, <2>6
<1> QED BY <1>3, <1>4 DEF Plat

\* What a message that is sent carries of the platform handle is taken from its
\* dispatcher.
LEMMA PlatSends ==
  ASSUME TypeOK, TableInv, Ends, Plat, NEW t \in Thread, SendMessage(t), Sends(t)
  PROVE  Plat'
<1> DEFINE hs == call[t].hs
           d == disp[call[t].h]
           to == Peer(d.res)
           m == CargoOf(hs)
           c == SendDone(call[t], TRUE, TRUE)
           n == Len(queue[to]) + 1
<1>1. /\ call[t].at = "send" /\ queue' = [queue EXCEPT ![to] = Append(queue[to], m)]
      /\ Moves(t, c) /\ disp' = disp
  BY SendIs, Zenon DEF Sends
<1>2. to \in End
  BY <1>1, ReadFinds, PeerIs
<1>3. /\ m \in Seq(Cargo) /\ DOMAIN m = DOMAIN hs
      /\ \A i \in DOMAIN hs : /\ m[i].kind = disp[hs[i]].kind
                              /\ hs[i] \in Handle /\ hs[i] \in ToSet(hs)
  BY <1>1, CargoOfIs DEF Carrying
<1>4. TRUE \in BOOLEAN
  OBVIOUS
<1>5. c \in CallRec
  BY <1>1, <1>4, SendDoneIs, Zenon
<1>6. (c.at = "idle" <=> hs = <<>>) /\ c.at \in {"idle", "finish"}
  BY <1>1, <1>4, SendDoneIs
<1>7. hs # <<>> => c.hs = hs
  BY <1>1, <1>4, SendDoneIs, Zenon
<1>8. hs # <<>> => c.sent = TRUE
  BY <1>1, <1>4, SendDoneIs, Zenon
<1>9. Distinct(hs) /\ ToSet(hs) \subseteq table /\ Carried(call[t]) = ToSet(hs)
  BY <1>1, CarriedHas DEF Carrying
<1>10. hs \in Seq(Handle)
  BY CallOf
<1> HIDE DEF c
<1>11. call'[t] = c /\ \A u \in Thread : u # t => call'[u] = call[u]
  BY <1>1, <1>5, MovesIs
<1>12. queue[to] \in Seq(Seq(Cargo))
  BY <1>2 DEF TypeOK
<1> HIDE DEF m, d, to
<1>13. /\ DOMAIN queue'[to] = DOMAIN queue[to] \cup {n} /\ n \notin DOMAIN queue[to]
       /\ queue'[to][n] = m /\ \A i \in DOMAIN queue[to] : queue'[to][i] = queue[to][i]
  <2>1. queue'[to] = Append(queue[to], m)
    BY <1>1, <1>2 DEF TypeOK
  <2> QED BY <1>3, <1>12, <2>1
<1>14. \A f \in End : f # to => queue'[f] = queue[f]
  BY <1>1 DEF TypeOK
<1> HIDE DEF n
<1>15. ASSUME NEW f \in End, NEW i \in Nat, NEW j \in Nat, Parcel(f, i, j)'
       PROVE  \/ Parcel(f, i, j)
              \/ f = to /\ i = n /\ j \in DOMAIN hs /\ disp[hs[j]].kind = "platform"
  <2>1. ParcelQ(queue'[f], i, j)
    BY <1>15 DEF Parcel, ParcelQ
  <2>2. CASE f # to
    BY <1>14, <2>1, <2>2 DEF Parcel
  <2>3. CASE f = to /\ i # n
    BY <1>13, <2>1, <2>3 DEF Parcel, ParcelQ
  <2>4. CASE f = to /\ i = n
    BY <1>3, <1>13, <2>1, <2>4 DEF ParcelQ
  <2> QED BY <2>2, <2>3, <2>4
<1>16. ASSUME NEW h \in ToSet(hs), disp[h].kind = "platform" PROVE PlatHeld(h)
  <2>1. ~disp[h].closed
    BY <1>9, <1>16 DEF TableInv, Tables
  <2>2. ASSUME NEW u \in Thread, call[u].at = "finish", h \in ToSet(call[u].hs) PROVE FALSE
    <3>1. u # t
      BY <1>1, <2>2
    <3>2. h \in Carried(call[u])
      BY <2>2 DEF Carried, Carrying
    <3> QED BY <1>9, <3>1, <3>2 DEF TableInv, Transit
  <2> QED BY <1>16, <2>1, <2>2 DEF PlatHeld, HandedOver
<1>17. \A h \in ToSet(hs) : HandedOver(h)'
  <2>1. hs = <<>> => ToSet(hs) = {}
    BY <1>10, ToSetIs
  <2> QED BY <1>6, <1>7, <1>8, <1>11, <2>1 DEF HandedOver
<1>18. ASSUME NEW h \in Handle, PlatHeld(h)' PROVE PlatHeld(h) /\ h \notin ToSet(hs)
  <2>1. HandedOver(h) => HandedOver(h)'
    BY <1>1, <1>11 DEF HandedOver
  <2> QED BY <1>1, <1>17, <1>18, <2>1 DEF PlatHeld
<1> HIDE DEF hs
<1>19. ASSUME NEW h \in Handle, NEW f \in End, NEW i \in Nat, NEW j \in Nat,
              PlatHeld(h)', Parcel(f, i, j)'
       PROVE  FALSE
  <2>1. PlatHeld(h) /\ h \notin ToSet(hs)
    BY <1>18, <1>19
  <2>2. ~Parcel(f, i, j)
    BY <2>1 DEF Plat
  <2>3. j \in DOMAIN hs /\ disp[hs[j]].kind = "platform"
    BY <1>15, <1>19, <2>2
  <2>4. PlatHeld(hs[j]) /\ hs[j] \in Handle /\ hs[j] \in ToSet(hs)
    BY <1>3, <1>16, <2>3
  <2> QED BY <2>1, <2>4 DEF Plat
<1>20. ASSUME NEW f \in End, NEW i \in Nat, NEW j \in Nat, ~Parcel(f, i, j), Parcel(f, i, j)'
       PROVE  /\ j \in DOMAIN hs /\ f = to /\ i = n
              /\ PlatHeld(hs[j]) /\ hs[j] \in Handle
              /\ \A g \in End, k, l \in Nat : ~Parcel(g, k, l)
  <2>1. f = to /\ i = n /\ j \in DOMAIN hs /\ disp[hs[j]].kind = "platform"
    BY <1>15, <1>20
  <2>2. PlatHeld(hs[j]) /\ hs[j] \in Handle
    BY <1>3, <1>16, <2>1
  <2> QED BY <2>1, <2>2 DEF Plat
<1>21. ASSUME NEW f \in End, NEW g \in End, NEW i \in Nat, NEW j \in Nat, NEW k \in Nat,
              NEW l \in Nat, Parcel(f, i, j)', Parcel(g, k, l)'
       PROVE  f = g /\ i = k /\ j = l
  <2>1. CASE Parcel(f, i, j) /\ Parcel(g, k, l)
    BY <2>1 DEF Plat
  <2>2. CASE ~Parcel(f, i, j)
    <3>1. /\ j \in DOMAIN hs /\ f = to /\ i = n /\ PlatHeld(hs[j]) /\ hs[j] \in Handle
          /\ ~Parcel(g, k, l)
      BY <1>20, <1>21, <2>2
    <3>2. l \in DOMAIN hs /\ g = to /\ k = n /\ PlatHeld(hs[l]) /\ hs[l] \in Handle
      BY <1>20, <1>21, <3>1
    <3>3. hs[j] = hs[l]
      BY <3>1, <3>2 DEF Plat
    <3> QED BY <1>9, <3>1, <3>2, <3>3 DEF Distinct
  <2>3. CASE Parcel(f, i, j) /\ ~Parcel(g, k, l)
    BY <1>20, <1>21, <2>3
  <2> QED BY <2>1, <2>2, <2>3
<1>22. \A h, k \in Handle : PlatHeld(h)' /\ PlatHeld(k)' => h = k
  BY <1>18 DEF Plat
<1> QED BY <1>19, <1>21, <1>22 DEF Plat

\* What a message that is read carries of the platform handle goes to a dispatcher,
\* even if the handles overflow.
LEMMA PlatTakes ==
  ASSUME TypeOK, TableInv, Ends, Plat, \A h : HandedOver(h)' <=> HandedOver(h),
         NEW t \in Thread, ReadTakes(t)
  PROVE  Plat'
<1> DEFINE f == disp[call[t].h].res
           m == Head(queue[f])
           ends == {x.res : x \in {y \in ToSet(m) : y.kind = "pipe"}}
           to == FromTransit(m)
<1>1. call[t].at = "read" /\ queue[f] # <<>>
  BY DEF ReadTakes, At
<1>2. f \in End
  BY <1>1, ReadFinds
<1>3. /\ m \in Seq(Cargo) /\ m = queue[f][1] /\ 1 \in DOMAIN queue[f]
      /\ \A j \in DOMAIN m : m[j] \in Cargo
  BY <1>1, <1>2, HeadIs
<1>4. queue[f] \in Seq(Seq(Cargo))
  BY <1>2 DEF TypeOK
<1>5. CASE next = INVALID /\ m # <<>>
  <2>1. disp' = disp /\ CloseUntaken(f, ends)
    BY <1>5 DEF ReadTakes
  <2>2. \A h \in Handle : PlatHeld(h)' => PlatHeld(h)
    BY <2>1 DEF PlatHeld
  <2>3. \A e \in End : \/ queue'[e] = queue[e] \/ queue'[e] = <<>>
                       \/ queue[e] # <<>> /\ queue'[e] = Tail(queue[e])
    <3> HIDE DEF f, m, ends
    <3> QED BY <1>1, <2>1 DEF CloseUntaken
  <2> QED BY <2>2, <2>3, PlatPops
<1>6. CASE ~(next = INVALID /\ m # <<>>)
  <2>1. /\ queue' = [queue EXCEPT ![f] = Tail(queue[f])]
        /\ disp' = [h \in Handle |->
                      IF \E i \in DOMAIN to : to[i] = h
                      THEN Deserialized(m[CHOOSE i \in DOMAIN to : to[i] = h])
                      ELSE disp[h]]
    BY <1>6 DEF ReadTakes
  <2>2. DOMAIN to = DOMAIN m /\ DOMAIN m \subseteq Nat
    BY <1>3 DEF FromTransit
  <2>3. queue'[f] = Tail(queue[f]) /\ \A e \in End : e # f => queue'[e] = queue[e]
    BY <1>2, <2>1 DEF TypeOK
  <2> HIDE DEF to, m, f
  <2>4. ASSUME NEW h \in Handle, PlatHeld(h)'
        PROVE  \/ PlatHeld(h)
               \/ \E i \in DOMAIN m : to[i] = h /\ Parcel(f, 1, i)
    <3>1. CASE \E i \in DOMAIN to : to[i] = h
      <4> DEFINE i == CHOOSE x \in DOMAIN to : to[x] = h
      <4>1. i \in DOMAIN to /\ to[i] = h
        BY <3>1
      <4>2. disp'[h] = Deserialized(m[i])
        BY <2>1, <3>1
      <4> HIDE DEF i
      <4>3. m[i] \in Cargo /\ i \in DOMAIN m
        BY <1>3, <2>2, <4>1
      <4>4. m[i].kind = "platform"
        BY <2>4, <4>2, <4>3, CargoHas DEF PlatHeld
      <4>5. Parcel(f, 1, i)
        BY <1>3, <4>3, <4>4 DEF Parcel, ParcelQ
      <4> QED BY <4>1, <4>3, <4>5
    <3>2. CASE ~\E i \in DOMAIN to : to[i] = h
      <4>1. disp'[h] = disp[h]
        BY <2>1, <3>2
      <4> QED BY <2>4, <4>1 DEF PlatHeld
    <3> QED BY <3>1, <3>2
  <2>5. ASSUME NEW g \in End, NEW i \in Nat, NEW j \in Nat, Parcel(g, i, j)'
        PROVE  \/ g # f /\ Parcel(g, i, j)
               \/ g = f /\ i >= 1 /\ Parcel(g, i + 1, j)
    <3>1. ParcelQ(queue'[g], i, j)
      BY <2>5 DEF Parcel, ParcelQ
    <3>2. CASE g # f
      BY <2>3, <3>1, <3>2 DEF Parcel
    <3>3. CASE g = f
      BY <1>1, <1>4, <2>3, <3>1, <3>3, ParcelTail DEF Parcel
    <3> QED BY <3>2, <3>3
  <2>6. ASSUME NEW g \in End, NEW i \in Nat, NEW j \in Nat, Parcel(g, i, j)',
               NEW k \in Nat, Parcel(f, 1, k)
        PROVE  FALSE
    <3>1. CASE g # f
      BY <1>2, <2>5, <2>6, <3>1 DEF Plat
    <3>2. CASE g = f
      <4>1. i >= 1 /\ Parcel(f, i + 1, j) /\ i + 1 \in Nat
        BY <2>5, <2>6, <3>2
      <4>2. i + 1 = 1
        BY <1>2, <2>6, <4>1 DEF Plat
      <4> QED BY <4>1, <4>2
    <3> QED BY <3>1, <3>2
  <2>7. ASSUME NEW h \in Handle, NEW k \in Handle, PlatHeld(h)', PlatHeld(k)' PROVE h = k
    <3>1. CASE PlatHeld(h) /\ PlatHeld(k)
      BY <3>1 DEF Plat
    <3>2. ASSUME NEW i \in DOMAIN m, to[i] = h, Parcel(f, 1, i) PROVE h = k
      <4>1. i \in Nat /\ 1 \in Nat
        BY <2>2
      <4>2. ~PlatHeld(k)
        BY <1>2, <3>2, <4>1 DEF Plat
      <4>3. PICK j \in DOMAIN m : to[j] = k /\ Parcel(f, 1, j)
        BY <2>4, <2>7, <4>2
      <4>4. i = j
        BY <1>2, <2>2, <3>2, <4>1, <4>3 DEF Plat
      <4> QED BY <3>2, <4>3, <4>4
    <3>3. ASSUME NEW i \in DOMAIN m, to[i] = k, Parcel(f, 1, i), PlatHeld(h) PROVE FALSE
      BY <1>2, <2>2, <3>3 DEF Plat
    <3> QED BY <2>4, <2>7, <3>1, <3>2, <3>3
  <2>8. ASSUME NEW h \in Handle, NEW g \in End, NEW i \in Nat, NEW j \in Nat,
               PlatHeld(h)', Parcel(g, i, j)'
        PROVE  FALSE
    <3>1. CASE PlatHeld(h)
      BY <2>5, <2>8, <3>1 DEF Plat
    <3>2. CASE ~PlatHeld(h)
      BY <2>2, <2>4, <2>6, <2>8, <3>2
    <3> QED BY <3>1, <3>2
  <2>9. ASSUME NEW e \in End, NEW g \in End, NEW i \in Nat, NEW j \in Nat, NEW k \in Nat,
               NEW l \in Nat, Parcel(e, i, j)', Parcel(g, k, l)'
        PROVE  e = g /\ i = k /\ j = l
    <3>1. CASE e # f /\ g # f
      BY <2>5, <2>9, <3>1 DEF Plat
    <3>2. CASE e = f /\ g = f
      <4>1. Parcel(e, i + 1, j) /\ Parcel(g, k + 1, l) /\ i + 1 \in Nat /\ k + 1 \in Nat
        BY <2>5, <2>9, <3>2
      <4>2. i + 1 = k + 1 /\ j = l
        BY <4>1 DEF Plat
      <4> QED BY <3>2, <4>2
    <3>3. CASE e = f /\ g # f
      <4>1. Parcel(e, i + 1, j) /\ Parcel(g, k, l) /\ i + 1 \in Nat
        BY <2>5, <2>9, <3>3
      <4> QED BY <3>3, <4>1 DEF Plat
    <3>4. CASE e # f /\ g = f
      <4>1. Parcel(e, i, j) /\ Parcel(g, k + 1, l) /\ k + 1 \in Nat
        BY <2>5, <2>9, <3>4
      <4> QED BY <3>4, <4>1 DEF Plat
    <3> QED BY <3>1, <3>2, <3>3, <3>4
  <2> QED BY <2>7, <2>8, <2>9 DEF Plat
<1> QED BY <1>5, <1>6

\* The platform handle is in one place at most, after every step.
LEMMA PlatNext ==
  ASSUME TypeOK, TableInv, OwnInv, SentOK, Early, Plat, Next
  PROVE  Plat'
<1>1. Ends
  BY DEF OwnInv
<1>2. ASSUME queue' = queue, \A h \in Handle : PlatHeld(h)' => PlatHeld(h) PROVE Plat'
  BY <1>2, PlatPops
<1>3. ASSUME NEW t \in Thread, SendMessage(t), Sends(t) PROVE Plat'
  BY <1>1, <1>3, PlatSends
<1>4. ASSUME NEW t \in Thread, CompleteTransitAndClose(t) PROVE Plat'
  <2> DEFINE hs == ToSet(call[t].hs)
  <2>1. /\ call' = [call EXCEPT ![t] = Idle] /\ queue' = queue
        /\ disp' = [h \in Handle |-> IF h \in hs THEN Transferred(disp[h]) ELSE disp[h]]
    BY <1>4 DEF CompleteTransitAndClose, nodeVars
  <2>2. \A u \in Thread : u # t => call'[u] = call[u]
    BY <2>1 DEF TypeOK
  <2> HIDE DEF hs
  <2>3. ASSUME NEW h \in Handle, PlatHeld(h)' PROVE PlatHeld(h)
    <3>1. h \in hs => disp'[h].closed
      <4>1. disp[h] \in Dispatcher
        BY DispOf
      <4> QED BY <2>1, <4>1, TransferredIs
    <3>2. HandedOver(h) => HandedOver(h)' \/ h \in hs
      BY <2>2 DEF HandedOver, hs
    <3>3. Lives(h)
      BY <1>4, LivesCalls
    <3> QED BY <2>3, <3>1, <3>2, <3>3 DEF PlatHeld, Lives
  <2> QED BY <1>2, <2>1, <2>3
<1>5. ASSUME \A t \in Thread : ~CompleteTransitAndClose(t) /\ ~(SendMessage(t) /\ Sends(t))
      PROVE  Plat'
  <2>1. \A h : HandedOver(h)' <=> HandedOver(h)
    BY <1>5, HandedStep
  <2>2. ASSUME NEW h \in Handle, Lives(h), PlatHeld(h)' PROVE PlatHeld(h)
    BY <2>1, <2>2 DEF PlatHeld, Lives
  <2>3. ASSUME NEW t \in Thread,
               \/ \E h \in table, hs \in Bundles : WriteMessage(t, h, hs)
               \/ \E h \in table : \/ ReadMessage(t, h) \/ UseBuffer(t, h) \/ Close(t, h)
                                   \/ PassWrappedPlatformHandle(t, h)
               \/ BeginTransit(t) \/ CheckWrite(t)
               \/ CancelTransit(t)
               \/ CheckRead(t) \/ ReadNothing(t) \/ TellPeerClosed(t)
               \/ ClosePipe(t) \/ CloseThing(t) \/ MapBuffer(t)
        PROVE  Plat'
    <3>1. \A h \in Handle : Lives(h)
      BY <2>3, LivesCalls
    <3>2. queue' = queue
      BY <2>3, Zenon DEF WriteMessage, ReadMessage, UseBuffer, Close,
         PassWrappedPlatformHandle, BeginTransit, CheckWrite, CancelTransit, CheckRead,
         ReadNothing, TellPeerClosed, ClosePipe, CloseThing, MapBuffer, nodeVars
    <3> QED BY <1>2, <2>2, <3>1, <3>2
  <2>4. ASSUME NEW t \in Thread, SendMessage(t) PROVE Plat'
    <3>1. \A h \in Handle : Lives(h)
      BY <2>4, LivesCalls
    <3>2. queue' = queue
      BY <1>5, <2>4, SendIs DEF SendFails, SendRefused
    <3> QED BY <1>2, <2>2, <3>1, <3>2
  <2>5. ASSUME NEW t \in Thread, ReadDiscards(t) PROVE Plat'
    <3>1. \A h \in Handle : Lives(h)
      BY <2>5, LivesCalls
    <3> DEFINE f == disp[call[t].h].res
    <3>2. queue[f] # <<>> /\ queue' = [queue EXCEPT ![f] = Tail(queue[f])]
      BY <2>5 DEF ReadDiscards
    <3> HIDE DEF f
    <3>3. \A e \in End : queue'[e] = queue[e] \/ (queue[e] # <<>> /\ queue'[e] = Tail(queue[e]))
      BY <3>2 DEF TypeOK
    <3> QED BY <2>2, <3>1, <3>3, PlatPops
  <2>6. ASSUME NEW t \in Thread, ClosePort(t) PROVE Plat'
    <3>1. \A h \in Handle : Lives(h)
      BY <2>6, LivesCalls
    <3>2. \A e \in End : queue'[e] = queue[e] \/ queue'[e] = <<>>
      BY <2>6 DEF ClosePort, ClosePorts
    <3> QED BY <2>2, <3>1, <3>2, PlatPops
  <2>7. ASSUME NEW t \in Thread, ReadTakes(t) PROVE Plat'
    BY <1>1, <2>1, <2>7, PlatTakes
  <2>8. ASSUME queue' = queue,
               \A h \in Handle : disp'[h] = disp[h] \/ disp'[h].kind # "platform"
        PROVE  Plat'
    BY <1>2, <2>1, <2>8 DEF PlatHeld
  <2>9. ASSUME NEW t \in Thread, DuplicateBufferHandle(t) PROVE Plat'
    <3> DEFINE d == Duplicate(disp[call[t].h])
    <3>1. queue' = queue /\ (Adds(d) \/ disp' = disp)
      BY <2>9, DuplicateAdds DEF DuplicateBufferHandle, nodeVars
    <3>2. d.kind # "platform"
      BY DEF Duplicate, New
    <3> HIDE DEF d
    <3> QED BY <2>8, <3>1, <3>2, LivesAdds
  <2>10. CASE CreateSharedBuffer
    <3> DEFINE d == New("buffer", NoEnd, 0)
    <3>1. queue' = queue /\ Adds(d)
      BY <2>10, CreateAdds DEF CreateSharedBuffer, Create, nodeVars
    <3>2. d.kind # "platform"
      BY DEF New
    <3> HIDE DEF d
    <3> QED BY <2>8, <3>1, <3>2, LivesAdds
  <2>11. CASE CreatePlatformHandleWrapper
    <3> DEFINE d == New("platform", NoEnd, 0)
    <3>1. queue' = queue /\ Adds(d) /\ calls = 0 /\ \A h \in Handle : disp[h].kind # "platform"
      BY <2>11, CreateAdds DEF CreatePlatformHandleWrapper, Create, Creates, nodeVars
    <3> HIDE DEF d
    <3>2. \A h \in Handle : PlatHeld(h)' => h = next
      BY <3>1, LivesAdds DEF PlatHeld
    <3>3. \A e \in End : queue'[e] = <<>>
      BY <3>1 DEF Early
    <3>4. \A f \in End, i, j \in Nat : ~Parcel(f, i, j)'
      BY <3>3 DEF Parcel, ParcelQ
    <3> QED BY <3>2, <3>4 DEF Plat
  <2>12. CASE CreateMessagePipe
    <3>1. queue' = queue
      BY <2>12 DEF CreateMessagePipe
    <3>2. disp \in [Handle -> Dispatcher]
      BY DEF TypeOK
    <3> DEFINE a == next
               b == After(next)
               x == New("pipe", <<pipes + 1, 0>>, 0)
               y == New("pipe", <<pipes + 1, 1>>, 0)
    <3>3. disp' = disp \/ disp' = [disp EXCEPT ![a] = x, ![b] = y]
      BY <2>12 DEF CreateMessagePipe, OutOfHandles
    <3>4. x.kind # "platform" /\ y.kind # "platform"
      BY DEF New
    <3> HIDE DEF a, b, x, y
    <3>5. \A h \in Handle : disp'[h] = disp[h] \/ disp'[h].kind # "platform"
      BY <3>2, <3>3, <3>4
    <3> QED BY <2>8, <3>1, <3>5
  <2>13. ASSUME \/ \E h \in event : OnPortStatusChanged(h)
                \/ \E w \in Waits : WaitFor(w[1], w[2])
                \/ AddAwakable \/ RemoveAwakable
         PROVE  UNCHANGED <<disp, queue>>
    BY <2>13, Zenon DEF OnPortStatusChanged, WaitFor, AddAwakable, RemoveAwakable, nodeVars
  <2> QED
    BY <1>5, <2>3, <2>4, <2>5, <2>6, <2>7, <2>8, <2>9, <2>10, <2>11, <2>12, <2>13
    DEF Next, Continue
<1> QED BY <1>3, <1>4, <1>5

-----------------------------------------------------------------------------
(* One owner.                                                              *)

\* The inductive invariant of ownership, on top of IInv.
OwnerInv ==
  /\ Early
  /\ Plat
  /\ "overflow" \notin failed => Alone /\ Stale

\* It holds at the start.
LEMMA InitOwner ==
  ASSUME Init
  PROVE  OwnerInv
<1>1. /\ \A h \in Handle : disp[h].kind # "pipe" /\ disp[h].kind # "platform"
      /\ \A t \in Thread : call[t] = Idle
      /\ \A e \in End : queue[e] = <<>>
      /\ lost = {} /\ shut = {} /\ pipes = 0
  BY NoneIs DEF Init
<1>2. Early
  BY <1>1 DEF Early
<1>3. Plat
  BY <1>1 DEF Plat, PlatHeld, Parcel, ParcelQ
<1>4. \A t \in Thread : call[t].at = "idle"
  BY <1>1, IdleIs
<1>5. Stale
  BY <1>4 DEF Stale, HandedOver
<1>6. \A e \in End : ~Parting(e) /\ \A t \in Thread : ~Closing(t, e)
  BY <1>4 DEF Parting, Closing
<1>7. Apart /\ LostOld
  BY <1>1, <1>6 DEF Apart, LostOld
<1>8. Found
  <2>1. \A e \in End : ~(e[1] <= 0)
    BY CoreAssumption DEF End
  <2> QED BY <1>1, <2>1 DEF Found
<1> QED BY <1>2, <1>3, <1>5, <1>7, <1>8 DEF OwnerInv, Alone

\* Every step keeps it.
LEMMA StepOwner ==
  ASSUME IInv, OwnerInv, [Next]_vars
  PROVE  OwnerInv'
<1>1. CASE Next
  <2>1. failed = {}
    BY <1>1, NotFailed
  <2>2. TypeOK /\ TableInv /\ OwnInv /\ SentOK /\ Alone /\ Stale /\ Early /\ Plat
    BY <2>1 DEF IInv, Good, OwnerInv
  <2>3. Early' /\ Plat'
    BY <1>1, <2>2, EarlyStep, PlatNext
  <2>4. ASSUME "overflow" \notin failed' PROVE Alone' /\ Stale'
    BY <1>1, <2>2, <2>4, AloneNext, StaleStep
  <2> QED BY <2>3, <2>4 DEF OwnerInv
<1>2. CASE UNCHANGED vars
  <2>1. \A h : HandedOver(h)' <=> HandedOver(h)
    BY <1>2 DEF vars, HandedOver
  <2>2. \A h : PlatHeld(h)' <=> PlatHeld(h)
    BY <1>2, <2>1 DEF vars, PlatHeld
  <2>3. Plat'
    BY <1>2, <2>2 DEF OwnerInv, Plat, Parcel, ParcelQ, vars
  <2>4. Early'
    BY <1>2 DEF OwnerInv, Early, vars
  <2>5. ASSUME "overflow" \notin failed' PROVE Alone' /\ Stale'
    <3>1. failed' = failed /\ "overflow" \notin failed
      BY <1>2, <2>5 DEF vars
    <3>2. TypeOK /\ OwnInv /\ Alone /\ Stale
      BY <3>1 DEF IInv, Good, OwnerInv
    <3>3. Still
      BY <1>2, StillSame DEF vars
    <3>4. Alone'
      BY <3>1, <3>2, <3>3, StillStep DEF Alone
    <3> QED BY <1>2, <2>1, <3>2, <3>4 DEF Stale, vars
  <2> QED BY <2>3, <2>4, <2>5 DEF OwnerInv
<1> QED BY <1>1, <1>2

\* A set of which any two members are equal has one member, or none.
LEMMA AtMostOne ==
  ASSUME NEW S, \A x, y \in S : x = y
  PROVE  /\ S = {} => Cardinality(S) = 0
         /\ S # {} => Cardinality(S) = 1
<1>1. CASE S = {}
  BY <1>1, FS_EmptySet
<1>2. CASE S # {}
  <2>1. PICK x : x \in S
    BY <1>2
  <2>2. S = {x}
    BY <2>1
  <2>3. Cardinality({x}) = 1
    BY FS_Singleton
  <2> QED BY <1>2, <2>2, <2>3
<1> QED BY <1>1, <1>2

\* The places of cargo.
LEMMA PackagesAre ==
  ASSUME TypeOK
  PROVE  /\ \A x \in Packages : \E f \in End, i, j \in Nat :
              /\ x = <<f, i, j>> /\ i \in DOMAIN queue[f] /\ j \in DOMAIN queue[f][i]
              /\ Package(x) = queue[f][i][j]
         /\ \A f \in End : \A i \in DOMAIN queue[f] : \A j \in DOMAIN queue[f][i] :
              <<f, i, j>> \in Packages /\ Package(<<f, i, j>>) = queue[f][i][j]
<1>1. ASSUME NEW f \in End, NEW i \in DOMAIN queue[f], NEW j \in DOMAIN queue[f][i]
      PROVE  i \in Nat /\ j \in Nat
  <2>1. queue[f] \in Seq(Seq(Cargo))
    BY DEF TypeOK
  <2>2. i \in Nat /\ queue[f][i] \in Seq(Cargo)
    BY <2>1
  <2> QED BY <2>2
<1>2. ASSUME NEW f \in End, NEW i \in DOMAIN queue[f], NEW j \in DOMAIN queue[f][i]
      PROVE  <<f, i, j>> \in Packages /\ Package(<<f, i, j>>) = queue[f][i][j]
  BY DEF Packages, Package
<1>3. ASSUME NEW x \in Packages
      PROVE  \E f \in End : \E i \in DOMAIN queue[f] : \E j \in DOMAIN queue[f][i] :
               x = <<f, i, j>>
  BY DEF Packages
<1> QED BY <1>1, <1>2, <1>3

\* An end of a pipe has one owner, or was dropped.
LEMMA OneOwns ==
  ASSUME TypeOK, TableInv, OwnInv, Alone, failed = {}, NEW e \in End, e[1] <= pipes
  PROVE  Owners(e) = IF e \in lost THEN 0 ELSE 1
<1> DEFINE A == {h \in Handle : /\ disp[h].kind = "pipe" /\ disp[h].res = e
                                /\ disp[h].port = gen[e] /\ ~disp[h].closed}
           B == {x \in Packages : Package(x).kind = "pipe" /\ Package(x).res = e}
           C == {t \in Thread : call[t].at = "closePort" /\ disp[call[t].h].res = e}
<1>1. /\ \A x, y \in A : x = y
      /\ A # {} <=> Held(e)
  BY DEF OwnInv, Owned, Held, Holds
<1>2. /\ \A x, y \in C : x = y
      /\ C # {} <=> Parting(e)
  BY DEF Alone, Apart, Closing, Parting
<1>3. ASSUME NEW x \in B
      PROVE  \E f \in End, i, j \in Nat :
               /\ x = <<f, i, j>> /\ i \in DOMAIN queue[f] /\ j \in DOMAIN queue[f][i]
               /\ queue[f][i][j].kind = "pipe" /\ queue[f][i][j].res = e
  <2>1. PICK f \in End, i \in Nat, j \in Nat :
          /\ x = <<f, i, j>> /\ i \in DOMAIN queue[f] /\ j \in DOMAIN queue[f][i]
          /\ Package(x) = queue[f][i][j]
    BY PackagesAre
  <2> QED BY <2>1
<1>4. ASSUME NEW x \in B, NEW y \in B PROVE x = y
  <2>1. PICK f \in End, i \in Nat, j \in Nat :
          /\ x = <<f, i, j>> /\ i \in DOMAIN queue[f] /\ j \in DOMAIN queue[f][i]
          /\ queue[f][i][j].kind = "pipe" /\ queue[f][i][j].res = e
    BY <1>3
  <2>2. PICK g \in End, k \in Nat, l \in Nat :
          /\ y = <<g, k, l>> /\ k \in DOMAIN queue[g] /\ l \in DOMAIN queue[g][k]
          /\ queue[g][k][l].kind = "pipe" /\ queue[g][k][l].res = e
    BY <1>3
  <2>3. CarriesMsg(queue[f][i], e) /\ CarriesMsg(queue[g][k], e)
    BY <2>1, <2>2 DEF CarriesMsg
  <2>4. f = g
    BY <2>1, <2>2, <2>3 DEF OwnInv, Owned, Carries
  <2>5. OnceQ(queue[f])
    BY DEF OwnInv, Owned
  <2>6. i = k
    BY <2>1, <2>2, <2>3, <2>4, <2>5 DEF OnceQ
  <2>7. OnceMsg(queue[f][i])
    BY <2>1, <2>5 DEF OnceQ
  <2>8. j = l
    BY <2>1, <2>2, <2>4, <2>6, <2>7 DEF OnceMsg
  <2> QED BY <2>1, <2>2, <2>4, <2>6, <2>8
<1>5. B # {} <=> Mail(e)
  <2>1. ASSUME B # {} PROVE Mail(e)
    <3>1. PICK x : x \in B
      BY <2>1
    <3>2. PICK f \in End, i \in Nat, j \in Nat :
            /\ i \in DOMAIN queue[f] /\ j \in DOMAIN queue[f][i]
            /\ queue[f][i][j].kind = "pipe" /\ queue[f][i][j].res = e
      BY <1>3, <3>1
    <3> QED BY <3>2 DEF Mail, Carries, CarriesMsg
  <2>2. ASSUME Mail(e) PROVE B # {}
    <3>1. PICK f \in End : \E i \in DOMAIN queue[f] : \E j \in DOMAIN queue[f][i] :
            queue[f][i][j].kind = "pipe" /\ queue[f][i][j].res = e
      BY <2>2 DEF Mail, Carries, CarriesMsg
    <3>2. PICK i \in DOMAIN queue[f] : \E j \in DOMAIN queue[f][i] :
            queue[f][i][j].kind = "pipe" /\ queue[f][i][j].res = e
      BY <3>1
    <3>3. PICK j \in DOMAIN queue[f][i] :
            queue[f][i][j].kind = "pipe" /\ queue[f][i][j].res = e
      BY <3>2
    <3>4. <<f, i, j>> \in B
      BY <3>3, PackagesAre
    <3> QED BY <3>4
  <2> QED BY <2>1, <2>2
<1>6. Owners(e) = Cardinality(A) + Cardinality(B) + Cardinality(C)
                  + (IF e \in shut THEN 1 ELSE 0)
  BY Zenon DEF Owners
<1> HIDE DEF A, B, C
<1>7. Cardinality(A) = IF Held(e) THEN 1 ELSE 0
  BY <1>1, AtMostOne
<1>8. Cardinality(B) = IF Mail(e) THEN 1 ELSE 0
  BY <1>4, <1>5, AtMostOne
<1>9. Cardinality(C) = IF Parting(e) THEN 1 ELSE 0
  BY <1>2, AtMostOne
<1>10. Held(e) => e \notin shut /\ ~Mail(e) /\ ~Parting(e)
  BY DEF OwnInv, Owned, Held
<1>11. Mail(e) => e \notin shut /\ ~Parting(e)
  BY DEF OwnInv, Owned
<1>12. /\ e \in lost => ~Held(e) /\ ~Mail(e) /\ ~Parting(e) /\ e \notin shut
       /\ Parting(e) => e \notin shut
  BY DEF Alone, Apart
<1>13. Held(e) \/ Mail(e) \/ Parting(e) \/ e \in shut \/ e \in lost
  BY DEF Alone, Found, Somebodys
<1> QED BY <1>6, <1>7, <1>8, <1>9, <1>10, <1>11, <1>12, <1>13

\* The platform handle has one owner at most.
LEMMA PlatOwns ==
  ASSUME TypeOK, Plat
  PROVE  PlatformOwners <= 1
<1> DEFINE A == {h \in Handle : /\ disp[h].kind = "platform" /\ ~disp[h].closed
                                /\ ~HandedOver(h)}
           B == {x \in Packages : Package(x).kind = "platform"}
<1>1. \A x, y \in A : x = y
  BY DEF Plat, PlatHeld
<1>2. ASSUME NEW x \in B
      PROVE  \E f \in End, i, j \in Nat : x = <<f, i, j>> /\ Parcel(f, i, j)
  <2>1. PICK f \in End, i \in Nat, j \in Nat :
          /\ x = <<f, i, j>> /\ i \in DOMAIN queue[f] /\ j \in DOMAIN queue[f][i]
          /\ Package(x) = queue[f][i][j]
    BY PackagesAre
  <2> QED BY <2>1 DEF Parcel, ParcelQ
<1>3. ASSUME NEW x \in B, NEW y \in B PROVE x = y
  <2>1. PICK f \in End, i \in Nat, j \in Nat : x = <<f, i, j>> /\ Parcel(f, i, j)
    BY <1>2
  <2>2. PICK g \in End, k \in Nat, l \in Nat : y = <<g, k, l>> /\ Parcel(g, k, l)
    BY <1>2
  <2> QED BY <2>1, <2>2 DEF Plat
<1>4. ASSUME A # {}, B # {} PROVE FALSE
  <2>1. PICK h \in Handle : PlatHeld(h)
    BY <1>4 DEF PlatHeld
  <2>2. PICK x : x \in B
    BY <1>4
  <2>3. PICK f \in End, i \in Nat, j \in Nat : Parcel(f, i, j)
    BY <1>2, <2>2
  <2> QED BY <2>1, <2>3 DEF Plat
<1>5. PlatformOwners = Cardinality(A) + Cardinality(B)
  BY Zenon DEF PlatformOwners
<1> HIDE DEF A, B
<1>6. Cardinality(A) = (IF A = {} THEN 0 ELSE 1) /\ Cardinality(B) = (IF B = {} THEN 0 ELSE 1)
  BY <1>1, <1>3, AtMostOne
<1> QED BY <1>4, <1>5, <1>6

\* Every end of a pipe has one owner at every moment of every transfer, a dispatcher,
\* a message, a call that closes it or the node that has closed it, and the platform
\* handle has one at most, whatever the threads do.  Nobody owns the ends that were
\* dropped with a message nobody gets.
THEOREM OneOwnerHolds == Spec => []OneOwner
<1>1. Init => OwnerInv
  BY InitOwner
<1>2. IInv /\ OwnerInv /\ [Next]_vars => OwnerInv'
  BY StepOwner
<1>3. ASSUME IInv, OwnerInv PROVE OneOwner
  <2>1. TypeOK /\ Plat
    BY <1>3 DEF IInv, OwnerInv
  <2>2. ASSUME failed = {}, NEW e \in End, e[1] <= pipes
        PROVE  Owners(e) = IF e \in lost THEN 0 ELSE 1
    <3>1. TableInv /\ OwnInv /\ Alone
      BY <1>3, <2>2 DEF IInv, Good, OwnerInv
    <3> QED BY <2>1, <2>2, <3>1, OneOwns
  <2> QED BY <2>1, <2>2, PlatOwns DEF OneOwner
<1>4. IInv /\ OwnerInv => OneOwner
  BY <1>3
<1> QED BY <1>1, <1>2, <1>4, Invariance, PTL DEF Spec

-----------------------------------------------------------------------------
(* All or nothing.                                                         *)

\* A write at its end stays there, or ends.
LEMMA WriteStays ==
  ASSUME TypeOK, Next, NEW t \in Thread, call[t].at = "finish"
  PROVE  call'[t] = call[t] \/ CompleteTransitAndClose(t) \/ CancelTransit(t)
<1>1. call \in [Thread -> CallRec] /\ Idle.at = "idle"
  BY IdleIs DEF TypeOK, CallRec
<1>2. ASSUME NEW u \in Thread, NEW c, call[u].at # "finish", call' = [call EXCEPT ![u] = c]
      PROVE  call'[t] = call[t]
  BY <1>1, <1>2
<1>3. ASSUME NEW u \in Thread,
             \/ \E h \in table, hs \in Bundles : WriteMessage(u, h, hs)
             \/ \E h \in table : ReadMessage(u, h) \/ UseBuffer(u, h) \/ Close(u, h)
             \/ CheckWrite(u) \/ CheckRead(u) \/ BeginTransit(u) \/ ClosePipe(u)
             \/ ReadNothing(u) \/ TellPeerClosed(u) \/ ReadDiscards(u) \/ ReadTakes(u)
             \/ CloseThing(u) \/ ClosePort(u) \/ MapBuffer(u) \/ DuplicateBufferHandle(u)
      PROVE  call'[t] = call[t]
  <2>1. call[u].at # "finish"
    BY <1>1, <1>3 DEF WriteMessage, ReadMessage, UseBuffer, Close, Calls, CheckWrite,
       CheckRead, BeginTransit, ClosePipe, ReadNothing, TellPeerClosed, ReadDiscards,
       ReadTakes, CloseThing, ClosePort, MapBuffer, DuplicateBufferHandle, At
  <2>2. \E c : call' = [call EXCEPT ![u] = c]
    BY <1>3, Zenon DEF WriteMessage, ReadMessage, UseBuffer, Close, CheckWrite,
       CheckRead, BeginTransit, ClosePipe, ReadNothing, TellPeerClosed, ReadDiscards,
       ReadTakes, CloseThing, ClosePort, MapBuffer, DuplicateBufferHandle
  <2> QED BY <1>2, <2>1, <2>2
<1>4. ASSUME NEW u \in Thread, SendMessage(u) PROVE call'[t] = call[t]
  <2>1. call[u].at = "send" /\ (SendFails(u) \/ Sends(u) \/ SendRefused(u))
    BY <1>4, SendIs
  <2>2. \E c : call' = [call EXCEPT ![u] = c]
    BY <2>1, Zenon DEF SendFails, Sends, SendRefused, Moves
  <2> QED BY <1>2, <2>1, <2>2
<1>5. ASSUME NEW u \in Thread, CompleteTransitAndClose(u) \/ CancelTransit(u)
      PROVE  u = t \/ call'[t] = call[t]
  <2>1. call' = [call EXCEPT ![u] = Idle]
    BY <1>5 DEF CompleteTransitAndClose, CancelTransit
  <2> QED BY <1>1, <2>1
<1>6. ASSUME \/ CreateMessagePipe \/ CreateSharedBuffer \/ CreatePlatformHandleWrapper
             \/ \E u \in Thread, h \in table : PassWrappedPlatformHandle(u, h)
             \/ \E h \in event : OnPortStatusChanged(h)
             \/ \E w \in Waits : WaitFor(w[1], w[2])
             \/ AddAwakable \/ RemoveAwakable
      PROVE  call' = call
  BY <1>6, Zenon DEF CreateMessagePipe, CreateSharedBuffer, CreatePlatformHandleWrapper,
     Create, PassWrappedPlatformHandle, OnPortStatusChanged, WaitFor, AddAwakable,
     RemoveAwakable
<1> QED BY <1>3, <1>4, <1>5, <1>6 DEF Next, Continue

\* Only a write whose EndSerialize failed, and is about to end, has a dispatcher of
\* the table closed.
Failing(c, h) == c.at = "finish" /\ c.ok /\ ~c.sent /\ h \in ToSet(c.hs)
Emptied == \A h \in table : disp[h].closed => \E t \in Thread : Failing(call[t], h)

\* A handle of the table whose dispatcher is closed was there, and closed.
WasClosed(h) == h \in table' /\ disp'[h].closed => h \in table /\ disp[h].closed

\* A new dispatcher is open.
LEMMA OpenNew ==
  ASSUME TypeOK, NEW kind, NEW res, NEW port, Adds(New(kind, res, port)), NEW h \in Handle
  PROVE  WasClosed(h)
<1>1. next \in 0..LastHandle /\ LastHandle \in Nat /\ disp \in [Handle -> Dispatcher]
  BY CoreAssumption DEF TypeOK
<1>2. CASE next = INVALID
  BY <1>2 DEF Adds, AddDispatcher, OutOfHandles, WasClosed
<1>3. CASE next # INVALID
  <2> DEFINE d == New(kind, res, port)
  <2>1. ~d.closed
    BY DEF New
  <2>2. next \in Handle /\ table' = table \cup {next} /\ disp' = [disp EXCEPT ![next] = d]
    BY <1>1, <1>3 DEF INVALID, Handle, Adds, AddDispatcher
  <2> HIDE DEF d
  <2> QED BY <1>1, <2>1, <2>2 DEF WasClosed
<1> QED BY <1>2, <1>3

\* Calls that give no handle a dispatcher close only what leaves the table, apart
\* from EndSerialize.
LEMMA OpenCalls ==
  ASSUME TypeOK, TableInv, NEW t \in Thread, NEW h \in Handle,
         \/ \E g \in table, hs \in Bundles : WriteMessage(t, g, hs)
         \/ \E g \in table : \/ ReadMessage(t, g) \/ UseBuffer(t, g) \/ Close(t, g)
                             \/ PassWrappedPlatformHandle(t, g)
         \/ BeginTransit(t) \/ CheckWrite(t) \/ (SendMessage(t) /\ ~SendFails(t))
         \/ CompleteTransitAndClose(t) \/ CancelTransit(t)
         \/ CheckRead(t) \/ ReadNothing(t) \/ TellPeerClosed(t) \/ ReadDiscards(t)
         \/ ClosePipe(t) \/ CloseThing(t) \/ ClosePort(t) \/ MapBuffer(t)
  PROVE  WasClosed(h)
<1> DEFINE hs == ToSet(call[t].hs)
<1>1. hs \in SUBSET Handle
  <2>1. call[t].hs \in Seq(Handle)
    BY CallOf
  <2> QED BY <2>1, ToSetIs
<1> HIDE DEF hs
<1>2. ASSUME disp' = disp, table' \subseteq table PROVE WasClosed(h)
  BY <1>2 DEF WasClosed
<1>3. ASSUME disp' = Marked(hs, TRUE) \/ disp' = Marked(hs, FALSE), table' = table
      PROVE  WasClosed(h)
  BY <1>1, <1>3, MarkedOn, MarkedOff DEF WasClosed
<1>4. ASSUME NEW g \in Handle, disp' = [disp EXCEPT ![g].closed = TRUE],
             g \notin table', table' \subseteq table
      PROVE  WasClosed(h)
  BY <1>4, ClosedIs DEF WasClosed
<1>5. CASE SendMessage(t) /\ ~SendFails(t)
  <2>1. (Sends(t) \/ SendRefused(t)) /\ table' = table
    BY <1>5, SendIs
  <2>2. disp' = disp
    BY <2>1, Zenon DEF Sends, SendRefused
  <2> QED BY <1>2, <2>1, <2>2
<1>6. CASE BeginTransit(t)
  BY <1>2, <1>3, <1>6 DEF BeginTransit, hs
<1>7. CASE CancelTransit(t)
  BY <1>3, <1>7 DEF CancelTransit, hs
<1>8. CASE CompleteTransitAndClose(t)
  <2>1. /\ disp' = [g \in Handle |-> IF g \in hs THEN Transferred(disp[g]) ELSE disp[g]]
        /\ table' = table \ hs
    BY <1>8 DEF CompleteTransitAndClose, hs
  <2> QED BY <2>1 DEF WasClosed
<1>9. CASE ClosePipe(t)
  <2>1. /\ call[t].h \in Handle /\ call[t].h \notin table /\ table' = table
        /\ disp' = disp \/ disp' = [disp EXCEPT ![call[t].h].closed = TRUE]
    BY <1>9, PipeCloses
  <2> QED BY <1>2, <1>4, <2>1
<1>10. CASE CloseThing(t)
  <2>1. /\ call[t].at = "close" /\ call[t].h \in Handle /\ table' = table
        /\ disp' = [disp EXCEPT ![call[t].h].closed = TRUE]
    BY <1>10, ThingCloses
  <2>2. call[t].h \notin table
    BY <2>1 DEF TableInv, CallsOK, CallOK
  <2> QED BY <1>4, <2>1, <2>2
<1>11. ASSUME NEW g \in table, PassWrappedPlatformHandle(t, g) PROVE WasClosed(h)
  <2>1. CASE disp[g].kind = "platform"
    BY <1>4, <1>11, <2>1 DEF PassWrappedPlatformHandle, Passed, TypeOK
  <2>2. CASE disp[g].kind # "platform"
    BY <1>2, <1>11, <2>2 DEF PassWrappedPlatformHandle
  <2> QED BY <2>1, <2>2
<1>12. CASE \/ \E g \in table, x \in Bundles : WriteMessage(t, g, x)
            \/ \E g \in table : ReadMessage(t, g) \/ UseBuffer(t, g) \/ Close(t, g)
            \/ CheckWrite(t) \/ CheckRead(t) \/ ReadNothing(t) \/ TellPeerClosed(t)
            \/ ReadDiscards(t) \/ ClosePort(t) \/ MapBuffer(t)
  <2>1. disp' = disp /\ table' \subseteq table
    BY <1>12 DEF WriteMessage, ReadMessage, UseBuffer, Close, CheckWrite, CheckRead,
       ReadNothing, TellPeerClosed, ReadDiscards, ClosePort, MapBuffer
  <2> QED BY <1>2, <2>1
<1> QED
  BY <1>5, <1>6, <1>7, <1>8, <1>9, <1>10, <1>11, <1>12

\* So do the others.
LEMMA OpenStep ==
  ASSUME TypeOK, TableInv, Ends, Next, "overflow" \notin failed',
         \A t \in Thread : ~(SendMessage(t) /\ SendFails(t)), NEW h \in Handle
  PROVE  WasClosed(h)
<1>1. CASE UNCHANGED <<disp, table>>
  BY <1>1 DEF WasClosed
<1>2. ASSUME NEW t \in Thread,
             \/ \E g \in table, hs \in Bundles : WriteMessage(t, g, hs)
             \/ \E g \in table : \/ ReadMessage(t, g) \/ UseBuffer(t, g) \/ Close(t, g)
                                 \/ PassWrappedPlatformHandle(t, g)
             \/ BeginTransit(t) \/ CheckWrite(t) \/ (SendMessage(t) /\ ~SendFails(t))
             \/ CompleteTransitAndClose(t) \/ CancelTransit(t)
             \/ CheckRead(t) \/ ReadNothing(t) \/ TellPeerClosed(t) \/ ReadDiscards(t)
             \/ ClosePipe(t) \/ CloseThing(t) \/ ClosePort(t) \/ MapBuffer(t)
      PROVE  WasClosed(h)
  BY <1>2, OpenCalls
<1>3. CASE CreateMessagePipe
  <2>1. disp \in [Handle -> Dispatcher]
    BY DEF TypeOK
  <2> DEFINE a == next
             b == After(next)
             x == New("pipe", <<pipes + 1, 0>>, 0)
             y == New("pipe", <<pipes + 1, 1>>, 0)
  <2>2. \/ UNCHANGED <<disp, table>>
        \/ table' = table \cup {a, b} /\ disp' = [disp EXCEPT ![a] = x, ![b] = y]
    BY <1>3 DEF CreateMessagePipe, OutOfHandles
  <2>3. ~x.closed /\ ~y.closed
    BY DEF New
  <2> HIDE DEF a, b, x, y
  <2>4. CASE table' = table \cup {a, b} /\ disp' = [disp EXCEPT ![a] = x, ![b] = y]
    BY <2>1, <2>3, <2>4 DEF WasClosed
  <2> QED BY <1>1, <2>2, <2>4
<1>4. ASSUME NEW kind \in {"buffer", "platform"}, Create(kind) PROVE WasClosed(h)
  BY <1>4, CreateAdds, OpenNew
<1>5. ASSUME NEW t \in Thread, DuplicateBufferHandle(t) PROVE WasClosed(h)
  <2>1. CASE disp[call[t].h].closed
    BY <1>1, <1>5, <2>1 DEF DuplicateBufferHandle
  <2>2. CASE ~disp[call[t].h].closed
    <3>1. Adds(New("buffer", disp[call[t].h].res, 0))
      BY <1>5, <2>2, DuplicateAdds DEF Duplicate
    <3> QED BY <3>1, OpenNew
  <2> QED BY <2>1, <2>2
<1>6. ASSUME NEW t \in Thread, ReadTakes(t) PROVE WasClosed(h)
  <2> DEFINE f == disp[call[t].h].res
             m == Head(queue[f])
             to == FromTransit(m)
  <2>1. call[t].at = "read" /\ queue[f] # <<>>
    BY <1>6 DEF ReadTakes, At
  <2>2. f \in End
    BY <2>1, ReadFinds
  <2>3. m \in Seq(Cargo) /\ \A j \in DOMAIN m : m[j] \in Cargo
    BY <2>1, <2>2, HeadIs
  <2>4. CASE next = INVALID /\ m # <<>>
    BY <1>1, <1>6, <2>4 DEF ReadTakes
  <2>5. CASE next # INVALID \/ m = <<>>
    <3>1. /\ disp' = [g \in Handle |->
                        IF \E i \in DOMAIN to : to[i] = g
                        THEN Deserialized(m[CHOOSE i \in DOMAIN to : to[i] = g])
                        ELSE disp[g]]
          /\ table' = table \cup (ToSet(to) \ {INVALID})
          /\ failed' = failed \cup (IF INVALID \in ToSet(to) THEN {"overflow"} ELSE {})
      BY <1>6, <2>5 DEF ReadTakes
    <3>2. INVALID \notin ToSet(to)
      BY <3>1
    <3> HIDE DEF m, f
    <3>3. /\ h \notin ToSet(to) => disp'[h] = disp[h]
          /\ h \in ToSet(to) => /\ h - next + 1 \in DOMAIN m
                                /\ disp'[h] = Deserialized(m[h - next + 1])
      BY <2>3, <2>5, <3>1, <3>2, TakesIs
    <3> HIDE DEF to
    <3>4. h \in ToSet(to) => ~disp'[h].closed
      BY <2>3, <3>3, CargoHas
    <3> QED BY <3>1, <3>3, <3>4 DEF WasClosed
  <2> QED BY <2>4, <2>5
<1>7. ASSUME \/ \E g \in event : OnPortStatusChanged(g)
             \/ \E w \in Waits : WaitFor(w[1], w[2])
             \/ AddAwakable \/ RemoveAwakable
      PROVE  UNCHANGED <<disp, table>>
  BY <1>7, Zenon DEF OnPortStatusChanged, WaitFor, AddAwakable, RemoveAwakable
<1>8. ASSUME NEW t \in Thread, Continue(t) PROVE WasClosed(h)
  <2>1. SendMessage(t) => WasClosed(h)
    BY <1>2
  <2>2. BeginTransit(t) \/ CheckWrite(t) => WasClosed(h)
    BY <1>2
  <2>3. CompleteTransitAndClose(t) \/ CancelTransit(t) => WasClosed(h)
    BY <1>2
  <2>4. \/ CheckRead(t) \/ ReadNothing(t) \/ TellPeerClosed(t) \/ ReadDiscards(t)
        \/ ClosePipe(t) \/ CloseThing(t) \/ ClosePort(t) \/ MapBuffer(t)
        => WasClosed(h)
    BY <1>2
  <2> QED BY <1>5, <1>6, <1>8, <2>1, <2>2, <2>3, <2>4, Zenon DEF Continue
<1>9. ASSUME NEW t \in Thread, NEW g \in table,
             \/ \E hs \in Bundles : WriteMessage(t, g, hs)
             \/ ReadMessage(t, g) \/ Close(t, g)
             \/ PassWrappedPlatformHandle(t, g) \/ UseBuffer(t, g)
      PROVE  WasClosed(h)
  BY <1>2, <1>9
<1>10. CreateSharedBuffer \/ CreatePlatformHandleWrapper => WasClosed(h)
  BY <1>4 DEF CreateSharedBuffer, CreatePlatformHandleWrapper
<1>11. \/ \E g \in event : OnPortStatusChanged(g)
       \/ \E w \in Waits : WaitFor(w[1], w[2])
       \/ AddAwakable \/ RemoveAwakable
       => WasClosed(h)
  BY <1>1, <1>7
<1> QED
  BY <1>3, <1>8, <1>9, <1>10, <1>11, Zenon DEF Next

\* What EndSerialize has closed belongs to the write that is about to end.
LEMMA EmptiedFails ==
  ASSUME TypeOK, TableInv, Emptied, NEW t \in Thread, SendMessage(t), SendFails(t)
  PROVE  Emptied'
<1> DEFINE hs == call[t].hs
           bad == Unserializable(hs)
           c == SendDone(call[t], TRUE, FALSE)
<1>1. /\ call[t].at = "send" /\ table' = table /\ bad # {}
      /\ Moves(t, c)
      /\ disp' = [h \in Handle |-> IF h \in bad
                    THEN [disp[h] EXCEPT !.closed = TRUE] ELSE disp[h]]
  BY SendIs, Zenon DEF SendFails
<1>2. call[t] \in CallRec /\ hs \in Seq(Handle)
  BY CallOf
<1>3. bad \subseteq ToSet(hs) /\ hs # <<>>
  <2>1. \A i \in DOMAIN hs : hs[i] \in ToSet(hs)
    BY DEF ToSet
  <2> QED BY <1>1, <2>1 DEF Unserializable
<1>4. c = Finishes(call[t], TRUE, FALSE)
  BY <1>3, Zenon DEF SendDone
<1>5. c \in CallRec /\ c.at = "finish" /\ c.ok /\ ~c.sent /\ c.hs = hs
  BY <1>2, <1>4 DEF Finishes, CallRec
<1> HIDE DEF c
<1>6. call'[t] = c /\ \A u \in Thread : u # t => call'[u] = call[u]
  BY <1>1, <1>5, MovesIs
<1> HIDE DEF bad, hs
<1>7. ASSUME NEW h \in table', disp'[h].closed PROVE \E u \in Thread : Failing(call'[u], h)
  <2>1. h \in table /\ h \in Handle
    BY <1>1 DEF TypeOK
  <2>2. CASE h \in bad
    BY <1>3, <1>5, <1>6, <2>2 DEF Failing
  <2>3. CASE h \notin bad
    <3>1. disp[h].closed
      BY <1>1, <1>7, <2>1, <2>3
    <3>2. PICK u \in Thread : Failing(call[u], h)
      BY <2>1, <3>1 DEF Emptied
    <3>3. u # t
      BY <1>1, <3>2 DEF Failing
    <3> QED BY <1>6, <3>2, <3>3
  <2> QED BY <2>2, <2>3
<1> QED BY <1>7 DEF Emptied, Failing

\* Every step that does not overflow keeps it.
LEMMA EmptiedStep ==
  ASSUME TypeOK, TableInv, Ends, Emptied, Next, "overflow" \notin failed'
  PROVE  Emptied'
<1>1. CASE \E t \in Thread : SendMessage(t) /\ SendFails(t)
  BY <1>1, EmptiedFails
<1>2. CASE \A t \in Thread : ~(SendMessage(t) /\ SendFails(t))
  <2>1. ASSUME NEW h \in table', disp'[h].closed PROVE \E u \in Thread : Failing(call'[u], h)
    <3>1. h \in Handle
      BY TypeStep DEF TypeOK
    <3>2. h \in table /\ disp[h].closed
      BY <1>2, <2>1, <3>1, OpenStep DEF WasClosed
    <3>3. PICK u \in Thread : Failing(call[u], h)
      BY <3>2 DEF Emptied
    <3>4. ~CancelTransit(u)
      BY <3>3 DEF Failing, CancelTransit, WriteOK
    <3>5. ~CompleteTransitAndClose(u)
      BY <2>1, <3>3 DEF Failing, CompleteTransitAndClose
    <3> QED BY <3>3, <3>4, <3>5, WriteStays DEF Failing
  <2> QED BY <2>1 DEF Emptied, Failing
<1> QED BY <1>1, <1>2

\* It holds unless a read gave out MOJO_HANDLE_INVALID.
LEMMA EmptiedAlways ==
  Spec => []("overflow" \notin failed => Emptied)
<1> DEFINE EInv == "overflow" \notin failed => Emptied
<1>1. Init => EInv
  BY DEF Init, Emptied
<1>2. ASSUME IInv, EInv, [Next]_vars PROVE EInv'
  <2>1. CASE UNCHANGED vars
    BY <1>2, <2>1 DEF vars, Emptied, Failing
  <2>2. CASE Next
    <3>1. failed = {}
      BY <2>2, NotFailed
    <3>2. TypeOK /\ TableInv /\ Ends /\ Emptied
      BY <1>2, <3>1 DEF IInv, Good, OwnInv
    <3> QED BY <2>2, <3>2, EmptiedStep
  <2> QED BY <1>2, <2>1, <2>2
<1>3. IInv /\ EInv /\ [Next]_vars => EInv'
  BY <1>2
<1> QED BY <1>1, <1>3, Invariance, PTL DEF Spec

\* When a write ends.
LEMMA AllOrNothingStep ==
  ASSUME IInv, "overflow" \notin failed => Emptied, Next, NEW t \in Thread,
         call[t].at = "finish", call'[t].at = "idle", NEW h \in ToSet(call[t].hs)
  PROVE  /\ call[t].sent => h \notin table'
         /\ ~call[t].ok => h \in table' /\ ~disp'[h].closed /\ ~disp'[h].inTransit
<1>1. TypeOK /\ TableInv /\ SentOK /\ Emptied
  BY NotFailed DEF IInv, Good
<1>2. CompleteTransitAndClose(t) \/ CancelTransit(t)
  BY <1>1, WriteStays
<1>3. /\ h \in Handle /\ h \in table /\ ToSet(call[t].hs) \in SUBSET Handle
      /\ Carried(call[t]) = ToSet(call[t].hs)
  BY <1>1, CarriedHas DEF Carrying
<1>4. CASE CompleteTransitAndClose(t)
  BY <1>4 DEF CompleteTransitAndClose, WriteOK
<1>5. CASE CancelTransit(t)
  <2>1. /\ ~call[t].ok /\ table' = table /\ disp' = Marked(ToSet(call[t].hs), FALSE)
    BY <1>5 DEF CancelTransit, WriteOK
  <2>2. ~call[t].sent
    BY <1>1, <2>1 DEF SentOK, SentRec
  <2>3. ~disp[h].closed
    <3>1. ASSUME NEW u \in Thread, Failing(call[u], h) PROVE FALSE
      <4>1. u # t /\ h \in Carried(call[u])
        BY <2>1, <3>1 DEF Failing, Carried, Carrying
      <4> QED BY <1>1, <1>3, <4>1 DEF TableInv, Transit
    <3> QED BY <1>1, <1>3, <3>1 DEF Emptied
  <2>4. (disp'[h].closed <=> disp[h].closed) /\ ~disp'[h].inTransit
    BY <1>1, <1>3, <2>1, MarkedOff
  <2> QED BY <1>3, <2>1, <2>2, <2>3, <2>4
<1> QED BY <1>2, <1>4, <1>5

\* When WriteMessage ends, what it carries has left the table if the message was
\* sent, and is there, open and usable, if the write failed, also where EndSerialize
\* may fail: a buffer that another write has emptied is never handed back.
THEOREM AllOrNothingHolds == Spec => AllOrNothing
<1> DEFINE EInv == "overflow" \notin failed => Emptied
<1>1. ASSUME IInv, EInv, [Next]_vars
      PROVE  [\A t \in Thread :
                call[t].at = "finish" /\ call'[t].at = "idle" =>
                  \A h \in ToSet(call[t].hs) :
                    /\ call[t].sent => h \notin table'
                    /\ ~call[t].ok => h \in table' /\ ~disp'[h].closed
                                                   /\ ~disp'[h].inTransit]_vars
  <2>1. CASE UNCHANGED vars
    BY <2>1
  <2>2. CASE Next
    BY <1>1, <2>2, AllOrNothingStep
  <2> QED BY <1>1, <2>1, <2>2
<1>2. Spec => []EInv
  BY EmptiedAlways
<1> QED BY <1>1, <1>2, Invariance, PTL DEF Spec, AllOrNothing
=============================================================================
