---------------------------- MODULE ChildProcess ----------------------------
(***************************************************************************)
(* The shell's runner of one application in a process of its own: the     *)
(* OutOfProcessNativeRunner and its ChildProcessHost on the main thread,   *)
(* DoLaunch on a thread of the blocking pool, the bootstrap pipe that the  *)
(* node controller hands over on its I/O thread, and the child with its    *)
(* main thread and its controller thread (--use-new-edk).                  *)
(*                                                                         *)
(* The bootstrap pipe is a queue towards the child and one reply; what     *)
(* NodeController and Ports model of it is external here.                  *)
(***************************************************************************)
EXTENDS Naturals, Sequences, FiniteSets, SequencesExt

CONSTANTS
  Launches,   \* whether the launch of the process succeeds: a subset of BOOLEAN
  MayCrash    \* whether the child may crash

ASSUME ChildProcessAssumption ==
  /\ Launches \in SUBSET BOOLEAN \ {{}}
  /\ MayCrash \in BOOLEAN

VARIABLES
  host,     \* the runner and its ChildProcessHost
  launch,   \* DoLaunch: "none", "posted", "launched" or "done"
  io,       \* the reserved port: "none", "reserved", "connected", "set", "posted"
  child,    \* the child process
  toChild,  \* unread messages to the child: StartApp, ExitNow
  reply,    \* the reply to StartApp is on its way or was read
  failed    \* the checks that failed

vars == <<host, launch, io, child, toChild, reply, failed>>

\* pc is where the main thread is; joins says who called Join; end is what the
\* host has of the pipe: held by pipe_holder_, bound to controller_ or closed;
\* ready counts the runs of process_ready_callback_, completed those of
\* app_completed_callback_.
Host ==
  [pc: {"new", "loop", "quit", "waitEvent", "join", "joining", "gone"},
   mode: {"none", "start", "channel"}, joins: {"none", "complete", "destroy"},
   tasks: Seq({"DidStart", "OnMessagePipeCreated"}),
   valid: BOOLEAN, event: BOOLEAN, reject: BOOLEAN,
   end: {"none", "held", "bound", "closed"},
   ready: 0..2, on_app_complete: BOOLEAN, completed: 0..1]

\* main and ctl are where its main and its controller thread are; run_after is
\* the closure of the Blocker.
Child ==
  [proc: {"none", "running", "exited"},
   main: {"init", "blocked", "app", "shutdown", "return"},
   ctl: {"none", "posted", "requesting", "answered", "created", "bound", "reset"},
   run_after: BOOLEAN]

Init ==
  /\ host = [pc |-> "new", mode |-> "none", joins |-> "none", tasks |-> <<>>,
             valid |-> FALSE, event |-> FALSE, reject |-> FALSE, end |-> "none",
             ready |-> 0, on_app_complete |-> FALSE, completed |-> 0]
  /\ launch = "none"
  /\ io = "none"
  /\ child = [proc |-> "none", main |-> "init", ctl |-> "none", run_after |-> FALSE]
  /\ toChild = <<>>
  /\ reply = FALSE
  /\ failed = {}

\* A check that fails ends the host.
HostAt(pc) == host.pc = pc /\ failed = {}
ChildRuns == child.proc = "running" /\ failed = {}
Check(ok, what) == failed' = failed \cup (IF ok THEN {} ELSE {what})

-----------------------------------------------------------------------------
(* Starting the host.                                                      *)

\* ChildProcessHost::Start: a port is reserved and DoLaunch is posted.
HostStart ==
  /\ io' = "reserved"
  /\ launch' = "posted"
  /\ UNCHANGED <<child, toChild, reply, failed>>

Start ==
  /\ HostAt("new")
  /\ host' = [host EXCEPT !.pc = "loop", !.mode = "start"]
  /\ HostStart

\* ChildProcessHost::StartApp.
HostStartApp(h) ==
  /\ host' = [h EXCEPT !.on_app_complete = TRUE]
  /\ toChild' = Append(toChild, "StartApp")

\* A host for a channel: somebody else launched the process and made the pipe.
ForChannel(h) == [h EXCEPT !.pc = "loop", !.mode = "channel", !.end = "bound"]

InitHost ==
  /\ HostAt("new")
  /\ HostStartApp(ForChannel(host))
  /\ child' = [child EXCEPT !.proc = "running", !.main = "blocked", !.ctl = "bound"]
  /\ UNCHANGED <<launch, io, reply, failed>>

\* DoLaunch, up to ChildProcessLaunched, which connects the two nodes.
DoLaunch ==
  /\ launch = "posted"
  /\ failed = {}
  /\ launch' = "launched"
  /\ \E ok \in Launches :
       /\ host' = [host EXCEPT !.valid = ok]
       /\ child' = [child EXCEPT !.proc = IF ok THEN "running" ELSE "none"]
  /\ UNCHANGED <<io, toChild, reply, failed>>

\* Its last statement, and the reply to the thread that called Start.  It was
\* given this without a reference.
DidLaunch ==
  /\ launch = "launched"
  /\ failed = {}
  /\ launch' = "done"
  /\ host' = [host EXCEPT !.event = TRUE, !.tasks = Append(@, "DidStart")]
  /\ Check(host.pc # "gone", "launch")
  /\ UNCHANGED <<io, child, toChild, reply>>

-----------------------------------------------------------------------------
(* The bootstrap pipe.                                                     *)

\* The child's request finds the reserved port (OnRequestPortConnection of
\* the parent's node controller).
ConnectToPort ==
  /\ ChildRuns
  /\ child.ctl = "requesting"
  /\ io = "reserved"
  /\ io' = "connected"
  /\ child' = [child EXCEPT !.ctl = "answered"]
  /\ UNCHANGED <<host, launch, toChild, reply, failed>>

\* A pipe that PipeHolder rejects is closed when it goes out of scope.
Stored == IF host.reject THEN "closed" ELSE "held"

\* OnParentMessagePipeCreated, on any thread: SetPipe ...
SetPipe ==
  /\ io = "connected"
  /\ failed = {}
  /\ io' = "set"
  /\ host' = [host EXCEPT !.end = Stored]
  /\ UNCHANGED <<launch, child, toChild, reply, failed>>

PipeSet == io = "set"

\* ... and then the task for the main thread, which may have stopped its loop.
PostTask ==
  /\ PipeSet
  /\ failed = {}
  /\ io' = "posted"
  /\ host' = [host EXCEPT !.tasks = Append(@, "OnMessagePipeCreated")]
  /\ UNCHANGED <<launch, child, toChild, reply, failed>>

-----------------------------------------------------------------------------
(* The main thread of the host while its message loop runs.                *)

\* process_ready_callback_ starts the application.  Its arguments are passed, so
\* it cannot run twice.
OnProcessLaunched(h) ==
  LET run == [h EXCEPT !.ready = @ + 1]
  IN /\ IF h.ready = 0 THEN HostStartApp(run) ELSE host' = run /\ UNCHANGED toChild
     /\ Check(h.ready = 0, "ready")

MaybeNotifyProcessReady(h) ==
  IF h.end = "bound" /\ h.valid THEN OnProcessLaunched(h)
  ELSE host' = h /\ UNCHANGED <<toChild, failed>>

RunTask(task) ==
  /\ HostAt("loop")
  /\ host.tasks # <<>>
  /\ Head(host.tasks) = task

Ran == [host EXCEPT !.tasks = Tail(@)]

OnMessagePipeCreated ==
  /\ RunTask("OnMessagePipeCreated")
  /\ IF host.end = "held" THEN MaybeNotifyProcessReady([Ran EXCEPT !.end = "bound"])
     ELSE host' = Ran /\ Check(FALSE, "passPipe") /\ UNCHANGED toChild
  /\ UNCHANGED <<launch, io, child, reply>>

\* Join begins: a bound controller_ is taken for a sign that Start was called.
Join(h, who) ==
  [h EXCEPT !.pc = IF h.end = "bound" THEN "waitEvent" ELSE "join", !.joins = who]

\* ChildProcessHost::AppCompleted and OutOfProcessNativeRunner::AppCompleted.
AppCompleted(h) ==
  IF h.on_app_complete THEN Join([h EXCEPT !.on_app_complete = FALSE], "complete")
  ELSE h

DidStart ==
  /\ RunTask("DidStart")
  /\ IF host.valid THEN MaybeNotifyProcessReady(Ran)
     ELSE host' = AppCompleted(Ran) /\ UNCHANGED <<toChild, failed>>
  /\ UNCHANGED <<launch, io, child, reply>>

\* The reply to StartApp.
OnReply ==
  /\ HostAt("loop")
  /\ reply
  /\ host.end = "bound"
  /\ host.on_app_complete
  /\ host' = AppCompleted(host)
  /\ UNCHANGED <<launch, io, child, toChild, reply, failed>>

\* The launcher shuts down: the loop stops (external).
Quit ==
  /\ HostAt("loop")
  /\ host' = [host EXCEPT !.pc = "quit"]
  /\ UNCHANGED <<launch, io, child, toChild, reply, failed>>

ExitNow ==
  /\ HostAt("quit")
  /\ host.end = "bound"
  /\ "ExitNow" \notin ToSet(toChild)
  /\ toChild' = Append(toChild, "ExitNow")
  /\ UNCHANGED <<host, launch, io, child, reply, failed>>

\* A host that was made for a channel is not joined; controller_ goes with it.
Destroyed(h) == [h EXCEPT !.pc = "gone", !.end = "closed"]

\* ~OutOfProcessNativeRunner.
Destroy ==
  /\ HostAt("quit")
  /\ host' = IF host.mode = "start" THEN Join(host, "destroy") ELSE Destroyed(host)
  /\ UNCHANGED <<launch, io, child, toChild, reply, failed>>

-----------------------------------------------------------------------------
(* Join.                                                                   *)

JoinWaits ==
  /\ HostAt("waitEvent")
  /\ host.event
  /\ host' = [host EXCEPT !.event = FALSE, !.pc = "join"]
  /\ UNCHANGED <<launch, io, child, toChild, reply, failed>>

\* Closes only what the controller has.
Rejected_bound(h) ==
  [h EXCEPT !.reject = TRUE, !.end = IF @ = "bound" THEN "closed" ELSE @]

\* The controller is reset, and PipeHolder::Reject closes the pipe if it holds
\* it, and the one it may still get.
Rejected(h) ==
  [h EXCEPT !.reject = TRUE, !.end = IF @ \in {"bound", "held"} THEN "closed" ELSE @]

JoinRejects ==
  /\ HostAt("join")
  /\ host' = [Rejected(host) EXCEPT !.pc = "joining"]
  /\ Check(host.valid, "join")
  /\ UNCHANGED <<launch, io, child, toChild, reply>>

WaitForExit == child.proc = "exited"

\* The host is destroyed, and AppCompleted runs app_completed_callback_.
JoinEnds ==
  /\ HostAt("joining")
  /\ WaitForExit
  /\ host' = [host EXCEPT !.pc = "gone", !.valid = FALSE,
                          !.completed = IF host.joins = "complete" THEN @ + 1 ELSE @]
  /\ Check(host.end # "bound", "controller")
  /\ UNCHANGED <<launch, io, child, toChild, reply>>

-----------------------------------------------------------------------------
(* The child.                                                              *)

\* ChildProcessMain up to Block.
ChildProcessMain ==
  /\ ChildRuns
  /\ child.main = "init"
  /\ child' = [child EXCEPT !.main = "blocked", !.ctl = "posted"]
  /\ UNCHANGED <<host, launch, io, toChild, reply, failed>>

\* The controller thread joins the parent's node and asks for its port.
InitializeHostMessagePipe ==
  /\ ChildRuns
  /\ child.ctl = "posted"
  /\ child' = [child EXCEPT !.ctl = "requesting"]
  /\ UNCHANGED <<host, launch, io, toChild, reply, failed>>

\* On the I/O thread: posts ChildControllerImpl::Init.
OnHostMessagePipeCreated ==
  /\ ChildRuns
  /\ child.ctl = "answered"
  /\ child' = [child EXCEPT !.ctl = "created"]
  /\ UNCHANGED <<host, launch, io, toChild, reply, failed>>

ChildControllerInit ==
  /\ ChildRuns
  /\ child.ctl = "created"
  /\ child' = [child EXCEPT !.ctl = "bound"]
  /\ UNCHANGED <<host, launch, io, toChild, reply, failed>>

Unblock ==
  /\ child' = [child EXCEPT !.run_after = TRUE]
  /\ Check(~child.run_after, "unblock")

\* StartApp gives the blocked main thread its closure.
StartApp ==
  /\ ChildRuns
  /\ child.ctl = "bound"
  /\ toChild # <<>>
  /\ Head(toChild) = "StartApp"
  /\ toChild' = Tail(toChild)
  /\ Unblock
  /\ UNCHANGED <<host, launch, io, reply>>

Exited == [child EXCEPT !.proc = "exited"]

ExitNowInChild ==
  /\ ChildRuns
  /\ child.ctl = "bound"
  /\ toChild # <<>>
  /\ Head(toChild) = "ExitNow"
  /\ child' = Exited
  /\ UNCHANGED <<host, launch, io, toChild, reply, failed>>

\* The pipe is closed and everything in it was read.
OnConnectionError ==
  /\ ChildRuns
  /\ child.ctl = "bound"
  /\ toChild = <<>>
  /\ host.end = "closed"
  /\ child' = Exited
  /\ UNCHANGED <<host, launch, io, toChild, reply, failed>>

\* Block returns and runs the closure.
Block ==
  /\ ChildRuns
  /\ child.main = "blocked"
  /\ child.run_after
  /\ child' = [child EXCEPT !.main = "app"]
  /\ UNCHANGED <<host, launch, io, toChild, reply, failed>>

\* The application returns from RunNativeApplication, if it ever does, and
\* AppContext::Shutdown posts and blocks.
Shutdown ==
  /\ ChildRuns
  /\ child.main = "app"
  /\ child' = [child EXCEPT !.main = "shutdown"]
  /\ UNCHANGED <<host, launch, io, toChild, reply, failed>>

\* Forgets the reply.
Replies_none == reply

\* ~ChildControllerImpl runs the callback of StartApp.
Replies == TRUE

ShutdownOnControllerThread ==
  /\ ChildRuns
  /\ child.main = "shutdown"
  /\ child.ctl = "bound"
  /\ child' = [child EXCEPT !.ctl = "reset"]
  /\ reply' = Replies
  /\ Check(child.run_after, "on_app_complete")
  /\ UNCHANGED <<host, launch, io, toChild>>

OnShutdownComplete ==
  /\ ChildRuns
  /\ child.main = "shutdown"
  /\ child.ctl = "reset"
  /\ child' = [child EXCEPT !.main = "return"]
  /\ UNCHANGED <<host, launch, io, toChild, reply, failed>>

ChildReturns ==
  /\ ChildRuns
  /\ child.main = "return"
  /\ child' = Exited
  /\ UNCHANGED <<host, launch, io, toChild, reply, failed>>

ChildCrashes ==
  /\ MayCrash
  /\ ChildRuns
  /\ child' = Exited
  /\ UNCHANGED <<host, launch, io, toChild, reply, failed>>

-----------------------------------------------------------------------------
Next ==
  \/ Start \/ InitHost
  \/ DoLaunch \/ DidLaunch
  \/ ConnectToPort \/ SetPipe \/ PostTask
  \/ OnMessagePipeCreated \/ DidStart \/ OnReply
  \/ Quit \/ ExitNow \/ Destroy
  \/ JoinWaits \/ JoinRejects \/ JoinEnds
  \/ ChildProcessMain \/ InitializeHostMessagePipe
  \/ OnHostMessagePipeCreated \/ ChildControllerInit
  \/ StartApp \/ ExitNowInChild \/ OnConnectionError
  \/ Block \/ Shutdown \/ ShutdownOnControllerThread \/ OnShutdownComplete
  \/ ChildReturns \/ ChildCrashes

Spec == Init /\ [][Next]_vars

\* Threads go on with what they have to do; the launcher need not shut down, an
\* application need not return, and a child need not crash.
FairSpec ==
  /\ Spec
  /\ WF_vars(DoLaunch) /\ WF_vars(DidLaunch)
  /\ WF_vars(ConnectToPort) /\ WF_vars(SetPipe) /\ WF_vars(PostTask)
  /\ WF_vars(OnMessagePipeCreated) /\ WF_vars(DidStart) /\ WF_vars(OnReply)
  /\ WF_vars(Destroy)
  /\ WF_vars(JoinWaits) /\ WF_vars(JoinRejects) /\ WF_vars(JoinEnds)
  /\ WF_vars(ChildProcessMain) /\ WF_vars(InitializeHostMessagePipe)
  /\ WF_vars(OnHostMessagePipeCreated) /\ WF_vars(ChildControllerInit)
  /\ WF_vars(StartApp)
  /\ WF_vars(ExitNowInChild) /\ WF_vars(OnConnectionError)
  /\ WF_vars(Block) /\ WF_vars(ShutdownOnControllerThread)
  /\ WF_vars(OnShutdownComplete) /\ WF_vars(ChildReturns)

-----------------------------------------------------------------------------
(* Properties.                                                             *)

\* Types; a task is posted once.
TypeOK ==
  /\ host \in Host
  /\ Len(host.tasks) = Cardinality(ToSet(host.tasks))
  /\ launch \in {"none", "posted", "launched", "done"}
  /\ io \in {"none", "reserved", "connected", "set", "posted"}
  /\ child \in Child
  /\ toChild \in Seq({"StartApp", "ExitNow"})
  /\ reply \in BOOLEAN
  /\ failed \subseteq {"launch", "ready", "join", "passPipe", "controller",
                       "unblock", "on_app_complete"}

\* A check ended the host: the launch was over only when the host was gone, the
\* pipe was there before the reply of DoLaunch so that the callback that is "invoked
\* exactly once" (child_process_host.h:150) ran twice, or Join found no process (child_process_host.cc:142), since the
\* launch was not over or because it had failed.
HostFailed == failed \cap {"launch", "ready", "join"} # {}

\* Join returns, wherever the child was when it began: blocked before there was a
\* pipe, waiting for StartApp, in the application or shutting down ("Deadlock!
\* |pipe_holder_| exists for this reason"), unless a check ends the host.
JoinReturns ==
  host.mode = "start" /\ host.pc \in {"waitEvent", "join", "joining"} ~>
    host.pc = "gone" \/ HostFailed

\* A child whose application ended is reported, unless the launcher shuts down
\* first or a check ends the host.
CompletionTold ==
  host.mode = "start" /\ child.ctl = "reset" ~>
    host.completed = 1 \/ host.pc = "quit" \/ host.joins = "destroy" \/ HostFailed
=============================================================================
