----------------------------- MODULE JobRunner -----------------------------
(***************************************************************************)
(* The web GUI's job runner (src/src/gui/GuiServer.cpp) with the threads   *)
(* that share it: the request threads the HTTP server detaches, the worker *)
(* thread of the one backup or restore, the main thread that serves, joins *)
(* and exits, the SIGINT/SIGTERM handler, and the process-global cancel    *)
(* flag of src/src/util/Process.cpp with the children it stops.            *)
(*                                                                         *)
(* Every critical section of JobRunner::mutex_ that cannot block is one    *)
(* action.  start() is the exception: it joins the previous worker while   *)
(* it holds the lock, so it is two actions with `mutex` held in between.   *)
(***************************************************************************)
EXTENDS Naturals, FiniteSets

CONSTANTS
  Requests,       \* request threads
  MaxJobs,        \* bound: jobs started in a behaviour
  MaxInterrupts   \* bound: SIGINT/SIGTERM deliveries in a behaviour

ASSUME BoundsAssumption ==
  /\ IsFiniteSet(Requests)
  /\ MaxJobs \in Nat
  /\ MaxInterrupts \in Nat

Jobs == 1..MaxJobs
NoJob == 0

CONSTANT Free     \* the mutex's owner when nobody holds it
ASSUME FreeAssumption == Free \notin Requests

VARIABLES
  mutex,       \* JobRunner::mutex_, when held across steps
  thread,      \* the job whose thread thread_ refers to, NoJob if not joinable
  running, present, cancelling,         \* running_, present_, cancelling_
  id, state,                            \* id_, state_
  result,      \* result_: the work's own verdict
  flag,        \* Process.cpp g_cancelRequested
  sink,        \* the job whose worker installed the Logger sinks, or NoJob
  wpc,         \* where each job's worker thread is
  wresult,     \* the worker's local `result`
  wstate,      \* the worker's local `state`
  wcall,       \* the worker's child process
  rpc,         \* what each request thread is doing
  rcall,       \* the request thread's child process
  main,        \* where the main thread is
  joined,      \* the local thread handle of the one join() that waits
  stopping,    \* HttpServer::stopping_
  stopper,     \* the detached thread of /api/shutdown is asleep
  handler,     \* the signal handler is between its two statements
  interrupts   \* signals delivered so far

lockVars == <<mutex, thread>>
jobVars == <<running, present, cancelling, id, state, result>>
workerVars == <<wpc, wresult, wstate, wcall>>
requestVars == <<rpc, rcall>>
mainVars == <<main, joined>>
stopVars == <<stopping, stopper, handler, interrupts>>
vars == <<lockVars, jobVars, flag, sink, workerVars, requestVars, mainVars, stopVars>>

Verdicts == {"none", "success", "failure", "exception"}
ChildStates == {"none", "running", "termed", "killed"}
RequestStates == {"idle", "list", "probe", "start", "joining", "cancel", "dismiss", "shutdown"}
WorkerStates == {"unborn", "install", "work", "unsink", "check", "clear", "finish", "exit", "done"}
Live == {"install", "work", "unsink", "check", "clear", "finish"}

TypeOK ==
  /\ mutex \in Requests \cup {Free}
  /\ thread \in Jobs \cup {NoJob}
  /\ running \in BOOLEAN
  /\ present \in BOOLEAN
  /\ cancelling \in BOOLEAN
  /\ id \in Jobs \cup {NoJob}
  /\ state \in {"idle", "running", "succeeded", "failed", "cancelled"}
  /\ result \in Verdicts
  /\ flag \in BOOLEAN
  /\ sink \in Jobs \cup {NoJob}
  /\ wpc \in [Jobs -> WorkerStates]
  /\ wresult \in [Jobs -> Verdicts]
  /\ wstate \in [Jobs -> {"succeeded", "failed", "cancelled"}]
  /\ wcall \in [Jobs -> ChildStates]
  /\ rpc \in [Requests -> RequestStates]
  /\ rcall \in [Requests -> ChildStates]
  /\ main \in {"serving", "join", "joining", "unguard", "return", "destroying", "released", "exited"}
  /\ joined \in Jobs \cup {NoJob}
  /\ stopping \in BOOLEAN
  /\ stopper \in BOOLEAN
  /\ handler \in BOOLEAN
  /\ interrupts \in 0..MaxInterrupts

Init ==
  /\ mutex = Free
  /\ thread = NoJob
  /\ running = FALSE
  /\ present = FALSE
  /\ cancelling = FALSE
  /\ id = NoJob
  /\ state = "idle"
  /\ result = "none"
  /\ flag = FALSE
  /\ sink = NoJob
  /\ wpc = [j \in Jobs |-> "unborn"]
  /\ wresult = [j \in Jobs |-> "none"]
  /\ wstate = [j \in Jobs |-> "succeeded"]
  /\ wcall = [j \in Jobs |-> "none"]
  /\ rpc = [r \in Requests |-> "idle"]
  /\ rcall = [r \in Requests |-> "none"]
  /\ main = "serving"
  /\ joined = NoJob
  /\ stopping = FALSE
  /\ stopper = FALSE
  /\ handler = FALSE
  /\ interrupts = 0

\* The process is there: when the main thread returns, every other thread ends.
Up == main # "exited"

\* run() is past its own clearCancel(), the last thing it does with the job.
Leaving == main \in {"return", "destroying", "released", "exited"}

\* std::thread::join on a handle: it returns once that thread has ended; a
\* handle that refers to no thread is not joined.
JoinReturnsFrom(handle) == \A j \in Jobs : j = handle => wpc[j] = "done"

-----------------------------------------------------------------------------
(* Process::run and its CancelWatch, for the one child a thread may have.  *)

\* CancelWatch::check: SIGTERM at the first poll that sees the flag, SIGKILL
\* at one past the grace period -- if the flag is still set then.
Signalled(child) == CASE child = "running" -> "termed"
                      [] child = "termed" -> "killed"

\* A killed child is always reaped as a failure; any other may exit 0.
MayExit(child, ok) == child # "none" /\ (ok => child # "killed")

WorkerPolls(j) ==
  /\ Up
  /\ flag
  /\ wcall[j] \in {"running", "termed"}
  /\ wcall' = [wcall EXCEPT ![j] = Signalled(wcall[j])]
  /\ UNCHANGED <<lockVars, jobVars, flag, sink, wpc, wresult, wstate, requestVars, mainVars, stopVars>>

RequestPolls(r) ==
  /\ Up
  /\ flag
  /\ rcall[r] \in {"running", "termed"}
  /\ rcall' = [rcall EXCEPT ![r] = Signalled(rcall[r])]
  /\ UNCHANGED <<lockVars, jobVars, flag, sink, workerVars, rpc, mainVars, stopVars>>

-----------------------------------------------------------------------------
(* The worker thread: the lambda start() gives to std::thread.             *)

Install(j) ==
  /\ Up
  /\ wpc[j] = "install"
  /\ wpc' = [wpc EXCEPT ![j] = "work"]
  /\ sink' = j
  /\ UNCHANGED <<lockVars, jobVars, flag, wresult, wstate, wcall, requestVars, mainVars, stopVars>>

\* work() runs an adb or gzip child, unless a cancel is pending.
WorkCalls(j) ==
  /\ Up
  /\ wpc[j] = "work" /\ wcall[j] = "none"
  /\ ~flag
  /\ wcall' = [wcall EXCEPT ![j] = "running"]
  /\ UNCHANGED <<lockVars, jobVars, flag, sink, wpc, wresult, wstate, requestVars, mainVars, stopVars>>

WorkChildExits(j) ==
  /\ Up
  /\ \E ok \in BOOLEAN : MayExit(wcall[j], ok)
  /\ wcall' = [wcall EXCEPT ![j] = "none"]
  /\ UNCHANGED <<lockVars, jobVars, flag, sink, wpc, wresult, wstate, requestVars, mainVars, stopVars>>

\* work() returns or throws.  runBackup and runRestore look at the flag last of
\* all, so they report success only when no cancel was pending then.
WorkEnds(j, verdict) ==
  /\ Up
  /\ wpc[j] = "work" /\ wcall[j] = "none"
  /\ verdict # "none"
  /\ verdict = "success" => ~flag
  /\ wresult' = [wresult EXCEPT ![j] = IF verdict = "exception" THEN "none" ELSE verdict]
  /\ wstate' = [wstate EXCEPT ![j] = IF verdict = "success" THEN "succeeded" ELSE "failed"]
  /\ wpc' = [wpc EXCEPT ![j] = "unsink"]
  /\ UNCHANGED <<lockVars, jobVars, flag, sink, wcall, requestVars, mainVars, stopVars>>

Unsink(j) ==
  /\ Up
  /\ wpc[j] = "unsink"
  /\ wpc' = [wpc EXCEPT ![j] = "check"]
  /\ sink' = NoJob
  /\ UNCHANGED <<lockVars, jobVars, flag, wresult, wstate, wcall, requestVars, mainVars, stopVars>>

\* Variant (a defect to be caught): the job is published as over too early.
CheckCancelPublishes(j) ==
  /\ Up
  /\ wpc[j] = "check"
  /\ wpc' = [wpc EXCEPT ![j] = "clear"]
  /\ wstate' = [wstate EXCEPT ![j] = IF flag THEN "cancelled" ELSE @]
  /\ running' = FALSE
  /\ UNCHANGED <<lockVars, present, cancelling, id, state, result, flag, sink, wresult, wcall,
                 requestVars, mainVars, stopVars>>

CheckCancel(j) ==
  /\ Up
  /\ wpc[j] = "check"
  /\ wpc' = [wpc EXCEPT ![j] = "clear"]
  /\ wstate' = [wstate EXCEPT ![j] = IF flag THEN "cancelled" ELSE @]
  /\ UNCHANGED <<lockVars, jobVars, flag, sink, wresult, wcall, requestVars, mainVars, stopVars>>

ClearCancel(j) ==
  /\ Up
  /\ wpc[j] = "clear"
  /\ wpc' = [wpc EXCEPT ![j] = "finish"]
  /\ flag' = FALSE
  /\ UNCHANGED <<lockVars, jobVars, sink, wresult, wstate, wcall, requestVars, mainVars, stopVars>>

\* JobRunner::finish, given the state to publish.
Publish(j, outcome) ==
  /\ Up
  /\ wpc[j] = "finish"
  /\ mutex = Free
  /\ state' = outcome
  /\ result' = wresult[j]
  /\ running' = FALSE
  /\ wpc' = [wpc EXCEPT ![j] = "exit"]
  /\ UNCHANGED <<lockVars, present, cancelling, id, flag, sink, wresult, wstate, wcall,
                 requestVars, mainVars, stopVars>>

Finish(j) == Publish(j, wstate[j])

\* Variant: setSink(nullptr) is left to the thread's very end.
ThreadExitsUnsinking(j) ==
  /\ Up
  /\ wpc[j] = "exit"
  /\ wpc' = [wpc EXCEPT ![j] = "done"]
  /\ wresult' = [wresult EXCEPT ![j] = "none"]
  /\ wstate' = [wstate EXCEPT ![j] = "succeeded"]
  /\ sink' = NoJob
  /\ UNCHANGED <<lockVars, jobVars, flag, wcall, requestVars, mainVars, stopVars>>

\* The thread ends and its locals go.
ThreadExits(j) ==
  /\ Up
  /\ wpc[j] = "exit"
  /\ wpc' = [wpc EXCEPT ![j] = "done"]
  /\ wresult' = [wresult EXCEPT ![j] = "none"]
  /\ wstate' = [wstate EXCEPT ![j] = "succeeded"]
  /\ UNCHANGED <<lockVars, jobVars, flag, sink, wcall, requestVars, mainVars, stopVars>>

-----------------------------------------------------------------------------
(* The request threads: GuiApp::route and the handlers it calls.           *)

Goto(r, place) == rpc' = [rpc EXCEPT ![r] = place]

\* Start requests that may still reach start().
Starting == {r \in Requests : rpc[r] \in {"probe", "start", "joining"}}

\* serveForever hands a request to a thread.  "list" stands for every endpoint
\* that only runs adb or gzip (status, devices, device, packages, files); a
\* start request that its body or paths rule out never gets here.
Accept(r, kind) ==
  /\ main = "serving" /\ ~stopping
  /\ rpc[r] = "idle"
  /\ kind = "probe" => id + Cardinality(Starting) < MaxJobs
  /\ Goto(r, kind)
  /\ UNCHANGED <<lockVars, jobVars, flag, sink, workerVars, rcall, mainVars, stopVars>>

\* A Process::run of the request thread: refused while a cancel is pending.
CallRefused(r) ==
  /\ Up
  /\ rpc[r] \in {"list", "probe"} /\ rcall[r] = "none"
  /\ flag
  /\ Goto(r, "idle")
  /\ UNCHANGED <<lockVars, jobVars, flag, sink, workerVars, rcall, mainVars, stopVars>>

CallBegins(r) ==
  /\ Up
  /\ rpc[r] \in {"list", "probe"} /\ rcall[r] = "none"
  /\ ~flag
  /\ rcall' = [rcall EXCEPT ![r] = "running"]
  /\ UNCHANGED <<lockVars, jobVars, flag, sink, workerVars, rpc, mainVars, stopVars>>

\* isAdbAvailable() decides whether a start request goes on to start().
CallEnds(r, ok) ==
  /\ Up
  /\ MayExit(rcall[r], ok)
  /\ rcall' = [rcall EXCEPT ![r] = "none"]
  /\ Goto(r, IF rpc[r] = "probe" /\ ok THEN "start" ELSE "idle")
  /\ UNCHANGED <<lockVars, jobVars, flag, sink, workerVars, mainVars, stopVars>>

\* Variant: the check of running_ is missing.
StartLocksAnyway(r) ==
  /\ Up
  /\ rpc[r] = "start" /\ mutex = Free
  /\ Goto(r, "joining")
  /\ mutex' = r
  /\ UNCHANGED <<thread, jobVars, flag, sink, workerVars, rcall, mainVars, stopVars>>

\* Variant: clearCancel() comes before the check of running_.
StartLocksClearing(r) ==
  /\ Up
  /\ rpc[r] = "start" /\ mutex = Free
  /\ flag' = FALSE
  /\ IF running
       THEN Goto(r, "idle") /\ UNCHANGED mutex
       ELSE Goto(r, "joining") /\ mutex' = r
  /\ UNCHANGED <<thread, jobVars, sink, workerVars, rcall, mainVars, stopVars>>

\* start(): under the lock, refuse while a job runs, else join the old worker.
StartLocks(r) ==
  /\ Up
  /\ rpc[r] = "start" /\ mutex = Free
  /\ IF running
       THEN Goto(r, "idle") /\ UNCHANGED mutex
       ELSE Goto(r, "joining") /\ mutex' = r
  /\ UNCHANGED <<thread, jobVars, flag, sink, workerVars, rcall, mainVars, stopVars>>

\* What start() does once the old worker is joined: reset the job, spawn, unlock.
BeginJob(r) ==
  /\ Up
  /\ rpc[r] = "joining"
  /\ id' = id + 1
  /\ state' = "running"
  /\ result' = "none"
  /\ running' = TRUE
  /\ present' = TRUE
  /\ cancelling' = FALSE
  /\ thread' = id + 1
  /\ wpc' = [wpc EXCEPT ![id + 1] = "install"]
  /\ mutex' = Free
  /\ Goto(r, "idle")
  /\ UNCHANGED <<sink, wresult, wstate, wcall, rcall, mainVars, stopVars>>

\* Variant: the old thread is not joined.
StartBeginsUnjoined(r) == BeginJob(r) /\ flag' = FALSE

\* Variant: the cancel flag is not cleared for the new job.
StartBeginsStale(r) == BeginJob(r) /\ JoinReturnsFrom(thread) /\ UNCHANGED flag

StartBegins(r) == BeginJob(r) /\ JoinReturnsFrom(thread) /\ flag' = FALSE

CancelJob(r) ==
  /\ Up
  /\ rpc[r] = "cancel" /\ mutex = Free
  /\ IF running
       THEN cancelling' = TRUE /\ flag' = TRUE
       ELSE UNCHANGED <<cancelling, flag>>
  /\ Goto(r, "idle")
  /\ UNCHANGED <<lockVars, running, present, id, state, result, sink, workerVars, rcall,
                 mainVars, stopVars>>

DismissJob(r) ==
  /\ Up
  /\ rpc[r] = "dismiss" /\ mutex = Free
  /\ IF running
       THEN UNCHANGED <<present, result>>
       ELSE present' = FALSE /\ result' = "none"
  /\ Goto(r, "idle")
  /\ UNCHANGED <<lockVars, running, cancelling, id, state, flag, sink, workerVars, rcall,
                 mainVars, stopVars>>

\* /api/shutdown: refused while busy(), else a detached thread stops the server
\* 150 ms later, whatever has been started by then.
ShutDown(r) ==
  /\ Up
  /\ rpc[r] = "shutdown" /\ mutex = Free
  /\ stopper' = (stopper \/ ~running)
  /\ Goto(r, "idle")
  /\ UNCHANGED <<lockVars, jobVars, flag, sink, workerVars, rcall, mainVars,
                 stopping, handler, interrupts>>

StopperFires ==
  /\ Up
  /\ stopper
  /\ stopper' = FALSE
  /\ stopping' = TRUE
  /\ UNCHANGED <<lockVars, jobVars, flag, sink, workerVars, requestVars, mainVars,
                 handler, interrupts>>

-----------------------------------------------------------------------------
(* The signal handler and the main thread: onGuiInterrupt, GuiServer::run. *)

Interrupt ==
  /\ main \in {"serving", "join", "joining", "unguard"}
  /\ interrupts < MaxInterrupts
  /\ ~handler
  /\ interrupts' = interrupts + 1
  /\ flag' = TRUE
  /\ handler' = TRUE
  /\ UNCHANGED <<lockVars, jobVars, sink, workerVars, requestVars, mainVars, stopping, stopper>>

HandlerStops ==
  /\ Up
  /\ handler
  /\ handler' = FALSE
  /\ stopping' = TRUE
  /\ UNCHANGED <<lockVars, jobVars, flag, sink, workerVars, requestVars, mainVars,
                 stopper, interrupts>>

ServeReturns ==
  /\ main = "serving"
  /\ stopping
  /\ main' = "join"
  /\ UNCHANGED <<lockVars, jobVars, flag, sink, workerVars, requestVars, joined, stopVars>>

\* join() moves the handle out under the lock and waits without it.
JoinTakes ==
  /\ main = "join"
  /\ mutex = Free
  /\ main' = "joining"
  /\ joined' = thread
  /\ thread' = NoJob
  /\ UNCHANGED <<mutex, jobVars, flag, sink, workerVars, requestVars, stopVars>>

JoinReturns ==
  /\ main = "joining"
  /\ JoinReturnsFrom(joined)
  /\ main' = "unguard"
  /\ joined' = NoJob
  /\ UNCHANGED <<lockVars, jobVars, flag, sink, workerVars, requestVars, stopVars>>

MainClears ==
  /\ main = "unguard"
  /\ main' = "return"
  /\ flag' = FALSE
  /\ UNCHANGED <<lockVars, jobVars, sink, workerVars, requestVars, joined, stopVars>>

\* run() returns and drops its reference to the app.  A request still at work
\* keeps the app alive; without one ~JobRunner joins here, as join() does.
Busy == {r \in Requests : rpc[r] # "idle"}

MainReleases ==
  /\ main = "return"
  /\ Busy # {}
  /\ main' = "released"
  /\ UNCHANGED <<lockVars, jobVars, flag, sink, workerVars, requestVars, joined, stopVars>>

MainDestroys ==
  /\ main = "return"
  /\ Busy = {}
  /\ main' = "destroying"
  /\ joined' = thread
  /\ thread' = NoJob
  /\ UNCHANGED <<mutex, jobVars, flag, sink, workerVars, requestVars, stopVars>>

\* Released by main, the app goes with the last request: ~JobRunner joins on
\* that thread, while the main thread ends the process.
LastRequestDestroys ==
  /\ main = "released"
  /\ Busy = {}
  /\ thread # NoJob
  /\ joined' = thread
  /\ thread' = NoJob
  /\ UNCHANGED <<mutex, jobVars, flag, sink, workerVars, requestVars, main, stopVars>>

MainReturns ==
  /\ \/ main = "released"
     \/ main = "destroying" /\ JoinReturnsFrom(joined)
  /\ main' = "exited"
  /\ UNCHANGED <<lockVars, jobVars, flag, sink, workerVars, requestVars, joined, stopVars>>

\* Once the InterruptGuard has put the default actions back, a signal ends the
\* process where it stands.
SignalKills ==
  /\ main \in {"unguard", "return", "destroying", "released"}
  /\ main' = "exited"
  /\ UNCHANGED <<lockVars, jobVars, flag, sink, workerVars, requestVars, joined, stopVars>>

\* The process is gone; nothing happens any more.
Exited == ~Up /\ UNCHANGED vars

-----------------------------------------------------------------------------
\* What the thread of job j does, and what happens to its child.
Worker(j) ==
  \/ Install(j)
  \/ WorkCalls(j)
  \/ WorkerPolls(j)
  \/ \E verdict \in Verdicts : WorkEnds(j, verdict)
  \/ Unsink(j)
  \/ CheckCancel(j)
  \/ ClearCancel(j)
  \/ Finish(j)
  \/ ThreadExits(j)

\* What the thread of request r does once it has a request.
Request(r) ==
  \/ CallRefused(r)
  \/ CallBegins(r)
  \/ RequestPolls(r)
  \/ StartLocks(r)
  \/ StartBegins(r)
  \/ CancelJob(r)
  \/ DismissJob(r)
  \/ ShutDown(r)

MainThread ==
  \/ ServeReturns
  \/ JoinTakes
  \/ JoinReturns
  \/ MainClears
  \/ MainReleases
  \/ MainDestroys
  \/ MainReturns

Next ==
  \/ \E j \in Jobs : Worker(j) \/ WorkChildExits(j)
  \/ \E r \in Requests :
       \/ Request(r)
       \/ \E ok \in BOOLEAN : CallEnds(r, ok)
       \/ \E kind \in {"list", "probe", "cancel", "dismiss", "shutdown"} : Accept(r, kind)
  \/ StopperFires
  \/ Interrupt
  \/ HandlerStops
  \/ MainThread
  \/ LastRequestDestroys
  \/ SignalKills
  \/ Exited

\* Threads that can run do run, and a killed child is reaped.  Nothing makes a
\* child that was not killed exit, a client ask, or a signal arrive.
Fairness ==
  /\ \A j \in Jobs :
       /\ WF_vars(Worker(j))
       /\ WF_vars(wcall[j] = "killed" /\ WorkChildExits(j))
  /\ \A r \in Requests :
       /\ WF_vars(Request(r))
       /\ WF_vars(rcall[r] = "killed" /\ \E ok \in BOOLEAN : CallEnds(r, ok))
  /\ WF_vars(StopperFires)
  /\ WF_vars(HandlerStops)
  /\ WF_vars(MainThread)

Spec == Init /\ [][Next]_vars

FairSpec == Spec /\ Fairness

-----------------------------------------------------------------------------
\* running_ is true exactly while one worker is between start() and finish(),
\* and no second worker is there then: the runner's "one job at a time".
OneLiveWorker ==
  /\ \A j, k \in Jobs : wpc[j] \in Live /\ wpc[k] \in Live => j = k
  /\ running <=> \E j \in Jobs : wpc[j] \in Live

\* start() joins under mutex_ (GuiServer.cpp:257).  That never deadlocks: the
\* worker it waits for is past finish(), its last use of the lock.
JoinUnderLockIsSafe ==
  \A j \in Jobs : mutex # Free /\ thread = j => wpc[j] \in {"exit", "done"}

\* A worker that has not ended is held by thread_ or by join()'s local handle,
\* never by neither: no std::thread is overwritten or destroyed while joinable.
EveryWorkerIsJoinable ==
  \A j \in Jobs : wpc[j] \notin {"unborn", "done"} => j \in {thread, joined}

\* The log sinks a job installs are its own as long as its work runs: the last
\* job's setSink(nullptr) cannot arrive late and silence it.
SinkIsTheWorkers ==
  \A j \in Jobs : wpc[j] \in {"work", "unsink"} => sink = j

\* A cancel accepted for a job stays visible to it until its worker has looked
\* for it for the last time, or until run() clears the flag on its way out: no
\* start(), probe or other handler wipes it.  That last clearCancel()
\* (GuiServer.cpp:1069) does wipe the cancel of a job started after joinJob();
\* AskedJobEnds says what becomes of such a job.
CancelStaysVisible ==
  \A j \in Jobs :
    ~Leaving /\ cancelling /\ wpc[j] \in {"install", "work", "unsink", "check"} => flag

\* What clients are promised, SingleJob, is what the threads do.
Contract == INSTANCE SingleJob WITH
  number <- id,
  status <- state,
  asked <- cancelling,
  interrupted <- interrupts > 0,
  shown <- present,
  closing <- Leaving,
  up <- Up

KeepsContract == Contract!Spec

\* A start request that got past the adb probe is answered, unless the process
\* ends first: the join under the lock is short.
StartIsAnswered ==
  \A r \in Requests : rpc[r] \in {"start", "joining"} ~> rpc[r] = "idle" \/ ~Up

-----------------------------------------------------------------------------
\* "The cancel only ever targets this job; leaving it set would make every
\* later adb call (device lists included) refuse to run" (GuiServer.cpp:298):
\* with no job running and no signal received, the flag is clear.
NoStuckCancel == ~running /\ interrupts = 0 => ~flag

\* POST /api/job/cancel: "Cancel the running job" (docs/GUI.md:150): a running
\* job whose cancel was accepted ends, or the process does.
AskedJobEnds == running /\ cancelling ~> ~running \/ ~Up

\* "Ctrl-C (or SIGTERM) stops `abp gui` cleanly: a running job is cancelled
\* [...] instead of both being left behind by an abrupt exit" (CHANGELOG.md:176):
\* when the process is gone after a signal, no job was still at work.
NoJobLeftBehind ==
  ~Up /\ interrupts > 0 => \A j \in Jobs : wpc[j] \notin Live
=============================================================================
