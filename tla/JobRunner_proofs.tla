-------------------------- MODULE JobRunner_proofs --------------------------
(***************************************************************************)
(* Theorems about JobRunner for every set of request threads and every     *)
(* bound on jobs and signals: the invariants MCJobRunner checks on a small *)
(* instance, and that every step is a step of SingleJob.                   *)
(***************************************************************************)
EXTENDS JobRunner, FiniteSetTheorems, TLAPS

\* Start requests under way never take more job numbers than there are.
NumbersSuffice == id + Cardinality(Starting) <= MaxJobs

\* Job numbers are handed out in order: later ones have no thread yet, and a
\* worker that is not born has its initial locals.
LaterJobsAreUnborn ==
  \A j \in Jobs :
    /\ j > id => wpc[j] = "unborn"
    /\ wpc[j] = "unborn" => wstate[j] = "succeeded"

\* The only worker between start() and finish() is the current job's.
LiveIsCurrent ==
  /\ \A j \in Jobs : wpc[j] \in Live => j = id /\ running
  /\ running => id \in Jobs /\ wpc[id] \in Live
  /\ running <=> state = "running"

\* The lock is held across steps only by a request in start(), with no job running.
LockIsInStart ==
  /\ \A r \in Requests : rpc[r] = "joining" <=> mutex = r
  /\ mutex # Free => ~running

\* thread_ refers to a thread that was created; join() has a handle of its own
\* only while it waits, and once the last request has taken it nobody is left
\* to start another job.
HandleIsBorn ==
  /\ \A j \in Jobs : thread = j => wpc[j] # "unborn"
  /\ joined # NoJob => main \in {"joining", "destroying", "released", "exited"}
  /\ joined # NoJob /\ main = "released" => thread = NoJob /\ Busy = {}

\* Only a request that is running adb has a child.
ChildrenAreCalls ==
  \A r \in Requests : rcall[r] # "none" => rpc[r] \in {"list", "probe"}

\* The flag, and a worker's decision that it was cancelled, go back to a request
\* or to a signal.
CancelWasAsked ==
  /\ flag => cancelling \/ interrupts > 0
  /\ \A j \in Jobs :
       wpc[j] \in Live /\ wstate[j] = "cancelled" => cancelling \/ interrupts > 0

IInv ==
  /\ TypeOK
  /\ NumbersSuffice
  /\ LaterJobsAreUnborn
  /\ LiveIsCurrent
  /\ LockIsInStart
  /\ HandleIsBorn
  /\ ChildrenAreCalls
  /\ EveryWorkerIsJoinable
  /\ SinkIsTheWorkers
  /\ CancelStaysVisible
  /\ CancelWasAsked

-----------------------------------------------------------------------------
(* Start requests and job numbers.                                         *)

LEMMA StartingIsFinite == IsFiniteSet(Starting) /\ Cardinality(Starting) \in Nat
  <1>1. Starting \subseteq Requests
    BY DEF Starting
  <1>. QED
    BY <1>1, BoundsAssumption, FS_Subset, FS_CardinalityType

\* A step that adds no start request and hands out no number keeps the bound.
LEMMA NumbersStillSuffice ==
  ASSUME TypeOK, NumbersSuffice, id' = id,
         \A r \in Requests : rpc'[r] \in {"probe", "start", "joining"} => r \in Starting
  PROVE  NumbersSuffice'
  <1>1. Starting' \subseteq Starting
    BY DEF Starting
  <1>2. IsFiniteSet(Starting') /\ Cardinality(Starting') <= Cardinality(Starting)
    BY <1>1, StartingIsFinite, FS_Subset
  <1>3. Cardinality(Starting') \in Nat
    BY <1>2, FS_CardinalityType
  <1>. QED
    BY <1>2, <1>3, StartingIsFinite, BoundsAssumption DEF NumbersSuffice, TypeOK, Jobs, NoJob

-----------------------------------------------------------------------------
(* The initial state.                                                      *)

LEMMA InitIInv == Init => IInv
  <1>. SUFFICES ASSUME Init PROVE IInv
    OBVIOUS
  <1>. USE DEF Init
  <1>1. TypeOK
    <2>1. interrupts \in 0..MaxInterrupts
      BY BoundsAssumption
    <2>2. /\ wpc \in [Jobs -> WorkerStates]
          /\ wresult \in [Jobs -> Verdicts]
          /\ wstate \in [Jobs -> {"succeeded", "failed", "cancelled"}]
          /\ wcall \in [Jobs -> ChildStates]
      BY DEF WorkerStates, Verdicts, ChildStates
    <2>3. rpc \in [Requests -> RequestStates] /\ rcall \in [Requests -> ChildStates]
      BY DEF RequestStates, ChildStates
    <2>. QED
      BY <2>1, <2>2, <2>3 DEF TypeOK, Verdicts
  <1>. USE DEF Jobs, NoJob
  <1>2. NumbersSuffice
    <2>1. Starting = {}
      BY DEF Starting
    <2>. QED
      BY <2>1, FS_EmptySet, BoundsAssumption DEF NumbersSuffice
  <1>3. LaterJobsAreUnborn /\ LiveIsCurrent /\ HandleIsBorn
    BY DEF LaterJobsAreUnborn, LiveIsCurrent, HandleIsBorn, Busy, Live
  <1>4. LockIsInStart /\ ChildrenAreCalls
    BY FreeAssumption DEF LockIsInStart, ChildrenAreCalls
  <1>5. EveryWorkerIsJoinable /\ SinkIsTheWorkers /\ CancelStaysVisible /\ CancelWasAsked
    BY DEF EveryWorkerIsJoinable, SinkIsTheWorkers, CancelStaysVisible, CancelWasAsked
  <1>. QED
    BY <1>1, <1>2, <1>3, <1>4, <1>5 DEF IInv

-----------------------------------------------------------------------------
(* The worker's steps.                                                     *)

LEMMA InstallKeeps == ASSUME IInv, NEW j \in Jobs, Install(j) PROVE IInv'
  <1>. USE DEF IInv, Install, lockVars, jobVars, requestVars, mainVars, stopVars, Jobs, NoJob
  <1>1. TypeOK'
    BY DEF TypeOK, WorkerStates, Verdicts
  <1>2. NumbersSuffice'
    BY NumbersStillSuffice DEF Starting
  <1>3. LaterJobsAreUnborn' /\ HandleIsBorn' /\ EveryWorkerIsJoinable'
    BY DEF TypeOK, LaterJobsAreUnborn, HandleIsBorn, Busy, EveryWorkerIsJoinable
  <1>4. LiveIsCurrent'
    BY DEF TypeOK, LiveIsCurrent, Live
  <1>5. LockIsInStart' /\ ChildrenAreCalls'
    BY DEF LockIsInStart, ChildrenAreCalls, LiveIsCurrent
  <1>6. SinkIsTheWorkers'
    BY DEF TypeOK, SinkIsTheWorkers, LiveIsCurrent, Live
  <1>7. CancelStaysVisible' /\ CancelWasAsked'
    BY DEF TypeOK, CancelStaysVisible, CancelWasAsked, LiveIsCurrent, LaterJobsAreUnborn, Leaving, Live
  <1>. QED
    BY <1>1, <1>2, <1>3, <1>4, <1>5, <1>6, <1>7

LEMMA WorkEndsKeeps == ASSUME IInv, NEW j \in Jobs, NEW verdict \in Verdicts, WorkEnds(j, verdict) PROVE IInv'
  <1>. USE DEF IInv, WorkEnds, lockVars, jobVars, requestVars, mainVars, stopVars, Jobs, NoJob
  <1>1. TypeOK'
    BY DEF TypeOK, WorkerStates, Verdicts
  <1>2. NumbersSuffice'
    BY NumbersStillSuffice DEF Starting
  <1>3. LaterJobsAreUnborn' /\ HandleIsBorn' /\ EveryWorkerIsJoinable'
    BY DEF TypeOK, LaterJobsAreUnborn, HandleIsBorn, Busy, EveryWorkerIsJoinable
  <1>4. LiveIsCurrent'
    BY DEF TypeOK, LiveIsCurrent, Live
  <1>5. LockIsInStart' /\ ChildrenAreCalls'
    BY DEF LockIsInStart, ChildrenAreCalls, LiveIsCurrent
  <1>6. SinkIsTheWorkers'
    BY DEF TypeOK, SinkIsTheWorkers, LiveIsCurrent, Live
  <1>7. CancelStaysVisible' /\ CancelWasAsked'
    BY DEF TypeOK, CancelStaysVisible, CancelWasAsked, LiveIsCurrent, LaterJobsAreUnborn, Leaving, Live
  <1>. QED
    BY <1>1, <1>2, <1>3, <1>4, <1>5, <1>6, <1>7

LEMMA UnsinkKeeps == ASSUME IInv, NEW j \in Jobs, Unsink(j) PROVE IInv'
  <1>. USE DEF IInv, Unsink, lockVars, jobVars, requestVars, mainVars, stopVars, Jobs, NoJob
  <1>1. TypeOK'
    BY DEF TypeOK, WorkerStates, Verdicts
  <1>2. NumbersSuffice'
    BY NumbersStillSuffice DEF Starting
  <1>3. LaterJobsAreUnborn' /\ HandleIsBorn' /\ EveryWorkerIsJoinable'
    BY DEF TypeOK, LaterJobsAreUnborn, HandleIsBorn, Busy, EveryWorkerIsJoinable
  <1>4. LiveIsCurrent'
    BY DEF TypeOK, LiveIsCurrent, Live
  <1>5. LockIsInStart' /\ ChildrenAreCalls'
    BY DEF LockIsInStart, ChildrenAreCalls, LiveIsCurrent
  <1>6. SinkIsTheWorkers'
    BY DEF TypeOK, SinkIsTheWorkers, LiveIsCurrent, Live
  <1>7. CancelStaysVisible' /\ CancelWasAsked'
    BY DEF TypeOK, CancelStaysVisible, CancelWasAsked, LiveIsCurrent, LaterJobsAreUnborn, Leaving, Live
  <1>. QED
    BY <1>1, <1>2, <1>3, <1>4, <1>5, <1>6, <1>7

LEMMA CheckCancelKeeps == ASSUME IInv, NEW j \in Jobs, CheckCancel(j) PROVE IInv'
  <1>. USE DEF IInv, CheckCancel, lockVars, jobVars, requestVars, mainVars, stopVars, Jobs, NoJob
  <1>1. TypeOK'
    BY DEF TypeOK, WorkerStates, Verdicts
  <1>2. NumbersSuffice'
    BY NumbersStillSuffice DEF Starting
  <1>3. LaterJobsAreUnborn' /\ HandleIsBorn' /\ EveryWorkerIsJoinable'
    BY DEF TypeOK, LaterJobsAreUnborn, HandleIsBorn, Busy, EveryWorkerIsJoinable
  <1>4. LiveIsCurrent'
    BY DEF TypeOK, LiveIsCurrent, Live
  <1>5. LockIsInStart' /\ ChildrenAreCalls'
    BY DEF LockIsInStart, ChildrenAreCalls, LiveIsCurrent
  <1>6. SinkIsTheWorkers'
    BY DEF TypeOK, SinkIsTheWorkers, LiveIsCurrent, Live
  <1>7. CancelStaysVisible' /\ CancelWasAsked'
    BY DEF TypeOK, CancelStaysVisible, CancelWasAsked, LiveIsCurrent, LaterJobsAreUnborn, Leaving, Live
  <1>. QED
    BY <1>1, <1>2, <1>3, <1>4, <1>5, <1>6, <1>7

LEMMA ClearCancelKeeps == ASSUME IInv, NEW j \in Jobs, ClearCancel(j) PROVE IInv'
  <1>. USE DEF IInv, ClearCancel, lockVars, jobVars, requestVars, mainVars, stopVars, Jobs, NoJob
  <1>1. TypeOK'
    <2>1. flag' \in BOOLEAN
      BY DEF TypeOK
    <2>. QED
      BY <2>1 DEF TypeOK, WorkerStates, Verdicts
  <1>2. NumbersSuffice'
    BY NumbersStillSuffice DEF Starting
  <1>3. LaterJobsAreUnborn' /\ HandleIsBorn' /\ EveryWorkerIsJoinable'
    BY DEF TypeOK, LaterJobsAreUnborn, HandleIsBorn, Busy, EveryWorkerIsJoinable
  <1>4. LiveIsCurrent'
    BY DEF TypeOK, LiveIsCurrent, Live
  <1>5. LockIsInStart' /\ ChildrenAreCalls'
    BY DEF LockIsInStart, ChildrenAreCalls, LiveIsCurrent
  <1>6. SinkIsTheWorkers'
    BY DEF TypeOK, SinkIsTheWorkers, LiveIsCurrent, Live
  <1>7. CancelStaysVisible' /\ CancelWasAsked'
    BY DEF TypeOK, CancelStaysVisible, CancelWasAsked, LiveIsCurrent, LaterJobsAreUnborn, Leaving, Live
  <1>. QED
    BY <1>1, <1>2, <1>3, <1>4, <1>5, <1>6, <1>7

LEMMA FinishKeeps == ASSUME IInv, NEW j \in Jobs, Finish(j) PROVE IInv'
  <1>. USE DEF IInv, Finish, Publish, lockVars, jobVars, requestVars, mainVars, stopVars, Jobs, NoJob
  <1>1. TypeOK'
    <2>1. running' \in BOOLEAN
      BY DEF TypeOK
    <2>. QED
      BY <2>1 DEF TypeOK, WorkerStates, Verdicts
  <1>2. NumbersSuffice'
    BY NumbersStillSuffice DEF Starting
  <1>3. LaterJobsAreUnborn' /\ HandleIsBorn' /\ EveryWorkerIsJoinable'
    BY DEF TypeOK, LaterJobsAreUnborn, HandleIsBorn, Busy, EveryWorkerIsJoinable
  <1>4. LiveIsCurrent'
    BY DEF TypeOK, LiveIsCurrent, Live
  <1>5. LockIsInStart' /\ ChildrenAreCalls'
    BY DEF LockIsInStart, ChildrenAreCalls, LiveIsCurrent
  <1>6. SinkIsTheWorkers'
    BY DEF TypeOK, SinkIsTheWorkers, LiveIsCurrent, Live
  <1>7. CancelStaysVisible' /\ CancelWasAsked'
    BY DEF TypeOK, CancelStaysVisible, CancelWasAsked, LiveIsCurrent, LaterJobsAreUnborn, Leaving, Live
  <1>. QED
    BY <1>1, <1>2, <1>3, <1>4, <1>5, <1>6, <1>7

LEMMA ThreadExitsKeeps == ASSUME IInv, NEW j \in Jobs, ThreadExits(j) PROVE IInv'
  <1>. USE DEF IInv, ThreadExits, lockVars, jobVars, requestVars, mainVars, stopVars, Jobs, NoJob
  <1>1. TypeOK'
    BY DEF TypeOK, WorkerStates, Verdicts
  <1>2. NumbersSuffice'
    BY NumbersStillSuffice DEF Starting
  <1>3. LaterJobsAreUnborn' /\ HandleIsBorn' /\ EveryWorkerIsJoinable'
    BY DEF TypeOK, LaterJobsAreUnborn, HandleIsBorn, Busy, EveryWorkerIsJoinable
  <1>4. LiveIsCurrent'
    BY DEF TypeOK, LiveIsCurrent, Live
  <1>5. LockIsInStart' /\ ChildrenAreCalls'
    BY DEF LockIsInStart, ChildrenAreCalls, LiveIsCurrent
  <1>6. SinkIsTheWorkers'
    BY DEF TypeOK, SinkIsTheWorkers, LiveIsCurrent, Live
  <1>7. CancelStaysVisible' /\ CancelWasAsked'
    BY DEF TypeOK, CancelStaysVisible, CancelWasAsked, LiveIsCurrent, LaterJobsAreUnborn, Leaving, Live
  <1>. QED
    BY <1>1, <1>2, <1>3, <1>4, <1>5, <1>6, <1>7

\* What a thread does with its child disturbs nothing but that child's state.
LEMMA ChildrenKeep ==
  ASSUME IInv, wcall' \in [Jobs -> ChildStates], rcall' \in [Requests -> ChildStates],
         ChildrenAreCalls', UNCHANGED <<lockVars, jobVars, flag, sink, wpc, wresult, wstate, rpc,
                     mainVars, stopVars>>
  PROVE  IInv'
  <1>. USE DEF IInv, lockVars, jobVars, mainVars, stopVars
  <1>1. TypeOK'
    BY DEF TypeOK
  <1>2. NumbersSuffice'
    BY DEF NumbersSuffice, Starting
  <1>3. LaterJobsAreUnborn' /\ HandleIsBorn' /\ EveryWorkerIsJoinable' /\ LiveIsCurrent'
    BY DEF LaterJobsAreUnborn, HandleIsBorn, Busy, EveryWorkerIsJoinable, LiveIsCurrent
  <1>4. LockIsInStart' /\ SinkIsTheWorkers' /\ CancelStaysVisible' /\ CancelWasAsked'
    BY DEF LockIsInStart, SinkIsTheWorkers, CancelStaysVisible, CancelWasAsked, Leaving
  <1>. QED
    BY <1>1, <1>2, <1>3, <1>4

LEMMA WorkerChildKeeps ==
  ASSUME IInv, NEW j \in Jobs, WorkCalls(j) \/ WorkerPolls(j) \/ WorkChildExits(j)
  PROVE  IInv'
  <1>1. wcall' \in [Jobs -> ChildStates] /\ rcall' \in [Requests -> ChildStates]
    BY DEF IInv, TypeOK, WorkCalls, WorkerPolls, WorkChildExits, Signalled, ChildStates, requestVars
  <1>2. ChildrenAreCalls'
    BY DEF IInv, ChildrenAreCalls, WorkCalls, WorkerPolls, WorkChildExits, requestVars
  <1>. QED
    BY <1>1, <1>2, ChildrenKeep DEF WorkCalls, WorkerPolls, WorkChildExits, requestVars

LEMMA RequestChildKeeps ==
  ASSUME IInv, NEW r \in Requests, CallBegins(r) \/ RequestPolls(r)
  PROVE  IInv'
  <1>1. wcall' \in [Jobs -> ChildStates] /\ rcall' \in [Requests -> ChildStates]
    BY DEF IInv, TypeOK, CallBegins, RequestPolls, Signalled, ChildStates, workerVars
  <1>2. ChildrenAreCalls'
    BY DEF IInv, TypeOK, ChildrenAreCalls, CallBegins, RequestPolls
  <1>. QED
    BY <1>1, <1>2, ChildrenKeep DEF CallBegins, RequestPolls, workerVars

-----------------------------------------------------------------------------
(* The request threads' steps.                                             *)

LEMMA AcceptKeeps == ASSUME IInv, NEW r \in Requests, NEW kind \in {"list", "probe", "cancel", "dismiss", "shutdown"}, Accept(r, kind) PROVE IInv'
  <1>. USE DEF IInv, Accept, Goto, lockVars, jobVars, workerVars, mainVars, stopVars
  <1>1. TypeOK'
    <2>1. kind \in RequestStates
      BY DEF RequestStates
    <2>2. rpc' \in [Requests -> RequestStates]
      BY <2>1 DEF TypeOK
    <2>. QED
      BY <2>2 DEF TypeOK
  <1>2. NumbersSuffice'
    <2>1. CASE kind = "probe"
      <3>1. Starting' = Starting \cup {r}
        BY <2>1 DEF TypeOK, Starting
      <3>2. /\ Cardinality(Starting') <= Cardinality(Starting) + 1
            /\ Cardinality(Starting') \in Nat
        <4> DEFINE T == Starting
                   U == Starting'
        <4>1. U = T \cup {r} /\ IsFiniteSet(T)
          BY <3>1, StartingIsFinite
        <4> HIDE DEF T, U
        <4>2. /\ IsFiniteSet(U) /\ Cardinality(T) \in Nat
              /\ Cardinality(U) = Cardinality(T) \/ Cardinality(U) = Cardinality(T) + 1
          BY <4>1, FS_AddElement, FS_CardinalityType
        <4>3. Cardinality(U) \in Nat /\ Cardinality(U) <= Cardinality(T) + 1
          BY <4>2
        <4>. QED
          BY <4>3 DEF T, U
      <3>. QED
        BY <2>1, <3>2, StartingIsFinite, BoundsAssumption DEF TypeOK, NumbersSuffice, Jobs, NoJob
    <2>2. CASE kind # "probe"
      BY <2>2, NumbersStillSuffice DEF TypeOK, Starting
    <2>. QED
      BY <2>1, <2>2
  <1>3. LaterJobsAreUnborn' /\ HandleIsBorn' /\ EveryWorkerIsJoinable' /\ LiveIsCurrent'
    BY DEF LaterJobsAreUnborn, HandleIsBorn, Busy, EveryWorkerIsJoinable, LiveIsCurrent
  <1>4. LockIsInStart' /\ ChildrenAreCalls'
    BY FreeAssumption DEF TypeOK, LockIsInStart, ChildrenAreCalls
  <1>5. SinkIsTheWorkers' /\ CancelStaysVisible' /\ CancelWasAsked'
    BY DEF SinkIsTheWorkers, CancelStaysVisible, CancelWasAsked, Leaving
  <1>. QED
    BY <1>1, <1>2, <1>3, <1>4, <1>5

LEMMA CallRefusedKeeps == ASSUME IInv, NEW r \in Requests, CallRefused(r) PROVE IInv'
  <1>. USE DEF IInv, CallRefused, Goto, lockVars, jobVars, workerVars, mainVars, stopVars
  <1>1. TypeOK'
    BY DEF TypeOK, RequestStates, ChildStates, Verdicts
  <1>2. NumbersSuffice'
    BY NumbersStillSuffice DEF TypeOK, Starting
  <1>3. LaterJobsAreUnborn' /\ HandleIsBorn' /\ EveryWorkerIsJoinable' /\ LiveIsCurrent'
    BY DEF LaterJobsAreUnborn, HandleIsBorn, Busy, EveryWorkerIsJoinable, LiveIsCurrent
  <1>4. LockIsInStart' /\ ChildrenAreCalls'
    BY FreeAssumption DEF TypeOK, LockIsInStart, ChildrenAreCalls
  <1>5. SinkIsTheWorkers' /\ CancelStaysVisible' /\ CancelWasAsked'
    BY DEF SinkIsTheWorkers, CancelStaysVisible, CancelWasAsked, Leaving
  <1>. QED
    BY <1>1, <1>2, <1>3, <1>4, <1>5

LEMMA CallEndsKeeps == ASSUME IInv, NEW r \in Requests, NEW ok \in BOOLEAN, CallEnds(r, ok) PROVE IInv'
  <1>. USE DEF IInv, CallEnds, Goto, lockVars, jobVars, workerVars, mainVars, stopVars
  <1>1. TypeOK'
    BY DEF TypeOK, RequestStates, ChildStates, Verdicts
  <1>2. NumbersSuffice'
    BY NumbersStillSuffice DEF TypeOK, Starting
  <1>3. LaterJobsAreUnborn' /\ HandleIsBorn' /\ EveryWorkerIsJoinable' /\ LiveIsCurrent'
    BY DEF LaterJobsAreUnborn, HandleIsBorn, Busy, EveryWorkerIsJoinable, LiveIsCurrent
  <1>4. LockIsInStart' /\ ChildrenAreCalls'
    BY FreeAssumption DEF TypeOK, LockIsInStart, ChildrenAreCalls, MayExit
  <1>5. SinkIsTheWorkers' /\ CancelStaysVisible' /\ CancelWasAsked'
    BY DEF SinkIsTheWorkers, CancelStaysVisible, CancelWasAsked, Leaving
  <1>. QED
    BY <1>1, <1>2, <1>3, <1>4, <1>5

LEMMA StartLocksKeeps == ASSUME IInv, NEW r \in Requests, StartLocks(r) PROVE IInv'
  <1>. USE DEF IInv, StartLocks, Goto, lockVars, jobVars, workerVars, mainVars, stopVars
  <1>1. TypeOK'
    BY DEF TypeOK, RequestStates, ChildStates, Verdicts
  <1>2. NumbersSuffice'
    BY NumbersStillSuffice DEF TypeOK, Starting
  <1>3. LaterJobsAreUnborn' /\ HandleIsBorn' /\ EveryWorkerIsJoinable' /\ LiveIsCurrent'
    BY DEF LaterJobsAreUnborn, HandleIsBorn, Busy, EveryWorkerIsJoinable, LiveIsCurrent
  <1>4. LockIsInStart' /\ ChildrenAreCalls'
    BY FreeAssumption DEF TypeOK, LockIsInStart, ChildrenAreCalls
  <1>5. SinkIsTheWorkers' /\ CancelStaysVisible' /\ CancelWasAsked'
    BY DEF SinkIsTheWorkers, CancelStaysVisible, CancelWasAsked, Leaving
  <1>. QED
    BY <1>1, <1>2, <1>3, <1>4, <1>5

LEMMA CancelJobKeeps == ASSUME IInv, NEW r \in Requests, CancelJob(r) PROVE IInv'
  <1>. USE DEF IInv, CancelJob, Goto, lockVars, jobVars, workerVars, mainVars, stopVars
  <1>1. TypeOK'
    <2>1. cancelling' \in BOOLEAN /\ flag' \in BOOLEAN
      BY DEF TypeOK
    <2>. QED
      BY <2>1 DEF TypeOK, RequestStates, ChildStates, Verdicts
  <1>2. NumbersSuffice'
    BY NumbersStillSuffice DEF TypeOK, Starting
  <1>3. LaterJobsAreUnborn' /\ HandleIsBorn' /\ EveryWorkerIsJoinable' /\ LiveIsCurrent'
    BY DEF LaterJobsAreUnborn, HandleIsBorn, Busy, EveryWorkerIsJoinable, LiveIsCurrent
  <1>4. LockIsInStart' /\ ChildrenAreCalls'
    BY FreeAssumption DEF TypeOK, LockIsInStart, ChildrenAreCalls
  <1>5. SinkIsTheWorkers' /\ CancelStaysVisible' /\ CancelWasAsked'
    BY DEF TypeOK, SinkIsTheWorkers, CancelStaysVisible, CancelWasAsked, LiveIsCurrent, Live, Up
  <1>. QED
    BY <1>1, <1>2, <1>3, <1>4, <1>5

LEMMA DismissJobKeeps == ASSUME IInv, NEW r \in Requests, DismissJob(r) PROVE IInv'
  <1>. USE DEF IInv, DismissJob, Goto, lockVars, jobVars, workerVars, mainVars, stopVars
  <1>1. TypeOK'
    <2>1. present' \in BOOLEAN
      BY DEF TypeOK
    <2>. QED
      BY <2>1 DEF TypeOK, RequestStates, ChildStates, Verdicts
  <1>2. NumbersSuffice'
    BY NumbersStillSuffice DEF TypeOK, Starting
  <1>3. LaterJobsAreUnborn' /\ HandleIsBorn' /\ EveryWorkerIsJoinable' /\ LiveIsCurrent'
    BY DEF LaterJobsAreUnborn, HandleIsBorn, Busy, EveryWorkerIsJoinable, LiveIsCurrent
  <1>4. LockIsInStart' /\ ChildrenAreCalls'
    BY FreeAssumption DEF TypeOK, LockIsInStart, ChildrenAreCalls
  <1>5. SinkIsTheWorkers' /\ CancelStaysVisible' /\ CancelWasAsked'
    BY DEF SinkIsTheWorkers, CancelStaysVisible, CancelWasAsked, Leaving
  <1>. QED
    BY <1>1, <1>2, <1>3, <1>4, <1>5

LEMMA ShutDownKeeps == ASSUME IInv, NEW r \in Requests, ShutDown(r) PROVE IInv'
  <1>. USE DEF IInv, ShutDown, Goto, lockVars, jobVars, workerVars, mainVars, stopVars
  <1>1. TypeOK'
    BY DEF TypeOK, RequestStates, ChildStates, Verdicts
  <1>2. NumbersSuffice'
    BY NumbersStillSuffice DEF TypeOK, Starting
  <1>3. LaterJobsAreUnborn' /\ HandleIsBorn' /\ EveryWorkerIsJoinable' /\ LiveIsCurrent'
    BY DEF LaterJobsAreUnborn, HandleIsBorn, Busy, EveryWorkerIsJoinable, LiveIsCurrent
  <1>4. LockIsInStart' /\ ChildrenAreCalls'
    BY FreeAssumption DEF TypeOK, LockIsInStart, ChildrenAreCalls
  <1>5. SinkIsTheWorkers' /\ CancelStaysVisible' /\ CancelWasAsked'
    BY DEF SinkIsTheWorkers, CancelStaysVisible, CancelWasAsked, Leaving
  <1>. QED
    BY <1>1, <1>2, <1>3, <1>4, <1>5

\* start() reaches its reset with no job running and the old thread ended.
LEMMA StartBeginsKeeps == ASSUME IInv, NEW r \in Requests, StartBegins(r) PROVE IInv'
  <1>. USE DEF IInv, StartBegins, BeginJob, Goto, mainVars, stopVars
  <1>1. r \in Starting /\ Cardinality(Starting) >= 1
    <2>1. r \in Starting
      BY DEF Starting
    <2>. QED
      BY <2>1, StartingIsFinite, FS_EmptySet
  <1>2. id + 1 \in Jobs /\ wpc[id + 1] = "unborn"
    BY <1>1, StartingIsFinite, BoundsAssumption
       DEF TypeOK, NumbersSuffice, LaterJobsAreUnborn, Jobs, NoJob
  <1>3. mutex = r /\ ~running /\ \A j \in Jobs : wpc[j] \notin Live
    BY FreeAssumption DEF TypeOK, LockIsInStart, LiveIsCurrent
  <1>4. TypeOK'
    BY <1>2 DEF TypeOK, WorkerStates, RequestStates, Verdicts
  <1>5. NumbersSuffice'
    <2>1. Starting' = Starting \ {r}
      BY DEF TypeOK, Starting
    <2>2. Cardinality(Starting') = Cardinality(Starting) - 1
      BY <1>1, <2>1, StartingIsFinite, FS_RemoveElement
    <2>. QED
      BY <2>2, StartingIsFinite, BoundsAssumption DEF TypeOK, NumbersSuffice, Jobs, NoJob
  <1>6. LaterJobsAreUnborn' /\ HandleIsBorn'
    BY <1>2 DEF TypeOK, LaterJobsAreUnborn, HandleIsBorn, Busy, Jobs, NoJob
  <1>7. LiveIsCurrent'
    BY <1>2, <1>3 DEF TypeOK, LiveIsCurrent, Live
  <1>8. LockIsInStart' /\ ChildrenAreCalls'
    BY <1>3, FreeAssumption DEF TypeOK, LockIsInStart, ChildrenAreCalls
  <1>9. EveryWorkerIsJoinable'
    <2>1. \A j \in Jobs : thread = j => wpc[j] = "done"
      BY DEF JoinReturnsFrom
    <2>. QED
      BY <1>2, <2>1 DEF TypeOK, EveryWorkerIsJoinable
  <1>10. SinkIsTheWorkers' /\ CancelStaysVisible'
    BY <1>2, <1>3 DEF TypeOK, SinkIsTheWorkers, CancelStaysVisible, Live
  <1>11. CancelWasAsked'
    BY <1>2, <1>3 DEF TypeOK, CancelWasAsked, LaterJobsAreUnborn
  <1>. QED
    BY <1>4, <1>5, <1>6, <1>7, <1>8, <1>9, <1>10, <1>11

-----------------------------------------------------------------------------
(* The signal handler, the shutdown thread and the main thread.            *)

LEMMA StopperFiresKeeps == ASSUME IInv, StopperFires PROVE IInv'
  <1>. USE DEF IInv, StopperFires, lockVars, jobVars, workerVars, requestVars, mainVars, stopVars
  <1>1. TypeOK'
    <2>1. stopper' \in BOOLEAN /\ stopping' \in BOOLEAN
      BY DEF TypeOK
    <2>. QED
      BY <2>1 DEF TypeOK
  <1>2. NumbersSuffice'
    BY DEF NumbersSuffice, Starting
  <1>3. LaterJobsAreUnborn' /\ HandleIsBorn' /\ EveryWorkerIsJoinable' /\ LiveIsCurrent'
    BY DEF LaterJobsAreUnborn, HandleIsBorn, Busy, EveryWorkerIsJoinable, LiveIsCurrent
  <1>4. LockIsInStart' /\ ChildrenAreCalls'
    BY DEF LockIsInStart, ChildrenAreCalls
  <1>5. SinkIsTheWorkers' /\ CancelStaysVisible' /\ CancelWasAsked'
    BY DEF SinkIsTheWorkers, CancelStaysVisible, CancelWasAsked, Leaving
  <1>. QED
    BY <1>1, <1>2, <1>3, <1>4, <1>5

LEMMA HandlerStopsKeeps == ASSUME IInv, HandlerStops PROVE IInv'
  <1>. USE DEF IInv, HandlerStops, lockVars, jobVars, workerVars, requestVars, mainVars, stopVars
  <1>1. TypeOK'
    <2>1. handler' \in BOOLEAN /\ stopping' \in BOOLEAN
      BY DEF TypeOK
    <2>. QED
      BY <2>1 DEF TypeOK
  <1>2. NumbersSuffice'
    BY DEF NumbersSuffice, Starting
  <1>3. LaterJobsAreUnborn' /\ HandleIsBorn' /\ EveryWorkerIsJoinable' /\ LiveIsCurrent'
    BY DEF LaterJobsAreUnborn, HandleIsBorn, Busy, EveryWorkerIsJoinable, LiveIsCurrent
  <1>4. LockIsInStart' /\ ChildrenAreCalls'
    BY DEF LockIsInStart, ChildrenAreCalls
  <1>5. SinkIsTheWorkers' /\ CancelStaysVisible' /\ CancelWasAsked'
    BY DEF SinkIsTheWorkers, CancelStaysVisible, CancelWasAsked, Leaving
  <1>. QED
    BY <1>1, <1>2, <1>3, <1>4, <1>5

LEMMA InterruptKeeps == ASSUME IInv, Interrupt PROVE IInv'
  <1>. USE DEF IInv, Interrupt, lockVars, jobVars, workerVars, requestVars, mainVars, stopVars
  <1>1. TypeOK'
    BY BoundsAssumption DEF TypeOK
  <1>2. NumbersSuffice'
    BY DEF NumbersSuffice, Starting
  <1>3. LaterJobsAreUnborn' /\ HandleIsBorn' /\ EveryWorkerIsJoinable' /\ LiveIsCurrent'
    BY DEF LaterJobsAreUnborn, HandleIsBorn, Busy, EveryWorkerIsJoinable, LiveIsCurrent
  <1>4. LockIsInStart' /\ ChildrenAreCalls'
    BY DEF LockIsInStart, ChildrenAreCalls
  <1>5. SinkIsTheWorkers' /\ CancelStaysVisible' /\ CancelWasAsked'
    BY DEF TypeOK, SinkIsTheWorkers, CancelStaysVisible, CancelWasAsked, Leaving
  <1>. QED
    BY <1>1, <1>2, <1>3, <1>4, <1>5

LEMMA ServeReturnsKeeps == ASSUME IInv, ServeReturns PROVE IInv'
  <1>. USE DEF IInv, ServeReturns, lockVars, jobVars, workerVars, requestVars, mainVars, stopVars
  <1>1. TypeOK'
    BY DEF TypeOK
  <1>2. NumbersSuffice'
    BY DEF NumbersSuffice, Starting
  <1>3. LaterJobsAreUnborn' /\ HandleIsBorn' /\ EveryWorkerIsJoinable' /\ LiveIsCurrent'
    BY DEF LaterJobsAreUnborn, HandleIsBorn, Busy, EveryWorkerIsJoinable, LiveIsCurrent
  <1>4. LockIsInStart' /\ ChildrenAreCalls'
    BY DEF LockIsInStart, ChildrenAreCalls
  <1>5. SinkIsTheWorkers' /\ CancelStaysVisible' /\ CancelWasAsked'
    BY DEF SinkIsTheWorkers, CancelStaysVisible, CancelWasAsked, Leaving
  <1>. QED
    BY <1>1, <1>2, <1>3, <1>4, <1>5

LEMMA JoinTakesKeeps == ASSUME IInv, JoinTakes PROVE IInv'
  <1>. USE DEF IInv, JoinTakes, lockVars, jobVars, workerVars, requestVars, mainVars, stopVars
  <1>1. TypeOK'
    BY DEF TypeOK
  <1>2. NumbersSuffice'
    BY DEF NumbersSuffice, Starting
  <1>3. LaterJobsAreUnborn' /\ HandleIsBorn' /\ EveryWorkerIsJoinable' /\ LiveIsCurrent'
    BY DEF LaterJobsAreUnborn, HandleIsBorn, Busy, EveryWorkerIsJoinable, LiveIsCurrent, Jobs, NoJob
  <1>4. LockIsInStart' /\ ChildrenAreCalls'
    BY DEF LockIsInStart, ChildrenAreCalls
  <1>5. SinkIsTheWorkers' /\ CancelStaysVisible' /\ CancelWasAsked'
    BY DEF SinkIsTheWorkers, CancelStaysVisible, CancelWasAsked, Leaving
  <1>. QED
    BY <1>1, <1>2, <1>3, <1>4, <1>5

LEMMA JoinReturnsKeeps == ASSUME IInv, JoinReturns PROVE IInv'
  <1>. USE DEF IInv, JoinReturns, lockVars, jobVars, workerVars, requestVars, mainVars, stopVars
  <1>1. TypeOK'
    BY DEF TypeOK
  <1>2. NumbersSuffice'
    BY DEF NumbersSuffice, Starting
  <1>3. LaterJobsAreUnborn' /\ HandleIsBorn' /\ EveryWorkerIsJoinable' /\ LiveIsCurrent'
    BY DEF LaterJobsAreUnborn, HandleIsBorn, Busy, EveryWorkerIsJoinable, LiveIsCurrent, JoinReturnsFrom
  <1>4. LockIsInStart' /\ ChildrenAreCalls'
    BY DEF LockIsInStart, ChildrenAreCalls
  <1>5. SinkIsTheWorkers' /\ CancelStaysVisible' /\ CancelWasAsked'
    BY DEF SinkIsTheWorkers, CancelStaysVisible, CancelWasAsked, Leaving
  <1>. QED
    BY <1>1, <1>2, <1>3, <1>4, <1>5

LEMMA MainClearsKeeps == ASSUME IInv, MainClears PROVE IInv'
  <1>. USE DEF IInv, MainClears, lockVars, jobVars, workerVars, requestVars, mainVars, stopVars
  <1>1. TypeOK'
    <2>1. flag' \in BOOLEAN
      BY DEF TypeOK
    <2>. QED
      BY <2>1 DEF TypeOK
  <1>2. NumbersSuffice'
    BY DEF NumbersSuffice, Starting
  <1>3. LaterJobsAreUnborn' /\ HandleIsBorn' /\ EveryWorkerIsJoinable' /\ LiveIsCurrent'
    BY DEF LaterJobsAreUnborn, HandleIsBorn, Busy, EveryWorkerIsJoinable, LiveIsCurrent
  <1>4. LockIsInStart' /\ ChildrenAreCalls'
    BY DEF LockIsInStart, ChildrenAreCalls
  <1>5. SinkIsTheWorkers' /\ CancelStaysVisible' /\ CancelWasAsked'
    BY DEF TypeOK, SinkIsTheWorkers, CancelStaysVisible, CancelWasAsked, Leaving
  <1>. QED
    BY <1>1, <1>2, <1>3, <1>4, <1>5

LEMMA MainReleasesKeeps == ASSUME IInv, MainReleases PROVE IInv'
  <1>. USE DEF IInv, MainReleases, lockVars, jobVars, workerVars, requestVars, mainVars, stopVars
  <1>1. TypeOK'
    BY DEF TypeOK
  <1>2. NumbersSuffice'
    BY DEF NumbersSuffice, Starting
  <1>3. LaterJobsAreUnborn' /\ HandleIsBorn' /\ EveryWorkerIsJoinable' /\ LiveIsCurrent'
    BY DEF LaterJobsAreUnborn, HandleIsBorn, Busy, EveryWorkerIsJoinable, LiveIsCurrent
  <1>4. LockIsInStart' /\ ChildrenAreCalls'
    BY DEF LockIsInStart, ChildrenAreCalls
  <1>5. SinkIsTheWorkers' /\ CancelStaysVisible' /\ CancelWasAsked'
    BY DEF SinkIsTheWorkers, CancelStaysVisible, CancelWasAsked, Leaving
  <1>. QED
    BY <1>1, <1>2, <1>3, <1>4, <1>5

LEMMA MainDestroysKeeps == ASSUME IInv, MainDestroys PROVE IInv'
  <1>. USE DEF IInv, MainDestroys, lockVars, jobVars, workerVars, requestVars, mainVars, stopVars
  <1>1. TypeOK'
    BY DEF TypeOK
  <1>2. NumbersSuffice'
    BY DEF NumbersSuffice, Starting
  <1>3. LaterJobsAreUnborn' /\ HandleIsBorn' /\ EveryWorkerIsJoinable' /\ LiveIsCurrent'
    BY DEF LaterJobsAreUnborn, HandleIsBorn, Busy, EveryWorkerIsJoinable, LiveIsCurrent, Jobs, NoJob
  <1>4. LockIsInStart' /\ ChildrenAreCalls'
    BY DEF LockIsInStart, ChildrenAreCalls
  <1>5. SinkIsTheWorkers' /\ CancelStaysVisible' /\ CancelWasAsked'
    BY DEF SinkIsTheWorkers, CancelStaysVisible, CancelWasAsked, Leaving
  <1>. QED
    BY <1>1, <1>2, <1>3, <1>4, <1>5

LEMMA LastRequestDestroysKeeps == ASSUME IInv, LastRequestDestroys PROVE IInv'
  <1>. USE DEF IInv, LastRequestDestroys, lockVars, jobVars, workerVars, requestVars, mainVars, stopVars
  <1>1. TypeOK'
    BY DEF TypeOK
  <1>2. NumbersSuffice'
    BY DEF NumbersSuffice, Starting
  <1>3. LaterJobsAreUnborn' /\ HandleIsBorn' /\ EveryWorkerIsJoinable' /\ LiveIsCurrent'
    BY DEF LaterJobsAreUnborn, HandleIsBorn, Busy, EveryWorkerIsJoinable, LiveIsCurrent, Jobs, NoJob
  <1>4. LockIsInStart' /\ ChildrenAreCalls'
    BY DEF LockIsInStart, ChildrenAreCalls
  <1>5. SinkIsTheWorkers' /\ CancelStaysVisible' /\ CancelWasAsked'
    BY DEF SinkIsTheWorkers, CancelStaysVisible, CancelWasAsked, Leaving
  <1>. QED
    BY <1>1, <1>2, <1>3, <1>4, <1>5

LEMMA MainReturnsKeeps == ASSUME IInv, MainReturns PROVE IInv'
  <1>. USE DEF IInv, MainReturns, lockVars, jobVars, workerVars, requestVars, mainVars, stopVars
  <1>1. TypeOK'
    BY DEF TypeOK
  <1>2. NumbersSuffice'
    BY DEF NumbersSuffice, Starting
  <1>3. LaterJobsAreUnborn' /\ HandleIsBorn' /\ EveryWorkerIsJoinable' /\ LiveIsCurrent'
    BY DEF LaterJobsAreUnborn, HandleIsBorn, Busy, EveryWorkerIsJoinable, LiveIsCurrent, JoinReturnsFrom
  <1>4. LockIsInStart' /\ ChildrenAreCalls'
    BY DEF LockIsInStart, ChildrenAreCalls
  <1>5. SinkIsTheWorkers' /\ CancelStaysVisible' /\ CancelWasAsked'
    BY DEF SinkIsTheWorkers, CancelStaysVisible, CancelWasAsked, Leaving
  <1>. QED
    BY <1>1, <1>2, <1>3, <1>4, <1>5

LEMMA SignalKillsKeeps == ASSUME IInv, SignalKills PROVE IInv'
  <1>. USE DEF IInv, SignalKills, lockVars, jobVars, workerVars, requestVars, mainVars, stopVars
  <1>1. TypeOK'
    BY DEF TypeOK
  <1>2. NumbersSuffice'
    BY DEF NumbersSuffice, Starting
  <1>3. LaterJobsAreUnborn' /\ HandleIsBorn' /\ EveryWorkerIsJoinable' /\ LiveIsCurrent'
    BY DEF LaterJobsAreUnborn, HandleIsBorn, Busy, EveryWorkerIsJoinable, LiveIsCurrent
  <1>4. LockIsInStart' /\ ChildrenAreCalls'
    BY DEF LockIsInStart, ChildrenAreCalls
  <1>5. SinkIsTheWorkers' /\ CancelStaysVisible' /\ CancelWasAsked'
    BY DEF SinkIsTheWorkers, CancelStaysVisible, CancelWasAsked, Leaving
  <1>. QED
    BY <1>1, <1>2, <1>3, <1>4, <1>5

-----------------------------------------------------------------------------
(* The invariant.                                                          *)

LEMMA NextKeepsIInv == IInv /\ [Next]_vars => IInv'
  <1>. SUFFICES ASSUME IInv, [Next]_vars PROVE IInv'
    OBVIOUS
  <1>1. ASSUME NEW j \in Jobs, Worker(j) \/ WorkChildExits(j) PROVE IInv'
    BY <1>1, InstallKeeps, WorkerChildKeeps, WorkEndsKeeps, UnsinkKeeps, CheckCancelKeeps,
       ClearCancelKeeps, FinishKeeps, ThreadExitsKeeps DEF Worker
  <1>2. ASSUME NEW r \in Requests, Request(r) PROVE IInv'
    BY <1>2, CallRefusedKeeps, RequestChildKeeps, StartLocksKeeps, StartBeginsKeeps,
       CancelJobKeeps, DismissJobKeeps, ShutDownKeeps DEF Request
  <1>3. ASSUME NEW r \in Requests, NEW ok \in BOOLEAN, CallEnds(r, ok) PROVE IInv'
    BY <1>3, CallEndsKeeps
  <1>4. ASSUME NEW r \in Requests, NEW kind \in {"list", "probe", "cancel", "dismiss", "shutdown"},
               Accept(r, kind)
        PROVE  IInv'
    BY <1>4, AcceptKeeps
  <1>5. CASE \/ StopperFires \/ Interrupt \/ HandlerStops \/ MainThread
             \/ LastRequestDestroys \/ SignalKills
    BY <1>5, StopperFiresKeeps, InterruptKeeps, HandlerStopsKeeps, ServeReturnsKeeps,
       JoinTakesKeeps, JoinReturnsKeeps, MainClearsKeeps, MainReleasesKeeps, MainDestroysKeeps,
       MainReturnsKeeps, LastRequestDestroysKeeps, SignalKillsKeeps DEF MainThread
  <1>6. CASE UNCHANGED vars
    <2>1. wcall' \in [Jobs -> ChildStates] /\ rcall' \in [Requests -> ChildStates]
      BY <1>6 DEF IInv, TypeOK, vars, workerVars, requestVars
    <2>2. ChildrenAreCalls'
      BY <1>6 DEF IInv, ChildrenAreCalls, vars, requestVars
    <2>. QED
      BY <1>6, <2>1, <2>2, ChildrenKeep DEF vars, workerVars, requestVars
  <1>. QED
    BY <1>1, <1>2, <1>3, <1>4, <1>5, <1>6 DEF Next, Exited

\* The strengthened invariant holds in every reachable state.
THEOREM Invariance == Spec => []IInv
  BY InitIInv, NextKeepsIInv, PTL DEF Spec

\* Every variable keeps to the values the code can give it; in particular the
\* start requests never run past the last job number.
THEOREM TypeCorrect == Spec => []TypeOK
  <1>1. IInv => TypeOK
    BY DEF IInv
  <1>. QED
    BY <1>1, Invariance, PTL

\* One job at a time: running_ is true exactly while one worker is between
\* start() and finish(), however the requests interleave.
THEOREM OneJobAtATime == Spec => []OneLiveWorker
  <1>1. IInv => OneLiveWorker
    BY DEF IInv, LiveIsCurrent, OneLiveWorker
  <1>. QED
    BY <1>1, Invariance, PTL

\* start()'s join under mutex_ waits only for a worker that needs the lock no more.
THEOREM JoinNeverDeadlocks == Spec => []JoinUnderLockIsSafe
  <1>1. IInv => JoinUnderLockIsSafe
    BY DEF IInv, TypeOK, WorkerStates, LiveIsCurrent, LockIsInStart, HandleIsBorn, Busy,
           JoinUnderLockIsSafe, Live
  <1>. QED
    BY <1>1, Invariance, PTL

\* No worker thread is ever without an owner that will join it.
THEOREM NoThreadIsLost == Spec => []EveryWorkerIsJoinable
  <1>1. IInv => EveryWorkerIsJoinable
    BY DEF IInv
  <1>. QED
    BY <1>1, Invariance, PTL

\* A job's log sinks are its own while its work runs.
THEOREM SinkIsOwned == Spec => []SinkIsTheWorkers
  <1>1. IInv => SinkIsTheWorkers
    BY DEF IInv
  <1>. QED
    BY <1>1, Invariance, PTL

\* An accepted cancel is not wiped before the worker's last look at the flag,
\* unless by run() itself on its way out.
THEOREM CancelIsNotWiped == Spec => []CancelStaysVisible
  <1>1. IInv => CancelStaysVisible
    BY DEF IInv
  <1>. QED
    BY <1>1, Invariance, PTL

-----------------------------------------------------------------------------
(* Every step of the threads is a step of SingleJob or changes nothing a   *)
(* client can see.                                                         *)

contractVars == <<id, state, cancelling, interrupts > 0, present, Leaving, Up>>

LEMMA StartBeginsIsBegin ==
  ASSUME IInv, NEW r \in Requests, StartBegins(r)
  PROVE  Contract!Begin
  <1>1. ~running
    BY FreeAssumption DEF IInv, TypeOK, LockIsInStart, StartBegins, BeginJob
  <1>2. state # "running"
    BY <1>1 DEF IInv, LiveIsCurrent
  <1>. QED
    BY <1>2 DEF StartBegins, BeginJob, Contract!Begin, Up, Leaving, mainVars, stopVars

LEMMA FinishIsEnd ==
  ASSUME IInv, NEW j \in Jobs, Finish(j)
  PROVE  \E outcome \in Contract!Outcomes : Contract!End(outcome)
  <1>. USE DEF IInv, Finish, Publish
  <1>1. wstate[j] \in Contract!Outcomes
    BY DEF TypeOK, Contract!Outcomes
  <1>2. state = "running"
    BY DEF LiveIsCurrent, Live
  <1>3. wstate[j] = "cancelled" => cancelling \/ interrupts > 0
    BY DEF CancelWasAsked, Live
  <1>4. Contract!End(wstate[j])
    BY <1>2, <1>3 DEF Contract!End, Up, Leaving, mainVars, stopVars
  <1>. QED
    BY <1>1, <1>4

LEMMA CancelJobIsAsk ==
  ASSUME IInv, NEW r \in Requests, CancelJob(r)
  PROVE  Contract!Ask \/ UNCHANGED contractVars
  <1>. USE DEF IInv, CancelJob, Up, Leaving, mainVars, stopVars, contractVars
  <1>1. CASE running
    BY <1>1 DEF LiveIsCurrent, Contract!Ask
  <1>2. CASE ~running
    BY <1>2
  <1>. QED
    BY <1>1, <1>2

LEMMA DismissJobIsForget ==
  ASSUME IInv, NEW r \in Requests, DismissJob(r)
  PROVE  Contract!Forget \/ UNCHANGED contractVars
  <1>. USE DEF IInv, DismissJob, Up, Leaving, mainVars, stopVars, contractVars
  <1>1. CASE running
    BY <1>1
  <1>2. CASE ~running
    BY <1>2 DEF LiveIsCurrent, Contract!Forget
  <1>. QED
    BY <1>1, <1>2

LEMMA InterruptIsInterrupt == ASSUME IInv, Interrupt PROVE Contract!Interrupt
  <1>1. (interrupts > 0)' = TRUE
    BY DEF IInv, TypeOK, Interrupt
  <1>. QED
    BY <1>1 DEF Interrupt, Contract!Interrupt, Up, Leaving, jobVars, mainVars

LEMMA MainClearsIsClose == ASSUME MainClears PROVE Contract!Close
  BY DEF MainClears, Contract!Close, Up, Leaving, jobVars, stopVars

LEMMA EndOfProcessIsExit == ASSUME MainReturns \/ SignalKills PROVE Contract!Exit
  BY DEF MainReturns, SignalKills, Contract!Exit, Up, Leaving, jobVars, stopVars

\* Everything else is invisible to clients.
LEMMA OtherStepsAreInvisible ==
  ASSUME \/ \E j \in Jobs :
              \/ Install(j) \/ WorkCalls(j) \/ WorkerPolls(j) \/ WorkChildExits(j)
              \/ \E verdict \in Verdicts : WorkEnds(j, verdict)
              \/ Unsink(j) \/ CheckCancel(j) \/ ClearCancel(j) \/ ThreadExits(j)
         \/ \E r \in Requests :
              \/ CallRefused(r) \/ CallBegins(r) \/ RequestPolls(r) \/ StartLocks(r) \/ ShutDown(r)
              \/ \E ok \in BOOLEAN : CallEnds(r, ok)
              \/ \E kind \in {"list", "probe", "cancel", "dismiss", "shutdown"} : Accept(r, kind)
         \/ StopperFires \/ HandlerStops \/ ServeReturns \/ JoinTakes \/ JoinReturns
         \/ MainReleases \/ MainDestroys \/ LastRequestDestroys \/ UNCHANGED vars
  PROVE  UNCHANGED contractVars
  <1>. USE DEF contractVars, Up, Leaving, jobVars, mainVars, stopVars
  <1>1. ASSUME NEW j \in Jobs,
               \/ Install(j) \/ WorkCalls(j) \/ WorkerPolls(j) \/ WorkChildExits(j)
               \/ \E verdict \in Verdicts : WorkEnds(j, verdict)
               \/ Unsink(j) \/ CheckCancel(j) \/ ClearCancel(j) \/ ThreadExits(j)
        PROVE  UNCHANGED contractVars
    BY <1>1 DEF Install, WorkCalls, WorkerPolls, WorkChildExits, WorkEnds, Unsink, CheckCancel,
                ClearCancel, ThreadExits
  <1>2. ASSUME NEW r \in Requests,
               \/ CallRefused(r) \/ CallBegins(r) \/ RequestPolls(r) \/ StartLocks(r) \/ ShutDown(r)
               \/ \E ok \in BOOLEAN : CallEnds(r, ok)
               \/ \E kind \in {"list", "probe", "cancel", "dismiss", "shutdown"} : Accept(r, kind)
        PROVE  UNCHANGED contractVars
    BY <1>2 DEF CallRefused, CallBegins, RequestPolls, StartLocks, ShutDown, CallEnds, Accept
  <1>3. CASE StopperFires \/ HandlerStops \/ ServeReturns \/ JoinTakes \/ JoinReturns
    BY <1>3 DEF StopperFires, HandlerStops, ServeReturns, JoinTakes, JoinReturns
  <1>4. CASE MainReleases \/ MainDestroys \/ LastRequestDestroys \/ UNCHANGED vars
    BY <1>4 DEF MainReleases, MainDestroys, LastRequestDestroys, vars
  <1>. QED
    BY <1>1, <1>2, <1>3, <1>4

LEMMA NextIsContractNext == IInv /\ [Next]_vars => [Contract!Next]_contractVars
  <1>. SUFFICES ASSUME IInv, [Next]_vars
                PROVE  Contract!Next \/ UNCHANGED contractVars
    OBVIOUS
  <1>1. ASSUME NEW j \in Jobs, Worker(j) \/ WorkChildExits(j)
        PROVE  Contract!Next \/ UNCHANGED contractVars
    BY <1>1, FinishIsEnd, OtherStepsAreInvisible DEF Worker, Contract!Next
  <1>2. ASSUME NEW r \in Requests,
               \/ Request(r)
               \/ \E ok \in BOOLEAN : CallEnds(r, ok)
               \/ \E kind \in {"list", "probe", "cancel", "dismiss", "shutdown"} : Accept(r, kind)
        PROVE  Contract!Next \/ UNCHANGED contractVars
    BY <1>2, StartBeginsIsBegin, CancelJobIsAsk, DismissJobIsForget, OtherStepsAreInvisible
       DEF Request, Contract!Next
  <1>3. CASE \/ StopperFires \/ Interrupt \/ HandlerStops \/ MainThread
             \/ LastRequestDestroys \/ SignalKills \/ Exited \/ UNCHANGED vars
    BY <1>3, InterruptIsInterrupt, MainClearsIsClose, EndOfProcessIsExit, OtherStepsAreInvisible
       DEF MainThread, Exited, Contract!Next
  <1>. QED
    BY <1>1, <1>2, <1>3 DEF Next

\* The threads implement the safety part of SingleJob: at most one job, ended at
\* most once, cancelled only if someone asked.
THEOREM ImplementsContract == Spec => Contract!Safety
  <1>1. Init => Contract!Init
    BY DEF Init, Contract!Init, Up, Leaving, NoJob
  <1>2. IInv /\ [Next]_vars => [Contract!Next]_(Contract!vars)
    BY NextIsContractNext DEF contractVars, Contract!vars
  <1>. QED
    BY <1>1, <1>2, Invariance, PTL DEF Spec, Contract!Safety

=============================================================================
