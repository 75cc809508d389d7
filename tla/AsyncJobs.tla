------------------------------ MODULE AsyncJobs ------------------------------
(***************************************************************************)
(* AsyncJobRunner and JobContext of async_jobs.py: a bounded pool that runs *)
(* the application's operations off the UI thread, owns the operating       *)
(* system processes those operations start, and hands every outcome back    *)
(* through a dispatcher.                                                    *)
(*                                                                          *)
(* The grain of atomicity is one critical section of the runner's `_lock`,  *)
(* or one call into the executor, the semaphore, a future or the operating  *)
(* system: whatever another thread can be scheduled between is a step.      *)
(***************************************************************************)
EXTENDS Integers, FiniteSets, Sequences

CONSTANTS
  Job,         \* the submissions; each gets a fresh uuid, so a job is its own identity
  Caller,      \* the threads that call cancel or cancel_all
  Closer,      \* the one of them that also runs shutdown()
  NoJob,       \* "no job is being cancelled"
  MaxWorkers,  \* max_workers of the thread pool
  MaxPending   \* max_pending_jobs, the initial value of the semaphore

ASSUME RunnerAssumption ==
  /\ IsFiniteSet(Job) /\ NoJob \notin Job
  /\ Closer \in Caller
  /\ MaxWorkers \in Nat \ {0} /\ MaxPending \in Nat
  /\ MaxPending >= MaxWorkers

VARIABLES
  submitted,     \* how far each call of submit() has come
  capacity,      \* the free slots of the `_capacity` semaphore
  cancelEvents,  \* the keys of `_cancel_events`
  eventSet,      \* the jobs whose cancel event is set (the event outlives its key)
  futures,       \* the keys of `_futures`
  processes,     \* the keys of `_processes`: a job waits for one process at a time
  closing,       \* the `_closing` flag
  shutdownAt,    \* how far shutdown() has come
  cancelCall,    \* the cancel()/cancel_all() each caller is inside
  workQueue,     \* the executor's queue
  future,        \* the state of each job's future
  worker,        \* the jobs that occupy a worker thread
  operation,     \* where the operation of each job is, inside run_process or outside
  alive,         \* the jobs whose process is alive; at most one process per job at a time
  outcome,       \* the JobOutcome the operation ended with
  doneAt,        \* how far the future's `done` callback has come
  shouldDispatch,\* `should_dispatch`, as `done` computed it
  delivered      \* how often the completion was handed to the dispatcher

submitVars  == <<submitted, capacity>>
tableVars   == <<cancelEvents, eventSet, futures, processes>>
closeVars   == <<closing, shutdownAt>>
futureVars  == <<workQueue, future, worker>>
runVars     == <<operation, alive, outcome>>
doneVars    == <<doneAt, shouldDispatch, delivered>>
vars == <<submitVars, tableVars, closeVars, cancelCall, futureVars, runVars, doneVars>>

SubmitState    == {"new", "checked", "acquired", "registered", "queued", "recorded",
                   "returned", "refused", "full", "leaked"}
FutureState    == {"absent", "pending", "running", "cancelled", "finished"}
OperationState == {"idle", "compute", "spawned", "waiting", "raised", "ended"}
Outcome        == {"none", "value", "error", "cancelled"}
DoneState      == {"none", "due", "popped", "released", "over"}
CancelCall     == [at : {"idle", "next", "set", "kill"}, todo : SUBSET Job,
                   job : Job \union {NoJob}, sawFuture : BOOLEAN, sawProcess : BOOLEAN]

NoCall == [at |-> "idle", todo |-> {}, job |-> NoJob,
           sawFuture |-> FALSE, sawProcess |-> FALSE]

Init ==
  /\ submitted = [j \in Job |-> "new"] /\ capacity = MaxPending
  /\ cancelEvents = {} /\ eventSet = {} /\ futures = {} /\ processes = {}
  /\ closing = FALSE /\ shutdownAt = "open"
  /\ cancelCall = [c \in Caller |-> NoCall]
  /\ workQueue = <<>> /\ future = [j \in Job |-> "absent"] /\ worker = {}
  /\ operation = [j \in Job |-> "idle"] /\ alive = {}
  /\ outcome = [j \in Job |-> "none"]
  /\ doneAt = [j \in Job |-> "none"] /\ shouldDispatch = [j \in Job |-> FALSE]
  /\ delivered = [j \in Job |-> 0]

-----------------------------------------------------------------------------
(* submit() *)

\* The first critical section: a closing runner refuses.
SubmitCheck(j) ==
  /\ submitted[j] = "new"
  /\ submitted' = [submitted EXCEPT ![j] = IF closing THEN "refused" ELSE "checked"]
  /\ UNCHANGED <<capacity, tableVars, closeVars, cancelCall, futureVars, runVars, doneVars>>

\* The semaphore is tried without blocking: no slot, WorkerQueueFullError.
SubmitAcquire(j) ==
  /\ submitted[j] = "checked"
  /\ \/ /\ capacity > 0
        /\ capacity' = capacity - 1
        /\ submitted' = [submitted EXCEPT ![j] = "acquired"]
     \/ /\ capacity = 0
        /\ submitted' = [submitted EXCEPT ![j] = "full"]
        /\ UNCHANGED capacity
  /\ UNCHANGED <<tableVars, closeVars, cancelCall, futureVars, runVars, doneVars>>

\* The second critical section, which does not look at `_closing` again.
SubmitRegister(j) ==
  /\ submitted[j] = "acquired"
  /\ submitted' = [submitted EXCEPT ![j] = "registered"]
  /\ cancelEvents' = cancelEvents \union {j}
  /\ UNCHANGED <<capacity, eventSet, futures, processes, closeVars, cancelCall,
                 futureVars, runVars, doneVars>>

\* executor.submit: an executor that was shut down raises RuntimeError out of submit(),
\* and the slot and the cancel event stay taken.
SubmitEnqueue(j) ==
  /\ submitted[j] = "registered"
  /\ \/ /\ shutdownAt # "down"
        /\ workQueue' = Append(workQueue, j)
        /\ future' = [future EXCEPT ![j] = "pending"]
        /\ submitted' = [submitted EXCEPT ![j] = "queued"]
     \/ /\ shutdownAt = "down"
        /\ submitted' = [submitted EXCEPT ![j] = "leaked"]
        /\ UNCHANGED <<workQueue, future>>
  /\ UNCHANGED <<capacity, tableVars, closeVars, cancelCall, worker, runVars, doneVars>>

SubmitRecord(j) ==
  /\ submitted[j] = "queued"
  /\ submitted' = [submitted EXCEPT ![j] = "recorded"]
  /\ futures' = futures \union {j}
  /\ UNCHANGED <<capacity, cancelEvents, eventSet, processes, closeVars, cancelCall,
                 futureVars, runVars, doneVars>>

Settled(j) == future[j] \in {"finished", "cancelled"}

\* Mutant: a callback attached to a future that has already settled is forgotten.
SubmitAttachForgets(j) ==
  /\ submitted[j] = "recorded"
  /\ submitted' = [submitted EXCEPT ![j] = "returned"]
  /\ UNCHANGED <<capacity, tableVars, closeVars, cancelCall, futureVars, runVars, doneVars>>

\* add_done_callback: `done` runs at once, on this thread, when the future has settled.
SubmitAttach(j) ==
  /\ submitted[j] = "recorded"
  /\ submitted' = [submitted EXCEPT ![j] = "returned"]
  /\ doneAt' = [doneAt EXCEPT ![j] = IF Settled(j) THEN "due" ELSE "none"]
  /\ UNCHANGED <<capacity, tableVars, closeVars, cancelCall, futureVars, runVars,
                 shouldDispatch, delivered>>

\* A call that passed the first check runs on without waiting for anybody.
SubmitGoesOn(j) ==
  \/ SubmitAcquire(j) \/ SubmitRegister(j) \/ SubmitEnqueue(j)
  \/ SubmitRecord(j) \/ SubmitAttach(j)

-----------------------------------------------------------------------------
(* The executor, as concurrent.futures runs it: external code *)

\* A free worker takes the oldest item; one whose future was cancelled is dropped.
WorkerTake ==
  /\ workQueue # <<>>
  /\ Cardinality(worker) < MaxWorkers
  /\ workQueue' = Tail(workQueue)
  /\ LET j == Head(workQueue) IN
       \/ /\ future[j] = "pending"
          /\ future' = [future EXCEPT ![j] = "running"]
          /\ worker' = worker \union {j}
          /\ operation' = [operation EXCEPT ![j] = "compute"]
       \/ /\ future[j] = "cancelled"
          /\ UNCHANGED <<future, worker, operation>>
  /\ UNCHANGED <<submitVars, tableVars, closeVars, cancelCall, alive, outcome, doneVars>>

\* Mutant: the callback is attached before submit() records the future, and again after.
CallbacksDueEarly(js) ==
  doneAt' = [j \in Job |-> IF j \in js /\ submitted[j] \in {"recorded", "returned"}
                          THEN "due" ELSE doneAt[j]]

\* What settling the futures of `js` does to their callbacks: those attached are due.
CallbacksDue(js) ==
  doneAt' = [j \in Job |-> IF j \in js /\ submitted[j] = "returned" THEN "due" ELSE doneAt[j]]

-----------------------------------------------------------------------------
(* execute() and JobContext *)

\* The operation is over with outcome o: the future finishes, and the worker goes on to
\* the callback if it is attached.
EndWith(j, o) ==
  /\ outcome' = [outcome EXCEPT ![j] = o]
  /\ operation' = [operation EXCEPT ![j] = "ended"]
  /\ future' = [future EXCEPT ![j] = "finished"]
  /\ worker' = IF submitted[j] = "returned" THEN worker ELSE worker \ {j}
  /\ CallbacksDue({j})
  /\ UNCHANGED <<submitVars, tableVars, closeVars, cancelCall, workQueue, alive,
                 shouldDispatch, delivered>>

\* The operation returns; execute() looks at the cancel event once more.
OperationReturns(j) ==
  /\ operation[j] = "compute"
  /\ EndWith(j, IF j \in eventSet THEN "cancelled" ELSE "value")

\* The operation, or Popen inside it, raises: an error outcome even when the job was cancelled.
OperationFails(j) ==
  /\ operation[j] = "compute"
  /\ EndWith(j, "error")

\* JobCancelledError leaves the operation ...
OperationCancelled(j) ==
  /\ operation[j] = "raised"
  /\ EndWith(j, "cancelled")

OperationStep(j, at) ==
  /\ operation' = [operation EXCEPT ![j] = at]
  /\ UNCHANGED <<submitVars, eventSet, cancelEvents, futures, closeVars, cancelCall,
                 futureVars, outcome, doneVars>>

\* ... or the operation catches it and winds up, as the scalar sweep does.
OperationCatches(j) ==
  /\ operation[j] = "raised"
  /\ OperationStep(j, "compute")
  /\ UNCHANGED <<processes, alive>>

\* raise_if_cancelled at the head of run_process, then Popen. A cancel between the two
\* finds no process, and so does one that comes before _register_process.
RunProcess(j) ==
  /\ operation[j] = "compute"
  /\ IF j \in eventSet
     THEN OperationStep(j, "raised") /\ UNCHANGED alive
     ELSE OperationStep(j, "spawned") /\ alive' = alive \union {j}
  /\ UNCHANGED processes

\* Mutant: the process of a job that may not own one is refused but not killed.
RegisterProcessWithoutKill(j) ==
  /\ operation[j] = "spawned"
  /\ IF closing \/ j \notin cancelEvents
     THEN OperationStep(j, "raised") /\ UNCHANGED processes
     ELSE OperationStep(j, "waiting") /\ processes' = processes \union {j}
  /\ UNCHANGED alive

\* Mutant: ownership is looked up in `_futures`, which submit() fills only later.
RegisterProcessByFuture(j) ==
  /\ operation[j] = "spawned"
  /\ IF closing \/ j \notin futures
     THEN OperationStep(j, "raised") /\ alive' = alive \ {j} /\ UNCHANGED processes
     ELSE OperationStep(j, "waiting") /\ processes' = processes \union {j} /\ UNCHANGED alive

\* _register_process: a closing runner, or one that no longer knows the job, kills the
\* process instead of owning it.
RegisterProcess(j) ==
  /\ operation[j] = "spawned"
  /\ \/ /\ closing \/ j \notin cancelEvents
        /\ alive' = alive \ {j}
        /\ OperationStep(j, "raised")
        /\ UNCHANGED processes
     \/ /\ ~closing /\ j \in cancelEvents
        /\ processes' = processes \union {j}
        /\ OperationStep(j, "waiting")
        /\ UNCHANGED alive

\* The process ends by itself.
ProcessExits(j) ==
  /\ j \in alive
  /\ alive' = alive \ {j}
  /\ UNCHANGED <<submitVars, tableVars, closeVars, cancelCall, futureVars, operation,
                 outcome, doneVars>>

\* Mutant: no `finally`: an exception out of the loop skips the unregistration.
WaitEndsWithoutFinally(j, at) ==
  /\ operation[j] = "waiting"
  /\ alive' = alive \ {j}
  /\ processes' = IF at = "raised" THEN processes ELSE processes \ {j}
  /\ OperationStep(j, at)

\* The loop of run_process is left with the process dead and reaped, and the `finally`
\* unregisters it.
WaitEnds(j, at) ==
  /\ operation[j] = "waiting"
  /\ alive' = alive \ {j}
  /\ processes' = processes \ {j}
  /\ OperationStep(j, at)

\* Mutant: the loop looks at the event only when the process is over.
WaitSeesCancelLate(j) == j \in eventSet /\ j \notin alive /\ WaitEnds(j, "raised")

\* The loop sees the cancel event and kills the process.
WaitSeesCancel(j) == j \in eventSet /\ WaitEnds(j, "raised")

\* The loop sees its time limit pass and kills the process. It looked at the event just
\* before, but the event may have been set since.
WaitTimesOut(j) == WaitEnds(j, "compute")

\* communicate() returns because the process is over. The event may have been set too.
WaitSeesExit(j) == j \notin alive /\ WaitEnds(j, "compute")

\* The steps of a worker that do not wait for anybody.
Execute(j) ==
  \/ OperationReturns(j) \/ OperationFails(j) \/ OperationCancelled(j)
  \/ OperationCatches(j) \/ RunProcess(j) \/ RegisterProcess(j)
  \/ WaitSeesCancel(j) \/ WaitSeesExit(j)

-----------------------------------------------------------------------------
(* The future's `done` callback *)

\* Mutant: only a completion that carries a value is dispatched.
DonePopOfValues(j) ==
  /\ doneAt[j] = "due"
  /\ doneAt' = [doneAt EXCEPT ![j] = "popped"]
  /\ cancelEvents' = cancelEvents \ {j}
  /\ futures' = futures \ {j}
  /\ shouldDispatch' = [shouldDispatch EXCEPT ![j] = ~closing /\ outcome[j] = "value"]
  /\ UNCHANGED <<submitVars, eventSet, processes, closeVars, cancelCall, futureVars,
                 runVars, delivered>>

\* The critical section of its `finally`: the tables forget the job, and whether the
\* completion is to be dispatched is decided here.
DonePop(j) ==
  /\ doneAt[j] = "due"
  /\ doneAt' = [doneAt EXCEPT ![j] = "popped"]
  /\ cancelEvents' = cancelEvents \ {j}
  /\ futures' = futures \ {j}
  /\ shouldDispatch' = [shouldDispatch EXCEPT ![j] = ~closing]
  /\ UNCHANGED <<submitVars, eventSet, processes, closeVars, cancelCall, futureVars,
                 runVars, delivered>>

\* Mutant: the slot is given back only together with a completion.
DoneReleaseIfDispatching(j) ==
  /\ doneAt[j] = "popped"
  /\ doneAt' = [doneAt EXCEPT ![j] = "released"]
  /\ capacity' = IF shouldDispatch[j] THEN capacity + 1 ELSE capacity
  /\ UNCHANGED <<submitted, tableVars, closeVars, cancelCall, futureVars, runVars,
                 shouldDispatch, delivered>>

DoneRelease(j) ==
  /\ doneAt[j] = "popped"
  /\ doneAt' = [doneAt EXCEPT ![j] = "released"]
  /\ capacity' = capacity + 1
  /\ UNCHANGED <<submitted, tableVars, closeVars, cancelCall, futureVars, runVars,
                 shouldDispatch, delivered>>

\* Outside the lock; the callback's local variable is gone, and a worker that ran the
\* callback is free again.
DoneDispatch(j) ==
  /\ doneAt[j] = "released"
  /\ doneAt' = [doneAt EXCEPT ![j] = "over"]
  /\ delivered' = [delivered EXCEPT ![j] = IF shouldDispatch[j] THEN @ + 1 ELSE @]
  /\ shouldDispatch' = [shouldDispatch EXCEPT ![j] = FALSE]
  /\ worker' = worker \ {j}
  /\ UNCHANGED <<submitVars, tableVars, closeVars, cancelCall, workQueue, future, runVars>>

Done(j) == DonePop(j) \/ DoneRelease(j) \/ DoneDispatch(j)

-----------------------------------------------------------------------------
(* cancel(), cancel_all() and shutdown() *)

CallStep(c, call) ==
  /\ cancelCall' = [cancelCall EXCEPT ![c] = call]
  /\ UNCHANGED <<submitVars, cancelEvents, futures, processes, closing, outcome,
                 operation, shouldDispatch, delivered>>

\* cancel_all lists the jobs that hold a cancel event now; cancel() is a list of one, of a
\* job whose id submit() has returned.
CancelBegin(c, js) ==
  /\ cancelCall[c].at = "idle"
  /\ CallStep(c, [NoCall EXCEPT !.at = "next", !.todo = js])
  /\ UNCHANGED <<eventSet, shutdownAt, futureVars, alive, doneAt>>

CancelAll == \E c \in Caller \ {Closer} : CancelBegin(c, cancelEvents)

Cancel ==
  \E c \in Caller \ {Closer}, j \in Job : submitted[j] = "returned" /\ CancelBegin(c, {j})

\* The critical section of cancel(): a snapshot of what belongs to the job. A job
\* without a cancel event is left alone (cancel returns False).
CancelSnapshot(c, j) ==
  LET rest == cancelCall[c].todo \ {j} IN
  /\ cancelCall[c].at = "next" /\ j \in cancelCall[c].todo
  /\ CallStep(c, IF j \in cancelEvents
                 THEN [at |-> "set", todo |-> rest, job |-> j,
                       sawFuture |-> j \in futures, sawProcess |-> j \in processes]
                 ELSE [NoCall EXCEPT !.at = "next", !.todo = rest])
  /\ UNCHANGED <<eventSet, shutdownAt, futureVars, alive, doneAt>>

\* cancel_event.set() and then Future.cancel, which settles a future that no worker has
\* taken; its callback runs here. The two are one step: only a running job looks at the
\* event, and of a running job Future.cancel changes nothing.
CancelSet(c) ==
  LET j == cancelCall[c].job IN
  /\ cancelCall[c].at = "set"
  /\ eventSet' = eventSet \union {j}
  /\ IF cancelCall[c].sawFuture /\ future[j] = "pending"
     THEN future' = [future EXCEPT ![j] = "cancelled"] /\ CallbacksDue({j})
     ELSE UNCHANGED <<future, doneAt>>
  /\ CallStep(c, [cancelCall[c] EXCEPT !.at = "kill"])
  /\ UNCHANGED <<shutdownAt, workQueue, worker, alive>>

\* The processes of the snapshot that still run are killed.
CancelKill(c) ==
  LET j == cancelCall[c].job IN
  /\ cancelCall[c].at = "kill"
  /\ alive' = IF cancelCall[c].sawProcess THEN alive \ {j} ELSE alive
  /\ CallStep(c, [NoCall EXCEPT !.at = "next", !.todo = cancelCall[c].todo])
  /\ UNCHANGED <<eventSet, shutdownAt, futureVars, doneAt>>

CancelReturn(c) ==
  /\ cancelCall[c].at = "next" /\ cancelCall[c].todo = {}
  /\ CallStep(c, NoCall)
  /\ shutdownAt' = IF c = Closer THEN "cancelled" ELSE shutdownAt
  /\ UNCHANGED <<eventSet, futureVars, alive, doneAt>>

CancelStep(c) ==
  \/ \E j \in Job : CancelSnapshot(c, j)
  \/ CancelSet(c) \/ CancelKill(c) \/ CancelReturn(c)

\* shutdown() sets the flag under the lock; a second call returns at once.
ShutdownBegin ==
  /\ ~closing
  /\ closing' = TRUE
  /\ shutdownAt' = "closing"
  /\ UNCHANGED <<submitVars, tableVars, cancelCall, futureVars, runVars, doneVars>>

\* ... then lists the jobs for cancel_all ...
ShutdownCancelAll ==
  /\ shutdownAt = "closing"
  /\ shutdownAt' = "cancelling"
  /\ cancelCall' = [cancelCall EXCEPT ![Closer] =
                      [NoCall EXCEPT !.at = "next", !.todo = cancelEvents]]
  /\ UNCHANGED <<submitVars, tableVars, closing, futureVars, runVars, doneVars>>

Queued == {workQueue[i] : i \in DOMAIN workQueue}

\* ... and shuts the executor down: no further submission, the queue drained, every
\* future still in it cancelled. The executor does this under its own lock.
ShutdownExecutor ==
  LET dropped == {j \in Queued : future[j] = "pending"} IN
  /\ shutdownAt = "cancelled"
  /\ shutdownAt' = "down"
  /\ workQueue' = <<>>
  /\ future' = [j \in Job |-> IF j \in dropped THEN "cancelled" ELSE future[j]]
  /\ CallbacksDue(dropped)
  /\ UNCHANGED <<submitVars, tableVars, closing, cancelCall, worker, runVars,
                 shouldDispatch, delivered>>

Shutdown == ShutdownCancelAll \/ ShutdownExecutor

-----------------------------------------------------------------------------

\* Nothing is left to do: every call returned and every job that got a future settled.
Quiescent ==
  /\ \A j \in Job : /\ submitted[j] \in {"returned", "refused", "full", "leaked"}
                    /\ submitted[j] = "returned" => doneAt[j] = "over"
                    /\ j \notin alive
  /\ \A c \in Caller : cancelCall[c] = NoCall
  /\ shutdownAt = "down"

Terminated == Quiescent /\ UNCHANGED vars

Next ==
  \/ \E j \in Job : \/ SubmitCheck(j) \/ SubmitGoesOn(j)
                   \/ Execute(j) \/ WaitTimesOut(j) \/ ProcessExits(j) \/ Done(j)
  \/ \E c \in Caller : CancelStep(c)
  \/ WorkerTake \/ CancelAll \/ Cancel \/ ShutdownBegin \/ Shutdown
  \/ Terminated

Spec == Init /\ [][Next]_vars

(***************************************************************************)
(* Threads that are inside a call keep running: the code never blocks in    *)
(* submit(), done(), cancel() or shutdown(), and a free worker takes work.   *)
(* An operation is a finite program, so one that keeps coming back to        *)
(* "compute" returns in the end (strong fairness). Nothing is assumed of the *)
(* operating system: a process may never exit, and a time limit may be None. *)
(* Nobody has to call cancel, cancel_all or shutdown.                        *)
(***************************************************************************)
Fairness ==
  /\ \A j \in Job : /\ WF_vars(SubmitGoesOn(j)) /\ WF_vars(Execute(j)) /\ WF_vars(Done(j))
                    /\ SF_vars(OperationReturns(j))
  /\ \A c \in Caller : WF_vars(CancelStep(c))
  /\ WF_vars(WorkerTake) /\ WF_vars(Shutdown)

FairSpec == Spec /\ Fairness

-----------------------------------------------------------------------------
(* Safety *)

TypeOK ==
  /\ submitted \in [Job -> SubmitState] /\ capacity \in 0..MaxPending
  /\ cancelEvents \subseteq Job /\ eventSet \subseteq Job
  /\ futures \subseteq Job /\ processes \subseteq Job
  /\ closing \in BOOLEAN
  /\ shutdownAt \in {"open", "closing", "cancelling", "cancelled", "down"}
  /\ cancelCall \in [Caller -> CancelCall]
  /\ workQueue \in Seq(Job) /\ future \in [Job -> FutureState] /\ worker \subseteq Job
  /\ operation \in [Job -> OperationState] /\ alive \subseteq Job
  /\ outcome \in [Job -> Outcome]
  /\ doneAt \in [Job -> DoneState] /\ shouldDispatch \in [Job -> BOOLEAN]
  /\ delivered \in [Job -> Nat]

\* The jobs that hold a slot of the semaphore: from the acquire in submit() to the
\* release in `done`, and for good when the executor refused the job.
Holding ==
  {j \in Job : /\ submitted[j] \in {"acquired", "registered", "queued", "recorded",
                                   "returned", "leaked"}
               /\ doneAt[j] \notin {"released", "over"}}

\* Every free slot of the semaphore is one that no job holds, through every race of
\* submission, cancellation and shutdown: the pool never shrinks while it is open, and a
\* release never exceeds the bound (BoundedSemaphore would raise inside `done`).
SlotAccounting == capacity + Cardinality(Holding) = MaxPending

\* When `done` has passed its critical section no table of the runner names the job any
\* more, and none will again: a late record in submit() cannot bring back an entry that
\* nothing would ever remove.
NoStaleEntry ==
  \A j \in Job : doneAt[j] \in {"popped", "released", "over"}
                  => j \notin cancelEvents \union futures \union processes

\* A process that is alive has a thread of its own job inside run_process that will still
\* look at it; in particular no process outlives its job's outcome.
ProcessIsWatched ==
  \A j \in Job : j \in alive
                  => operation[j] \in {"spawned", "waiting"} /\ future[j] = "running"

\* A completion runs after the job gave back its slot, and once: a completion that
\* submits the next job cannot be refused for the slot of the job it completes.
DeliveredOnceAndFree ==
  \A j \in Job : delivered[j] <= 1 /\ (delivered[j] = 1 => j \notin Holding)

\* A job reports that it was cancelled only when somebody cancelled it or the runner is
\* closing, and a future that was cancelled has run nothing.
CancelledHasCause ==
  \A j \in Job : /\ outcome[j] = "cancelled" => j \in eventSet \/ closing
                 /\ future[j] = "cancelled" => operation[j] = "idle"

\* The refinement mapping onto JobService.
StatusOf(j) ==
  IF submitted[j] \in {"new", "checked"} THEN "new"
  ELSE IF submitted[j] \in {"refused", "full", "leaked"} THEN "refused"
  ELSE IF j \in Holding THEN "live"
  ELSE IF shouldDispatch[j] THEN "owed"
  ELSE IF delivered[j] > 0 THEN "delivered"
  ELSE "dropped"

JobStatus == [j \in Job |-> StatusOf(j)]

Service == INSTANCE JobService WITH status <- JobStatus, closed <- closing

\* The runner implements the service: every step of the threads is a step of JobService
\* or none.
ImplementsService == Service!Spec

-----------------------------------------------------------------------------
(* Liveness *)

\* Whoever sets the cancel event of a running job ends it, and so does shutdown() for every
\* running job, also one that was still being submitted and that no cancel reached: although
\* the process the job waits for may never exit, may have been started after cancel() took its
\* snapshot, or may be about to start.
StoppedJobEnds ==
  \A j \in Job : ((j \in eventSet \/ closing) /\ future[j] = "running") ~> (future[j] = "finished")

\* As long as processes are ended by their time limits, every job whose submission
\* returned gets to the end of its callback.
EveryJobSettles ==
  (\A j \in Job : WF_vars(WaitTimesOut(j)))
    => \A j \in Job : (submitted[j] = "returned") ~> (doneAt[j] = "over")

=============================================================================
