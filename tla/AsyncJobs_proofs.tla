--------------------------- MODULE AsyncJobs_proofs ---------------------------
(***************************************************************************)
(* Theorems about AsyncJobs, for every set of jobs and callers and every    *)
(* capacity.                                                                *)
(***************************************************************************)
EXTENDS AsyncJobs, FiniteSetTheorems, SequenceTheorems, TLAPS

-----------------------------------------------------------------------------
(* The inductive invariant *)

Unqueued  == {"new", "checked", "acquired", "registered", "refused", "full", "leaked"}
InService == {"registered", "queued", "recorded", "returned", "leaked"}

\* What the submission of a job and its future know of each other.
FutureOrder(j) ==
  /\ future[j] = "absent" <=> submitted[j] \in Unqueued
  /\ doneAt[j] # "none" => submitted[j] = "returned" /\ Settled(j)
  /\ submitted[j] = "leaked" => closing

\* The tables name a job exactly while it is in service.
TableOrder(j) ==
  /\ j \in cancelEvents <=> submitted[j] \in InService /\ doneAt[j] \in {"none", "due"}
  /\ j \in futures => submitted[j] \in {"recorded", "returned"} /\ doneAt[j] \in {"none", "due"}
  /\ j \in processes <=> operation[j] = "waiting"

\* What the worker, the process and the outcome of a job know of its future.
RunOrder(j) ==
  /\ future[j] = "running" <=> operation[j] \in {"compute", "spawned", "waiting", "raised"}
  /\ future[j] = "finished" <=> operation[j] = "ended"
  /\ j \in alive => operation[j] \in {"spawned", "waiting"}
  /\ operation[j] = "raised" \/ outcome[j] = "cancelled" => j \in eventSet \/ closing

DeliveryOrder(j) ==
  /\ delivered[j] \in {0, 1}
  /\ delivered[j] = 1 => doneAt[j] = "over"
  /\ shouldDispatch[j] => doneAt[j] \in {"popped", "released"}
  /\ doneAt[j] = "popped" => shouldDispatch[j] \/ closing

\* The executor's queue holds each job at most once, and only futures nobody has taken.
QueueOrder ==
  \A i \in 1..Len(workQueue) :
    /\ future[workQueue[i]] \in {"pending", "cancelled"}
    /\ \A k \in 1..Len(workQueue) : workQueue[i] = workQueue[k] => i = k

JobOrder == \A j \in Job : /\ FutureOrder(j) /\ TableOrder(j)
                           /\ RunOrder(j) /\ DeliveryOrder(j)

CallOrder ==
  /\ \A c \in Caller : cancelCall[c].at \in {"set", "kill"} => cancelCall[c].job \in Job
  /\ cancelCall[Closer].at # "idle" => shutdownAt = "cancelling"

ShutdownOrder == shutdownAt # "open" => closing

IInv == /\ TypeOK /\ JobOrder /\ QueueOrder /\ CallOrder /\ ShutdownOrder
        /\ SlotAccounting

-----------------------------------------------------------------------------
(* The initial states *)

LEMMA NoCallTyped == NoCall \in CancelCall
  BY DEF NoCall, CancelCall

LEMMA InitEstablishes == Init => IInv
<1> SUFFICES ASSUME Init PROVE IInv
  OBVIOUS
<1> USE RunnerAssumption
<1>1. TypeOK
  <2>1. workQueue \in Seq(Job)
    BY DEF Init
  <2>2. capacity \in 0..MaxPending
    BY DEF Init
  <2>3. cancelCall \in [Caller -> CancelCall]
    BY NoCallTyped DEF Init
  <2>4. submitted \in [Job -> SubmitState]
    BY DEF Init, SubmitState
  <2>5. /\ future \in [Job -> FutureState]
        /\ operation \in [Job -> OperationState]
        /\ outcome \in [Job -> Outcome]
        /\ doneAt \in [Job -> DoneState]
    BY DEF Init, FutureState, OperationState, Outcome, DoneState
  <2>6. shouldDispatch \in [Job -> BOOLEAN] /\ delivered \in [Job -> Nat]
    BY DEF Init
  <2>7. QED
    BY <2>1, <2>2, <2>3, <2>4, <2>5, <2>6 DEF Init, TypeOK
<1>2. JobOrder
  BY DEF Init, JobOrder, FutureOrder, TableOrder, RunOrder, DeliveryOrder, Unqueued,
         InService, Settled
<1>3. QueueOrder /\ ShutdownOrder /\ CallOrder
  BY DEF Init, QueueOrder, ShutdownOrder, CallOrder, NoCall
<1>4. SlotAccounting
  <2>1. Holding = {}
    BY DEF Init, Holding
  <2>2. QED
    BY <2>1, FS_EmptySet DEF Init, SlotAccounting
<1>5. QED
  BY <1>1, <1>2, <1>3, <1>4 DEF IInv

-----------------------------------------------------------------------------
(* Slots *)

\* A step that moves no job into or out of Holding keeps the account ...
LEMMA SlotsKept ==
  ASSUME TypeOK, SlotAccounting, Holding' = Holding, capacity' = capacity
  PROVE  SlotAccounting' /\ capacity' \in 0..MaxPending
BY DEF SlotAccounting, TypeOK

\* ... and so do the acquire ...
LEMMA SlotTaken ==
  ASSUME TypeOK, SlotAccounting, capacity > 0, capacity' = capacity - 1,
         NEW j \in Job, j \notin Holding, Holding' = Holding \union {j}
  PROVE  SlotAccounting' /\ capacity' \in 0..MaxPending
<1>1. IsFiniteSet(Holding)
  BY RunnerAssumption, FS_Subset DEF Holding
<1>2. Cardinality(Holding') = Cardinality(Holding) + 1 /\ Cardinality(Holding) \in Nat
  BY <1>1, FS_AddElement, FS_CardinalityType
<1>3. QED
  BY <1>2, RunnerAssumption DEF SlotAccounting, TypeOK

\* ... and the release, which therefore never exceeds the bound.
LEMMA SlotReturned ==
  ASSUME TypeOK, SlotAccounting, capacity' = capacity + 1,
         NEW j \in Job, j \in Holding, Holding' = Holding \ {j}
  PROVE  SlotAccounting' /\ capacity' \in 0..MaxPending
<1>1. IsFiniteSet(Holding) /\ IsFiniteSet(Holding')
  BY RunnerAssumption, FS_Subset DEF Holding
<1>2. Cardinality(Holding') = Cardinality(Holding) - 1
  BY <1>1, FS_RemoveElement
<1>3. Cardinality(Holding) \in Nat /\ Cardinality(Holding') \in Nat
  BY <1>1, FS_CardinalityType
<1>4. QED
  BY <1>2, <1>3, RunnerAssumption DEF SlotAccounting, TypeOK

\* Callbacks that become due move no job out of Holding.
LEMMA CallbacksKeepHolding ==
  ASSUME TypeOK, NEW js, CallbacksDue(js), submitted' = submitted,
         \A i \in Job : i \in js => doneAt[i] = "none"
  PROVE  Holding' = Holding
<1>1. \A i \in Job : doneAt'[i] \in {"released", "over"} <=> doneAt[i] \in {"released", "over"}
  BY DEF CallbacksDue, TypeOK
<1>2. QED
  BY <1>1 DEF Holding

-----------------------------------------------------------------------------
(* The queue *)

LEMMA QueueKept ==
  ASSUME TypeOK, QueueOrder, workQueue' = workQueue,
         \A i \in Job : future[i] \in {"pending", "cancelled"}
                       => future'[i] \in {"pending", "cancelled"}
  PROVE  QueueOrder'
<1>1. \A i \in 1..Len(workQueue) : workQueue[i] \in Job
  BY DEF TypeOK
<1>2. QED
  BY <1>1 DEF QueueOrder

-----------------------------------------------------------------------------
(* submit() *)

LEMMA SubmitCheckKeeps ==
  ASSUME IInv, NEW j \in Job, SubmitCheck(j) PROVE IInv'
<1> USE DEF IInv, SubmitCheck, tableVars, closeVars, futureVars, runVars, doneVars
<1>1. SlotAccounting' /\ capacity' \in 0..MaxPending
  <2>1. Holding' = Holding
    BY DEF Holding, TypeOK
  <2>2. QED
    BY <2>1, SlotsKept
<1>2. TypeOK'
  BY <1>1 DEF TypeOK, SubmitState, FutureState, OperationState, Outcome, DoneState
<1>3. JobOrder'
  BY DEF TypeOK, JobOrder, FutureOrder, TableOrder, RunOrder, DeliveryOrder, Unqueued, InService, ShutdownOrder, Settled
<1>4. QueueOrder'
  BY QueueKept
<1>5. CallOrder' /\ ShutdownOrder'
  BY DEF CallOrder, ShutdownOrder
<1>6. QED
  BY <1>1, <1>2, <1>3, <1>4, <1>5

LEMMA SubmitAcquireKeeps ==
  ASSUME IInv, NEW j \in Job, SubmitAcquire(j) PROVE IInv'
<1> USE DEF IInv, SubmitAcquire, tableVars, closeVars, futureVars, runVars, doneVars
<1>1. SlotAccounting' /\ capacity' \in 0..MaxPending
  <2>1. CASE submitted'[j] = "full"
    <3>1. Holding' = Holding
      BY <2>1 DEF Holding, TypeOK, JobOrder, FutureOrder
    <3>2. QED
      BY <2>1, <3>1, SlotsKept DEF TypeOK
  <2>2. CASE submitted'[j] = "acquired"
    <3>1. j \notin Holding /\ Holding' = Holding \union {j}
      BY <2>2 DEF Holding, TypeOK, JobOrder, FutureOrder, Unqueued
    <3>2. capacity > 0 /\ capacity' = capacity - 1
      BY <2>2 DEF TypeOK
    <3>3. QED
      BY <3>1, <3>2, SlotTaken
  <2>3. QED
    BY <2>1, <2>2 DEF TypeOK
<1>2. TypeOK'
  BY <1>1 DEF TypeOK, SubmitState, FutureState, OperationState, Outcome, DoneState
<1>3. JobOrder'
  BY DEF TypeOK, JobOrder, FutureOrder, TableOrder, RunOrder, DeliveryOrder, Unqueued, InService, ShutdownOrder, Settled
<1>4. QueueOrder'
  BY QueueKept
<1>5. CallOrder' /\ ShutdownOrder'
  BY DEF CallOrder, ShutdownOrder
<1>6. QED
  BY <1>1, <1>2, <1>3, <1>4, <1>5

LEMMA SubmitRegisterKeeps ==
  ASSUME IInv, NEW j \in Job, SubmitRegister(j) PROVE IInv'
<1> USE DEF IInv, SubmitRegister, tableVars, closeVars, futureVars, runVars, doneVars
<1>1. SlotAccounting' /\ capacity' \in 0..MaxPending
  <2>1. Holding' = Holding
    BY DEF Holding, TypeOK, JobOrder, FutureOrder
  <2>2. QED
    BY <2>1, SlotsKept
<1>2. TypeOK'
  BY <1>1 DEF TypeOK, SubmitState, FutureState, OperationState, Outcome, DoneState
<1>3. JobOrder'
  BY DEF TypeOK, JobOrder, FutureOrder, TableOrder, RunOrder, DeliveryOrder, Unqueued, InService, ShutdownOrder, Settled
<1>4. QueueOrder'
  BY QueueKept
<1>5. CallOrder' /\ ShutdownOrder'
  BY DEF CallOrder, ShutdownOrder
<1>6. QED
  BY <1>1, <1>2, <1>3, <1>4, <1>5

LEMMA SubmitEnqueueKeeps ==
  ASSUME IInv, NEW j \in Job, SubmitEnqueue(j) PROVE IInv'
<1> USE DEF IInv, SubmitEnqueue, tableVars, closeVars, futureVars, runVars, doneVars
<1>a. workQueue \in Seq(Job) /\ Len(workQueue) \in Nat
      /\ \A i \in 1..Len(workQueue) : workQueue[i] \in Job
  BY DEF TypeOK
<1>b. future[j] = "absent"
  BY DEF TypeOK, JobOrder, FutureOrder, Unqueued
<1>c. \A i \in 1..Len(workQueue) : workQueue[i] # j
  BY <1>a, <1>b DEF QueueOrder
<1>1. SlotAccounting' /\ capacity' \in 0..MaxPending
  <2>1. Holding' = Holding
    BY DEF Holding, TypeOK, JobOrder, FutureOrder
  <2>2. QED
    BY <2>1, SlotsKept
<1>2. TypeOK'
  <2>1. workQueue' \in Seq(Job)
    BY <1>a
  <2>2. QED
    BY <1>1, <2>1 DEF TypeOK, SubmitState, FutureState
<1>3. JobOrder'
  BY DEF TypeOK, JobOrder, FutureOrder, TableOrder, RunOrder, DeliveryOrder, Unqueued, InService, ShutdownOrder, Settled
<1>4. QueueOrder'
  <2>1. CASE UNCHANGED <<workQueue, future>>
    BY <2>1, QueueKept
  <2>2. CASE workQueue' = Append(workQueue, j) /\ future' = [future EXCEPT ![j] = "pending"]
    <3>1. /\ Len(workQueue') = Len(workQueue) + 1 /\ workQueue'[Len(workQueue) + 1] = j
          /\ \A i \in 1..Len(workQueue) : workQueue'[i] = workQueue[i] /\ workQueue[i] \in Job \ {j}
          /\ Len(workQueue) \in Nat
      BY <1>a, <1>c, <2>2
    <3>2. \A i \in Job : i # j => future'[i] = future[i]
      BY <2>2 DEF TypeOK
    <3>3. future'[j] = "pending"
      BY <2>2 DEF TypeOK
    <3>4. \A i \in 1..(Len(workQueue) + 1) : i \in 1..Len(workQueue) \/ i = Len(workQueue) + 1
      BY <3>1
    <3>5. QED
      BY <3>1, <3>2, <3>3, <3>4 DEF QueueOrder
  <2>3. QED
    BY <2>1, <2>2
<1>5. CallOrder' /\ ShutdownOrder'
  BY DEF CallOrder, ShutdownOrder
<1>6. QED
  BY <1>1, <1>2, <1>3, <1>4, <1>5

LEMMA SubmitRecordKeeps ==
  ASSUME IInv, NEW j \in Job, SubmitRecord(j) PROVE IInv'
<1> USE DEF IInv, SubmitRecord, tableVars, closeVars, futureVars, runVars, doneVars
<1>1. SlotAccounting' /\ capacity' \in 0..MaxPending
  <2>1. Holding' = Holding
    BY DEF Holding, TypeOK, JobOrder, FutureOrder
  <2>2. QED
    BY <2>1, SlotsKept
<1>2. TypeOK'
  BY <1>1 DEF TypeOK, SubmitState, FutureState, OperationState, Outcome, DoneState
<1>3. JobOrder'
  BY DEF TypeOK, JobOrder, FutureOrder, TableOrder, RunOrder, DeliveryOrder, Unqueued, InService, ShutdownOrder, Settled
<1>4. QueueOrder'
  BY QueueKept
<1>5. CallOrder' /\ ShutdownOrder'
  BY DEF CallOrder, ShutdownOrder
<1>6. QED
  BY <1>1, <1>2, <1>3, <1>4, <1>5

LEMMA SubmitAttachKeeps ==
  ASSUME IInv, NEW j \in Job, SubmitAttach(j) PROVE IInv'
<1> USE DEF IInv, SubmitAttach, tableVars, closeVars, futureVars, runVars, doneVars
<1>1. SlotAccounting' /\ capacity' \in 0..MaxPending
  <2>1. Holding' = Holding
    BY DEF Holding, TypeOK, JobOrder, FutureOrder
  <2>2. QED
    BY <2>1, SlotsKept
<1>2. TypeOK'
  BY <1>1 DEF TypeOK, SubmitState, FutureState, OperationState, Outcome, DoneState
<1>3. JobOrder'
  BY DEF TypeOK, JobOrder, FutureOrder, TableOrder, RunOrder, DeliveryOrder, Unqueued, InService, ShutdownOrder, Settled
<1>4. QueueOrder'
  BY QueueKept
<1>5. CallOrder' /\ ShutdownOrder'
  BY DEF CallOrder, ShutdownOrder
<1>6. QED
  BY <1>1, <1>2, <1>3, <1>4, <1>5

-----------------------------------------------------------------------------
(* The worker and its operation *)

\* A running job is in no queue, and is still in the table of cancel events.
LEMMA RunningJob ==
  ASSUME IInv, NEW j \in Job, operation[j] \in {"compute", "spawned", "waiting", "raised"}
  PROVE  /\ future[j] = "running" /\ doneAt[j] = "none"
         /\ submitted[j] \in {"queued", "recorded", "returned"} /\ j \in cancelEvents
BY DEF IInv, TypeOK, SubmitState, JobOrder, FutureOrder, TableOrder, RunOrder, Unqueued,
       InService, Settled

LEMMA WorkerTakeKeeps ==
  ASSUME IInv, WorkerTake PROVE IInv'
<1> USE DEF IInv, WorkerTake, submitVars, tableVars, closeVars, futureVars, runVars, doneVars
<1>a. /\ workQueue \in Seq(Job) /\ workQueue # <<>> /\ workQueue' = Tail(workQueue)
      /\ Head(workQueue) = workQueue[1] /\ Len(workQueue) \in Nat \ {0}
      /\ Head(workQueue) \in Job
  BY DEF TypeOK
<1>b. /\ workQueue' \in Seq(Job) /\ Len(workQueue') = Len(workQueue) - 1
      /\ \A i \in 1..(Len(workQueue) - 1) : workQueue'[i] = workQueue[i + 1]
  BY <1>a
<1>1. SlotAccounting' /\ capacity' \in 0..MaxPending
  <2>1. Holding' = Holding
    BY DEF Holding, TypeOK, JobOrder, FutureOrder
  <2>2. QED
    BY <2>1, SlotsKept
<1>2. TypeOK'
  BY <1>1, <1>a, <1>b DEF TypeOK, FutureState, OperationState
<1>3. JobOrder'
  BY <1>a DEF TypeOK, JobOrder, FutureOrder, TableOrder, RunOrder, DeliveryOrder, Unqueued, InService, Settled
<1>4. QueueOrder'
  <2>1. \A i \in 1..(Len(workQueue) - 1) : /\ i + 1 \in 1..Len(workQueue)
                                            /\ workQueue'[i] = workQueue[i + 1]
                                            /\ workQueue'[i] \in Job
                                            /\ workQueue'[i] # Head(workQueue)
    BY <1>a, <1>b DEF QueueOrder
  <2>2. \A k \in Job : k # Head(workQueue) => future'[k] = future[k]
    BY <1>a DEF TypeOK
  <2>3. \A i \in 1..(Len(workQueue) - 1) : future'[workQueue'[i]] \in {"pending", "cancelled"}
    BY <2>1, <2>2 DEF QueueOrder
  <2>4. \A i, k \in 1..(Len(workQueue) - 1) : workQueue'[i] = workQueue'[k] => i = k
    BY <1>a, <2>1 DEF QueueOrder
  <2>5. QED
    BY <1>b, <2>3, <2>4 DEF QueueOrder
<1>5. CallOrder' /\ ShutdownOrder'
  BY DEF CallOrder, ShutdownOrder
<1>6. QED
  BY <1>1, <1>2, <1>3, <1>4, <1>5

\* The end of an operation, whatever its outcome.
LEMMA EndWithKeeps ==
  ASSUME IInv, NEW j \in Job, NEW o \in Outcome \ {"none"},
         operation[j] \in {"compute", "raised"},
         o = "cancelled" => j \in eventSet \/ closing, EndWith(j, o) PROVE IInv'
<1> USE DEF IInv, EndWith, submitVars, tableVars, closeVars, futureVars, runVars, doneVars
<1>a. /\ future[j] = "running" /\ doneAt[j] = "none"
      /\ submitted[j] \in {"queued", "recorded", "returned"} /\ j \in cancelEvents
  BY RunningJob
<1>1. SlotAccounting' /\ capacity' \in 0..MaxPending
  <2>1. Holding' = Holding
    BY <1>a, CallbacksKeepHolding
  <2>2. QED
    BY <2>1, SlotsKept
<1>2. TypeOK'
  <2>1. doneAt' \in [Job -> DoneState]
    BY DEF CallbacksDue, TypeOK, DoneState
  <2>2. QED
    BY <1>1, <2>1 DEF TypeOK, FutureState, OperationState
<1>3. JobOrder'
  <2>1. \A i \in Job : doneAt'[i] = IF i = j /\ submitted[i] = "returned" THEN "due" ELSE doneAt[i]
    BY DEF CallbacksDue
  <2>2. QED
    BY <1>a, <2>1 DEF TypeOK, JobOrder, FutureOrder, TableOrder, RunOrder, DeliveryOrder, Unqueued, InService, Settled
<1>4. QueueOrder'
  BY <1>a, QueueKept DEF TypeOK
<1>5. CallOrder' /\ ShutdownOrder'
  BY DEF CallOrder, ShutdownOrder
<1>6. QED
  BY <1>1, <1>2, <1>3, <1>4, <1>5

LEMMA OperationReturnsKeeps ==
  ASSUME IInv, NEW j \in Job, OperationReturns(j) PROVE IInv'
BY EndWithKeeps DEF OperationReturns, Outcome

LEMMA OperationFailsKeeps ==
  ASSUME IInv, NEW j \in Job, OperationFails(j) PROVE IInv'
BY EndWithKeeps DEF OperationFails, Outcome

LEMMA OperationCancelledKeeps ==
  ASSUME IInv, NEW j \in Job, OperationCancelled(j) PROVE IInv'
<1>1. j \in eventSet \/ closing
  BY DEF OperationCancelled, IInv, TypeOK, JobOrder, RunOrder
<1>2. QED
  BY <1>1, EndWithKeeps DEF OperationCancelled, Outcome

LEMMA OperationCatchesKeeps ==
  ASSUME IInv, NEW j \in Job, OperationCatches(j) PROVE IInv'
<1> USE DEF IInv, OperationCatches, OperationStep, submitVars, tableVars, closeVars, futureVars, runVars, doneVars
<1>1. SlotAccounting' /\ capacity' \in 0..MaxPending
  <2>1. Holding' = Holding
    BY DEF Holding, TypeOK, JobOrder, FutureOrder
  <2>2. QED
    BY <2>1, SlotsKept
<1>2. TypeOK'
  BY <1>1 DEF TypeOK, SubmitState, FutureState, OperationState, Outcome, DoneState
<1>3. JobOrder'
  BY DEF TypeOK, JobOrder, FutureOrder, TableOrder, RunOrder, DeliveryOrder, Unqueued, InService, Settled
<1>4. QueueOrder'
  BY QueueKept
<1>5. CallOrder' /\ ShutdownOrder'
  BY DEF CallOrder, ShutdownOrder
<1>6. QED
  BY <1>1, <1>2, <1>3, <1>4, <1>5

LEMMA RunProcessKeeps ==
  ASSUME IInv, NEW j \in Job, RunProcess(j) PROVE IInv'
<1> USE DEF IInv, RunProcess, OperationStep, submitVars, tableVars, closeVars, futureVars, runVars, doneVars
<1>1. SlotAccounting' /\ capacity' \in 0..MaxPending
  <2>1. Holding' = Holding
    BY DEF Holding, TypeOK, JobOrder, FutureOrder
  <2>2. QED
    BY <2>1, SlotsKept
<1>2. TypeOK'
  <2>1. CASE j \in eventSet
    BY <1>1, <2>1 DEF TypeOK, OperationState
  <2>2. CASE j \notin eventSet
    BY <1>1, <2>2 DEF TypeOK, OperationState
  <2>3. QED
    BY <2>1, <2>2
<1>3. JobOrder'
  <2>1. CASE j \in eventSet
    BY <2>1 DEF TypeOK, JobOrder, FutureOrder, TableOrder, RunOrder, DeliveryOrder, Unqueued, InService, Settled
  <2>2. CASE j \notin eventSet
    BY <2>2 DEF TypeOK, JobOrder, FutureOrder, TableOrder, RunOrder, DeliveryOrder, Unqueued, InService, Settled
  <2>3. QED
    BY <2>1, <2>2
<1>4. QueueOrder'
  BY QueueKept
<1>5. CallOrder' /\ ShutdownOrder'
  BY DEF CallOrder, ShutdownOrder
<1>6. QED
  BY <1>1, <1>2, <1>3, <1>4, <1>5

LEMMA RegisterProcessKeeps ==
  ASSUME IInv, NEW j \in Job, RegisterProcess(j) PROVE IInv'
<1> USE DEF IInv, RegisterProcess, OperationStep, submitVars, tableVars, closeVars, futureVars, runVars, doneVars
<1>1. SlotAccounting' /\ capacity' \in 0..MaxPending
  <2>1. Holding' = Holding
    BY DEF Holding, TypeOK, JobOrder, FutureOrder
  <2>2. QED
    BY <2>1, SlotsKept
<1>2. TypeOK'
  BY <1>1 DEF TypeOK, SubmitState, FutureState, OperationState, Outcome, DoneState
<1>3. JobOrder'
  <2>1. j \in cancelEvents
    BY RunningJob
  <2>2. CASE closing
    BY <2>1, <2>2 DEF TypeOK, JobOrder, FutureOrder, TableOrder, RunOrder, DeliveryOrder, Unqueued, InService, Settled
  <2>3. CASE ~closing
    BY <2>1, <2>3 DEF TypeOK, JobOrder, FutureOrder, TableOrder, RunOrder, DeliveryOrder, Unqueued, InService, Settled
  <2>4. QED
    BY <2>2, <2>3
<1>4. QueueOrder'
  BY QueueKept
<1>5. CallOrder' /\ ShutdownOrder'
  BY DEF CallOrder, ShutdownOrder
<1>6. QED
  BY <1>1, <1>2, <1>3, <1>4, <1>5

LEMMA ProcessExitsKeeps ==
  ASSUME IInv, NEW j \in Job, ProcessExits(j) PROVE IInv'
<1> USE DEF IInv, ProcessExits, submitVars, tableVars, closeVars, futureVars, runVars, doneVars
<1>1. SlotAccounting' /\ capacity' \in 0..MaxPending
  <2>1. Holding' = Holding
    BY DEF Holding, TypeOK, JobOrder, FutureOrder
  <2>2. QED
    BY <2>1, SlotsKept
<1>2. TypeOK'
  BY <1>1 DEF TypeOK, SubmitState, FutureState, OperationState, Outcome, DoneState
<1>3. JobOrder'
  BY DEF TypeOK, JobOrder, FutureOrder, TableOrder, RunOrder, DeliveryOrder, Unqueued, InService, Settled
<1>4. QueueOrder'
  BY QueueKept
<1>5. CallOrder' /\ ShutdownOrder'
  BY DEF CallOrder, ShutdownOrder
<1>6. QED
  BY <1>1, <1>2, <1>3, <1>4, <1>5

LEMMA WaitSeesCancelKeeps ==
  ASSUME IInv, NEW j \in Job, WaitSeesCancel(j) PROVE IInv'
<1> USE DEF IInv, WaitSeesCancel, WaitEnds, OperationStep, submitVars, tableVars, closeVars, futureVars, runVars, doneVars
<1>1. SlotAccounting' /\ capacity' \in 0..MaxPending
  <2>1. Holding' = Holding
    BY DEF Holding, TypeOK, JobOrder, FutureOrder
  <2>2. QED
    BY <2>1, SlotsKept
<1>2. TypeOK'
  BY <1>1 DEF TypeOK, SubmitState, FutureState, OperationState, Outcome, DoneState
<1>3. JobOrder'
  BY DEF TypeOK, JobOrder, FutureOrder, TableOrder, RunOrder, DeliveryOrder, Unqueued, InService, Settled
<1>4. QueueOrder'
  BY QueueKept
<1>5. CallOrder' /\ ShutdownOrder'
  BY DEF CallOrder, ShutdownOrder
<1>6. QED
  BY <1>1, <1>2, <1>3, <1>4, <1>5

LEMMA WaitTimesOutKeeps ==
  ASSUME IInv, NEW j \in Job, WaitTimesOut(j) PROVE IInv'
<1> USE DEF IInv, WaitTimesOut, WaitEnds, OperationStep, submitVars, tableVars, closeVars, futureVars, runVars, doneVars
<1>1. SlotAccounting' /\ capacity' \in 0..MaxPending
  <2>1. Holding' = Holding
    BY DEF Holding, TypeOK, JobOrder, FutureOrder
  <2>2. QED
    BY <2>1, SlotsKept
<1>2. TypeOK'
  BY <1>1 DEF TypeOK, SubmitState, FutureState, OperationState, Outcome, DoneState
<1>3. JobOrder'
  BY DEF TypeOK, JobOrder, FutureOrder, TableOrder, RunOrder, DeliveryOrder, Unqueued, InService, Settled
<1>4. QueueOrder'
  BY QueueKept
<1>5. CallOrder' /\ ShutdownOrder'
  BY DEF CallOrder, ShutdownOrder
<1>6. QED
  BY <1>1, <1>2, <1>3, <1>4, <1>5

LEMMA WaitSeesExitKeeps ==
  ASSUME IInv, NEW j \in Job, WaitSeesExit(j) PROVE IInv'
<1> USE DEF IInv, WaitSeesExit, WaitEnds, OperationStep, submitVars, tableVars, closeVars, futureVars, runVars, doneVars
<1>1. SlotAccounting' /\ capacity' \in 0..MaxPending
  <2>1. Holding' = Holding
    BY DEF Holding, TypeOK, JobOrder, FutureOrder
  <2>2. QED
    BY <2>1, SlotsKept
<1>2. TypeOK'
  BY <1>1 DEF TypeOK, SubmitState, FutureState, OperationState, Outcome, DoneState
<1>3. JobOrder'
  BY DEF TypeOK, JobOrder, FutureOrder, TableOrder, RunOrder, DeliveryOrder, Unqueued, InService, Settled
<1>4. QueueOrder'
  BY QueueKept
<1>5. CallOrder' /\ ShutdownOrder'
  BY DEF CallOrder, ShutdownOrder
<1>6. QED
  BY <1>1, <1>2, <1>3, <1>4, <1>5

-----------------------------------------------------------------------------
(* The callback *)

LEMMA DonePopKeeps ==
  ASSUME IInv, NEW j \in Job, DonePop(j) PROVE IInv'
<1> USE DEF IInv, DonePop, submitVars, tableVars, closeVars, futureVars, runVars, doneVars
<1>1. SlotAccounting' /\ capacity' \in 0..MaxPending
  <2>1. Holding' = Holding
    BY DEF Holding, TypeOK, JobOrder, FutureOrder
  <2>2. QED
    BY <2>1, SlotsKept
<1>2. TypeOK'
  BY <1>1 DEF TypeOK, SubmitState, FutureState, OperationState, Outcome, DoneState
<1>3. JobOrder'
  <2>1. CASE closing
    <3>1. shouldDispatch' = [shouldDispatch EXCEPT ![j] = FALSE]
      BY <2>1
    <3>2. QED
      BY <2>1, <3>1 DEF TypeOK, JobOrder, FutureOrder, TableOrder, RunOrder, DeliveryOrder, Unqueued, InService, Settled
  <2>2. CASE ~closing
    <3>1. shouldDispatch' = [shouldDispatch EXCEPT ![j] = TRUE]
      BY <2>2
    <3>2. QED
      BY <2>2, <3>1 DEF TypeOK, JobOrder, FutureOrder, TableOrder, RunOrder, DeliveryOrder, Unqueued, InService, Settled
  <2>3. QED
    BY <2>1, <2>2
<1>4. QueueOrder'
  BY QueueKept
<1>5. CallOrder' /\ ShutdownOrder'
  BY DEF CallOrder, ShutdownOrder
<1>6. QED
  BY <1>1, <1>2, <1>3, <1>4, <1>5

LEMMA DoneReleaseKeeps ==
  ASSUME IInv, NEW j \in Job, DoneRelease(j) PROVE IInv'
<1> USE DEF IInv, DoneRelease, submitVars, tableVars, closeVars, futureVars, runVars, doneVars
<1>1. SlotAccounting' /\ capacity' \in 0..MaxPending
  <2>1. j \in Holding /\ Holding' = Holding \ {j}
    BY DEF Holding, TypeOK, JobOrder, FutureOrder
  <2>2. QED
    BY <2>1, SlotReturned
<1>2. TypeOK'
  BY <1>1 DEF TypeOK, SubmitState, FutureState, OperationState, Outcome, DoneState
<1>3. JobOrder'
  BY DEF TypeOK, JobOrder, FutureOrder, TableOrder, RunOrder, DeliveryOrder, Unqueued, InService, ShutdownOrder, Settled
<1>4. QueueOrder'
  BY QueueKept
<1>5. CallOrder' /\ ShutdownOrder'
  BY DEF CallOrder, ShutdownOrder
<1>6. QED
  BY <1>1, <1>2, <1>3, <1>4, <1>5

LEMMA DoneDispatchKeeps ==
  ASSUME IInv, NEW j \in Job, DoneDispatch(j) PROVE IInv'
<1> USE DEF IInv, DoneDispatch, submitVars, tableVars, closeVars, futureVars, runVars, doneVars
<1>1. SlotAccounting' /\ capacity' \in 0..MaxPending
  <2>1. Holding' = Holding
    BY DEF Holding, TypeOK, JobOrder, FutureOrder
  <2>2. QED
    BY <2>1, SlotsKept
<1>2. TypeOK'
  BY <1>1 DEF TypeOK, SubmitState, FutureState, OperationState, Outcome, DoneState
<1>3. JobOrder'
  BY DEF TypeOK, JobOrder, FutureOrder, TableOrder, RunOrder, DeliveryOrder, Unqueued, InService, ShutdownOrder, Settled
<1>4. QueueOrder'
  BY QueueKept
<1>5. CallOrder' /\ ShutdownOrder'
  BY DEF CallOrder, ShutdownOrder
<1>6. QED
  BY <1>1, <1>2, <1>3, <1>4, <1>5

-----------------------------------------------------------------------------
(* cancel(), cancel_all() and shutdown() *)

LEMMA CancelBeginKeeps ==
  ASSUME IInv, NEW c \in Caller \ {Closer}, NEW js \in SUBSET Job, CancelBegin(c, js) PROVE IInv'
<1> USE DEF IInv, CancelBegin, CallStep, submitVars, tableVars, closeVars, futureVars, runVars, doneVars
<1>1. SlotAccounting' /\ capacity' \in 0..MaxPending
  <2>1. Holding' = Holding
    BY DEF Holding, TypeOK
  <2>2. QED
    BY <2>1, SlotsKept
<1>2. TypeOK'
  <2>1. cancelCall' \in [Caller -> CancelCall]
    BY DEF TypeOK, CancelCall, NoCall
  <2>2. QED
    BY <1>1, <2>1 DEF TypeOK
<1>3. JobOrder'
  BY DEF TypeOK, JobOrder, FutureOrder, TableOrder, RunOrder, DeliveryOrder, Unqueued, InService, ShutdownOrder, Settled
<1>4. QueueOrder'
  BY QueueKept
<1>5. CallOrder' /\ ShutdownOrder'
  BY RunnerAssumption DEF TypeOK, CallOrder, ShutdownOrder, NoCall
<1>6. QED
  BY <1>1, <1>2, <1>3, <1>4, <1>5

LEMMA CancelSnapshotKeeps ==
  ASSUME IInv, NEW c \in Caller, NEW j \in Job, CancelSnapshot(c, j) PROVE IInv'
<1> USE DEF IInv, CancelSnapshot, CallStep, submitVars, tableVars, closeVars, futureVars, runVars, doneVars
<1>1. SlotAccounting' /\ capacity' \in 0..MaxPending
  <2>1. Holding' = Holding
    BY DEF Holding, TypeOK
  <2>2. QED
    BY <2>1, SlotsKept
<1>2. TypeOK'
  <2>1. cancelCall' \in [Caller -> CancelCall]
    <3>1. cancelCall[c].todo \in SUBSET Job
      BY DEF TypeOK, CancelCall
    <3>2. CASE j \in cancelEvents
      BY <3>1, <3>2 DEF TypeOK, CancelCall
    <3>3. CASE j \notin cancelEvents
      BY <3>1, <3>3 DEF TypeOK, CancelCall, NoCall
    <3>4. QED
      BY <3>2, <3>3
  <2>2. QED
    BY <1>1, <2>1 DEF TypeOK
<1>3. JobOrder'
  BY DEF TypeOK, JobOrder, FutureOrder, TableOrder, RunOrder, DeliveryOrder, Unqueued, InService, ShutdownOrder, Settled
<1>4. QueueOrder'
  BY QueueKept
<1>5. CallOrder' /\ ShutdownOrder'
  BY RunnerAssumption DEF TypeOK, CallOrder, ShutdownOrder, NoCall
<1>6. QED
  BY <1>1, <1>2, <1>3, <1>4, <1>5

LEMMA CancelSetKeeps ==
  ASSUME IInv, NEW c \in Caller, CancelSet(c) PROVE IInv'
<1> USE DEF IInv, CancelSet, CallStep, submitVars, tableVars, closeVars, futureVars, runVars, doneVars
<1>a. cancelCall[c].job \in Job /\ cancelCall[c] \in CancelCall
  BY DEF TypeOK, CallOrder
<1>b. future[cancelCall[c].job] = "pending" => doneAt[cancelCall[c].job] = "none"
  BY <1>a DEF TypeOK, JobOrder, FutureOrder, Settled, DoneState
<1>1. SlotAccounting' /\ capacity' \in 0..MaxPending
  <2>1. CASE UNCHANGED doneAt
    BY <2>1, SlotsKept DEF Holding
  <2>2. CASE future[cancelCall[c].job] = "pending" /\ CallbacksDue({cancelCall[c].job})
    <3>1. Holding' = Holding
      BY <1>b, <2>2, CallbacksKeepHolding
    <3>2. QED
      BY <3>1, SlotsKept
  <2>3. QED
    BY <2>1, <2>2
<1>2. TypeOK'
  <2>1. cancelCall' \in [Caller -> CancelCall]
    BY <1>a DEF TypeOK, CancelCall
  <2>2. doneAt' \in [Job -> DoneState]
    BY DEF CallbacksDue, TypeOK, DoneState
  <2>3. QED
    BY <1>1, <1>a, <2>1, <2>2 DEF TypeOK, FutureState
<1>3. JobOrder'
  <2>1. CASE UNCHANGED <<future, doneAt>>
    BY <1>a, <2>1 DEF TypeOK, JobOrder, FutureOrder, TableOrder, RunOrder, DeliveryOrder, Unqueued, InService, Settled
  <2>2. CASE /\ future[cancelCall[c].job] = "pending"
             /\ future' = [future EXCEPT ![cancelCall[c].job] = "cancelled"]
             /\ CallbacksDue({cancelCall[c].job})
    <3>1. \A i \in Job : doneAt'[i] = IF i = cancelCall[c].job /\ submitted[i] = "returned"
                                     THEN "due" ELSE doneAt[i]
      BY <2>2 DEF CallbacksDue
    <3>2. QED
      BY <1>a, <1>b, <2>2, <3>1 DEF TypeOK, JobOrder, FutureOrder, TableOrder, RunOrder, DeliveryOrder, Unqueued, InService, Settled
  <2>3. QED
    BY <2>1, <2>2
<1>4. QueueOrder'
  BY <1>a, QueueKept DEF TypeOK
<1>5. CallOrder' /\ ShutdownOrder'
  BY RunnerAssumption DEF TypeOK, CallOrder, ShutdownOrder, NoCall
<1>6. QED
  BY <1>1, <1>2, <1>3, <1>4, <1>5

LEMMA CancelKillKeeps ==
  ASSUME IInv, NEW c \in Caller, CancelKill(c) PROVE IInv'
<1> USE DEF IInv, CancelKill, CallStep, submitVars, tableVars, closeVars, futureVars, runVars, doneVars
<1>1. SlotAccounting' /\ capacity' \in 0..MaxPending
  <2>1. Holding' = Holding
    BY DEF Holding, TypeOK
  <2>2. QED
    BY <2>1, SlotsKept
<1>2. TypeOK'
  <2>1. cancelCall' \in [Caller -> CancelCall]
    <3>1. cancelCall[c].todo \in SUBSET Job
      BY DEF TypeOK, CancelCall
    <3>2. QED
      BY <3>1 DEF TypeOK, CancelCall, NoCall
  <2>2. QED
    BY <1>1, <2>1 DEF TypeOK
<1>3. JobOrder'
  BY DEF TypeOK, JobOrder, FutureOrder, TableOrder, RunOrder, DeliveryOrder, Unqueued, InService, ShutdownOrder, Settled
<1>4. QueueOrder'
  BY QueueKept
<1>5. CallOrder' /\ ShutdownOrder'
  BY RunnerAssumption DEF TypeOK, CallOrder, ShutdownOrder, NoCall
<1>6. QED
  BY <1>1, <1>2, <1>3, <1>4, <1>5

LEMMA CancelReturnKeeps ==
  ASSUME IInv, NEW c \in Caller, CancelReturn(c) PROVE IInv'
<1> USE DEF IInv, CancelReturn, CallStep, submitVars, tableVars, closeVars, futureVars, runVars, doneVars
<1>1. SlotAccounting' /\ capacity' \in 0..MaxPending
  <2>1. Holding' = Holding
    BY DEF Holding, TypeOK
  <2>2. QED
    BY <2>1, SlotsKept
<1>2. TypeOK'
  <2>1. cancelCall' \in [Caller -> CancelCall]
    BY NoCallTyped DEF TypeOK
  <2>2. QED
    BY <1>1, <2>1 DEF TypeOK
<1>3. JobOrder'
  BY DEF TypeOK, JobOrder, FutureOrder, TableOrder, RunOrder, DeliveryOrder, Unqueued, InService, ShutdownOrder, Settled
<1>4. QueueOrder'
  BY QueueKept
<1>5. CallOrder' /\ ShutdownOrder'
  BY RunnerAssumption DEF TypeOK, CallOrder, ShutdownOrder, NoCall
<1>6. QED
  BY <1>1, <1>2, <1>3, <1>4, <1>5

LEMMA ShutdownBeginKeeps ==
  ASSUME IInv, ShutdownBegin PROVE IInv'
<1> USE DEF IInv, ShutdownBegin, submitVars, tableVars, closeVars, futureVars, runVars, doneVars
<1>1. SlotAccounting' /\ capacity' \in 0..MaxPending
  <2>1. Holding' = Holding
    BY DEF Holding, TypeOK
  <2>2. QED
    BY <2>1, SlotsKept
<1>2. TypeOK'
  BY <1>1 DEF TypeOK, SubmitState, FutureState, OperationState, Outcome, DoneState
<1>3. JobOrder'
  BY DEF TypeOK, JobOrder, FutureOrder, TableOrder, RunOrder, DeliveryOrder, Unqueued, InService, ShutdownOrder, Settled
<1>4. QueueOrder'
  BY QueueKept
<1>5. CallOrder' /\ ShutdownOrder'
  BY DEF CallOrder, ShutdownOrder
<1>6. QED
  BY <1>1, <1>2, <1>3, <1>4, <1>5

LEMMA ShutdownCancelAllKeeps ==
  ASSUME IInv, ShutdownCancelAll PROVE IInv'
<1> USE DEF IInv, ShutdownCancelAll, submitVars, tableVars, closeVars, futureVars, runVars, doneVars
<1>1. SlotAccounting' /\ capacity' \in 0..MaxPending
  <2>1. Holding' = Holding
    BY DEF Holding, TypeOK
  <2>2. QED
    BY <2>1, SlotsKept
<1>2. TypeOK'
  <2>1. cancelCall' \in [Caller -> CancelCall]
    BY DEF TypeOK, CancelCall, NoCall
  <2>2. QED
    BY <1>1, <2>1 DEF TypeOK
<1>3. JobOrder'
  BY DEF TypeOK, JobOrder, FutureOrder, TableOrder, RunOrder, DeliveryOrder, Unqueued, InService, ShutdownOrder, Settled
<1>4. QueueOrder'
  BY QueueKept
<1>5. CallOrder' /\ ShutdownOrder'
  BY RunnerAssumption DEF TypeOK, CallOrder, ShutdownOrder, NoCall
<1>6. QED
  BY <1>1, <1>2, <1>3, <1>4, <1>5

LEMMA ShutdownExecutorKeeps ==
  ASSUME IInv, ShutdownExecutor PROVE IInv'
<1> USE DEF IInv, ShutdownExecutor, submitVars, tableVars, closeVars, futureVars, runVars, doneVars
<1> DEFINE dropped == {j \in Queued : future[j] = "pending"}
<1>a. \A i \in dropped \intersect Job : doneAt[i] = "none" /\ future[i] = "pending"
  BY DEF TypeOK, JobOrder, FutureOrder, Settled, DoneState
<1>b. \A i \in Job : future'[i] = IF i \in dropped THEN "cancelled" ELSE future[i]
  OBVIOUS
<1>c. \A i \in Job : doneAt'[i] = IF i \in dropped /\ submitted[i] = "returned" THEN "due" ELSE doneAt[i]
  BY DEF CallbacksDue
<1> HIDE DEF dropped
<1>1. SlotAccounting' /\ capacity' \in 0..MaxPending
  <2>1. Holding' = Holding
    BY <1>a, <1>c DEF Holding
  <2>2. QED
    BY <2>1, SlotsKept
<1>2. TypeOK'
  <2>1. doneAt' \in [Job -> DoneState] /\ future' \in [Job -> FutureState]
    BY DEF CallbacksDue, TypeOK, DoneState, FutureState
  <2>2. workQueue' \in Seq(Job)
    OBVIOUS
  <2>3. QED
    BY <1>1, <2>1, <2>2 DEF TypeOK
<1>3. JobOrder'
  BY <1>a, <1>b, <1>c DEF TypeOK, JobOrder, FutureOrder, TableOrder, RunOrder, DeliveryOrder, Unqueued, InService, Settled
<1>4. QueueOrder'
  BY DEF QueueOrder
<1>5. CallOrder' /\ ShutdownOrder'
  BY DEF CallOrder, ShutdownOrder
<1>6. QED
  BY <1>1, <1>2, <1>3, <1>4, <1>5

-----------------------------------------------------------------------------
(* The invariant *)

LEMMA NextKeeps == IInv /\ [Next]_vars => IInv'
<1> SUFFICES ASSUME IInv, [Next]_vars PROVE IInv'
  OBVIOUS
<1>1. ASSUME NEW j \in Job, SubmitCheck(j) \/ SubmitGoesOn(j) PROVE IInv'
  BY <1>1, SubmitCheckKeeps, SubmitAcquireKeeps, SubmitRegisterKeeps, SubmitEnqueueKeeps,
     SubmitRecordKeeps, SubmitAttachKeeps DEF SubmitGoesOn
<1>2. ASSUME NEW j \in Job, Execute(j) \/ WaitTimesOut(j) \/ ProcessExits(j) PROVE IInv'
  BY <1>2, OperationReturnsKeeps, OperationFailsKeeps, OperationCancelledKeeps,
     OperationCatchesKeeps, RunProcessKeeps, RegisterProcessKeeps, WaitSeesCancelKeeps,
     WaitSeesExitKeeps, WaitTimesOutKeeps, ProcessExitsKeeps DEF Execute
<1>3. ASSUME NEW j \in Job, Done(j) PROVE IInv'
  BY <1>3, DonePopKeeps, DoneReleaseKeeps, DoneDispatchKeeps DEF Done
<1>4. ASSUME NEW c \in Caller, CancelStep(c) PROVE IInv'
  BY <1>4, CancelSnapshotKeeps, CancelSetKeeps, CancelKillKeeps, CancelReturnKeeps
  DEF CancelStep
<1>5. CASE CancelAll \/ Cancel
  <2>1. cancelEvents \in SUBSET Job
    BY DEF IInv, TypeOK
  <2>2. QED
    BY <1>5, <2>1, CancelBeginKeeps DEF CancelAll, Cancel
<1>6. CASE ShutdownBegin \/ Shutdown
  BY <1>6, ShutdownBeginKeeps, ShutdownCancelAllKeeps, ShutdownExecutorKeeps DEF Shutdown
<1>7. CASE UNCHANGED vars
  <2> USE DEF vars, submitVars, tableVars, closeVars, futureVars, runVars, doneVars
  <2>1. SlotAccounting'
    <3>1. Holding' = Holding
      BY <1>7 DEF Holding
    <3>2. QED
      BY <1>7, <3>1 DEF IInv, SlotAccounting
  <2>2. TypeOK' /\ QueueOrder' /\ CallOrder' /\ ShutdownOrder'
    BY <1>7 DEF IInv, TypeOK, QueueOrder, CallOrder, ShutdownOrder
  <2>3. JobOrder'
    BY <1>7 DEF IInv, JobOrder, FutureOrder, TableOrder, RunOrder, DeliveryOrder, Settled
  <2>4. QED
    BY <2>1, <2>2, <2>3 DEF IInv
<1>8. QED
  BY <1>1, <1>2, <1>3, <1>4, <1>5, <1>6, <1>7, WorkerTakeKeeps DEF Next, Terminated

LEMMA Invariance == Spec => []IInv
<1>1. Init => IInv
  BY InitEstablishes
<1>2. IInv /\ [Next]_vars => IInv'
  BY NextKeeps
<1>3. QED
  BY <1>1, <1>2, PTL DEF Spec

\* Every variable keeps its type; the free slots stay between 0 and the bound.
THEOREM TypeCorrect == Spec => []TypeOK
<1>1. IInv => TypeOK
  BY DEF IInv
<1>2. QED
  BY <1>1, Invariance, PTL

\* The semaphore counts exactly the slots no job holds, in every interleaving of submit(),
\* done(), cancel() and shutdown().
THEOREM SlotAccountingHolds == Spec => []SlotAccounting
<1>1. IInv => SlotAccounting
  BY DEF IInv
<1>2. QED
  BY <1>1, Invariance, PTL

\* After its callback's critical section a job is in no table of the runner, for good.
THEOREM NoStaleEntryHolds == Spec => []NoStaleEntry
<1>1. IInv => NoStaleEntry
  BY DEF IInv, TypeOK, NoStaleEntry, JobOrder, FutureOrder, TableOrder, RunOrder, Settled
<1>2. QED
  BY <1>1, Invariance, PTL

\* No process is alive without a running operation inside run_process to look after it.
THEOREM ProcessIsWatchedHolds == Spec => []ProcessIsWatched
<1>1. IInv => ProcessIsWatched
  BY DEF IInv, ProcessIsWatched, JobOrder, RunOrder
<1>2. QED
  BY <1>1, Invariance, PTL

\* A completion is dispatched at most once, and only after the job's slot was returned.
THEOREM DeliveredOnceAndFreeHolds == Spec => []DeliveredOnceAndFree
<1>1. IInv => DeliveredOnceAndFree
  BY DEF IInv, DeliveredOnceAndFree, JobOrder, DeliveryOrder, Holding
<1>2. QED
  BY <1>1, Invariance, PTL

\* A job is reported as cancelled only for a reason, and a cancelled future never ran.
THEOREM CancelledHasCauseHolds == Spec => []CancelledHasCause
<1>1. IInv => CancelledHasCause
  BY DEF IInv, TypeOK, OperationState, CancelledHasCause, JobOrder, RunOrder
<1>2. QED
  BY <1>1, Invariance, PTL

-----------------------------------------------------------------------------
(* The refinement of JobService *)

\* The jobs the service calls live hold a slot each.
LEMMA LiveHolds ==
  ASSUME IInv
  PROVE  /\ Service!Live = {j \in Holding : submitted[j] # "leaked"}
         /\ IsFiniteSet(Holding) /\ Cardinality(Holding) \in Nat
         /\ Cardinality(Service!Live) <= Cardinality(Holding)
         /\ ~closing => Service!Live = Holding
<1>1. Service!Live = {j \in Holding : submitted[j] # "leaked"}
  BY DEF Service!Live, JobStatus, StatusOf, Holding, IInv, TypeOK, SubmitState, JobOrder, FutureOrder
<1>2. IsFiniteSet(Holding)
  BY RunnerAssumption, FS_Subset DEF Holding
<1>3. Cardinality(Holding) \in Nat /\ Cardinality(Service!Live) <= Cardinality(Holding)
  BY <1>1, <1>2, FS_CardinalityType, FS_Subset
<1>4. ~closing => Service!Live = Holding
  BY <1>1 DEF IInv, JobOrder, FutureOrder, Holding
<1>5. QED
  BY <1>1, <1>2, <1>3, <1>4

\* A step that changes the status of one job and of no other.
LEMMA StatusBecomes ==
  ASSUME NEW j \in Job, NEW new, StatusOf(j)' = new,
         \A i \in Job : i # j => StatusOf(i)' = StatusOf(i)
  PROVE  JobStatus' = [JobStatus EXCEPT ![j] = new]
BY DEF JobStatus

\* A step that changes nothing the status is read from.
LEMMA StatusKept ==
  ASSUME \A i \in Job : StatusOf(i)' = StatusOf(i)
  PROVE  JobStatus' = JobStatus
BY DEF JobStatus

\* Steps that change nothing the status is read from.
LEMMA OtherStepsKeepStatus ==
  ASSUME UNCHANGED <<submitted, shouldDispatch, delivered, Holding>>
  PROVE  JobStatus' = JobStatus
<1>1. \A i \in Job : StatusOf(i)' = StatusOf(i)
  BY DEF StatusOf
<1>2. QED
  BY <1>1, StatusKept

\* The instance has a Cardinality of its own, which is the same operator.
LEMMA ServiceCardinality == \A S : Service!Cardinality(S) = Cardinality(S)
BY Zenon DEF Service!Cardinality, Cardinality

LEMMA SubmitRefines ==
  ASSUME IInv, NEW j \in Job, SubmitCheck(j) \/ SubmitGoesOn(j)
  PROVE  Service!Next \/ UNCHANGED <<JobStatus, closing>>
<1> USE DEF IInv, submitVars, tableVars, closeVars, futureVars, runVars, doneVars
<1>1. \A i \in Job : i # j => submitted'[i] = submitted[i] /\ doneAt'[i] = doneAt[i]
  BY DEF TypeOK, SubmitCheck, SubmitGoesOn, SubmitAcquire, SubmitRegister, SubmitEnqueue,
         SubmitRecord, SubmitAttach
<1>2. UNCHANGED <<closing, shouldDispatch, delivered>>
  BY DEF SubmitCheck, SubmitGoesOn, SubmitAcquire, SubmitRegister, SubmitEnqueue,
         SubmitRecord, SubmitAttach
<1>3. \A i \in Job : i # j => StatusOf(i)' = StatusOf(i)
  BY <1>1, <1>2 DEF StatusOf, Holding
<1>4. JobStatus[j] = StatusOf(j)
  BY DEF JobStatus
<1>5. doneAt[j] # "none" => submitted[j] = "returned"
  BY DEF JobOrder, FutureOrder
<1>6. CASE StatusOf(j)' = StatusOf(j)
  BY <1>2, <1>3, <1>6, StatusKept
<1>7. CASE submitted[j] = "new" /\ submitted'[j] = "refused" /\ closing
  <2>1. StatusOf(j) = "new" /\ StatusOf(j)' = "refused"
    BY <1>7 DEF StatusOf
  <2>2. Service!Refuse(j)
    BY <1>2, <1>3, <1>4, <1>7, <2>1, StatusBecomes DEF Service!Refuse, Service!Become
  <2>3. QED
    BY <2>2 DEF Service!Next
<1>8. CASE submitted[j] = "checked" /\ submitted'[j] = "full" /\ capacity = 0
  <2>1. StatusOf(j) = "new" /\ StatusOf(j)' = "refused"
    BY <1>8 DEF StatusOf
  <2>2. closing \/ Cardinality(Service!Live) = MaxPending
    BY <1>8, LiveHolds DEF SlotAccounting
  <2>3. Service!Become(j, "new", "refused")
    BY <1>2, <1>3, <1>4, <2>1, StatusBecomes DEF Service!Become
  <2>4. Service!Refuse(j)
    BY <2>2, <2>3, ServiceCardinality DEF Service!Refuse
  <2>5. QED
    BY <2>4 DEF Service!Next
<1>9. CASE submitted[j] = "checked" /\ submitted'[j] = "acquired" /\ capacity > 0
  <2>1. StatusOf(j) = "new" /\ StatusOf(j)' = "live"
    BY <1>5, <1>8, <1>9 DEF StatusOf, Holding, SubmitAcquire, SubmitCheck, SubmitGoesOn,
       SubmitRegister, SubmitEnqueue, SubmitRecord, SubmitAttach
  <2>2. Cardinality(Service!Live) \in Nat /\ Cardinality(Service!Live) < MaxPending
    <3>1. IsFiniteSet(Service!Live)
      BY LiveHolds, FS_Subset
    <3>2. Cardinality(Holding) < MaxPending
      BY <1>9, LiveHolds, RunnerAssumption DEF SlotAccounting, TypeOK
    <3>3. QED
      BY <3>1, <3>2, LiveHolds, FS_CardinalityType, RunnerAssumption
  <2>3. Service!Become(j, "new", "live")
    BY <1>2, <1>3, <1>4, <2>1, StatusBecomes DEF Service!Become
  <2>4. Service!Accept(j)
    BY <2>2, <2>3, ServiceCardinality DEF Service!Accept
  <2>5. QED
    BY <2>4 DEF Service!Next
<1>10. CASE submitted[j] = "registered" /\ submitted'[j] = "leaked" /\ shutdownAt = "down"
  <2>1. closing
    BY <1>10 DEF ShutdownOrder
  <2>2. StatusOf(j) = "live" /\ StatusOf(j)' = "refused"
    BY <1>5, <1>10 DEF StatusOf, Holding
  <2>3. Service!Refuse(j)
    BY <1>2, <1>3, <1>4, <2>1, <2>2, StatusBecomes DEF Service!Refuse, Service!Become
  <2>4. QED
    BY <2>3 DEF Service!Next
<1>11. QED
  <2>1. CASE SubmitCheck(j)
    BY <2>1, <1>6, <1>7 DEF SubmitCheck, StatusOf, TypeOK
  <2>2. CASE SubmitAcquire(j)
    BY <2>2, <1>8, <1>9 DEF SubmitAcquire, TypeOK
  <2>3. CASE SubmitEnqueue(j)
    <3>1. CASE submitted'[j] = "queued"
      <4>1. StatusOf(j)' = StatusOf(j)
        BY <1>2, <1>5, <2>3, <3>1 DEF SubmitEnqueue, StatusOf, Holding
      <4>2. QED
        BY <4>1, <1>6
    <3>2. CASE submitted'[j] = "leaked"
      BY <2>3, <3>2, <1>10 DEF SubmitEnqueue, TypeOK
    <3>3. QED
      BY <2>3, <3>1, <3>2 DEF SubmitEnqueue, TypeOK
  <2>4. CASE SubmitRegister(j) \/ SubmitRecord(j) \/ SubmitAttach(j)
    <3>1. StatusOf(j)' = StatusOf(j)
      BY <1>2, <1>5, <2>4 DEF SubmitRegister, SubmitRecord, SubmitAttach, StatusOf, Holding,
                              TypeOK
    <3>2. QED
      BY <3>1, <1>6
  <2>5. QED
    BY <2>1, <2>2, <2>3, <2>4 DEF SubmitGoesOn

LEMMA DoneRefines ==
  ASSUME IInv, NEW j \in Job, Done(j)
  PROVE  Service!Next \/ UNCHANGED <<JobStatus, closing>>
<1> USE DEF IInv, submitVars, tableVars, closeVars, futureVars, runVars, doneVars
<1>1. JobStatus[j] = StatusOf(j) /\ (doneAt[j] # "none" => submitted[j] = "returned")
  BY DEF JobStatus, JobOrder, FutureOrder
<1>2. CASE DonePop(j)
  <2>1. \A i \in Job : i \in Holding' <=> i \in Holding
    BY <1>2 DEF DonePop, Holding, TypeOK
  <2>2. j \in Holding
    BY <1>1, <1>2 DEF DonePop, Holding
  <2>3. \A i \in Job : StatusOf(i)' = StatusOf(i)
    BY <1>1, <1>2, <2>1, <2>2 DEF DonePop, StatusOf, TypeOK
  <2>4. QED
    BY <1>2, <2>3, StatusKept DEF DonePop
<1>3. CASE DoneRelease(j)
  <2>1. \A i \in Job : i # j => StatusOf(i)' = StatusOf(i)
    BY <1>3 DEF DoneRelease, StatusOf, Holding, TypeOK
  <2>2. StatusOf(j) = "live"
    BY <1>1, <1>3 DEF DoneRelease, StatusOf, Holding
  <2>3. delivered[j] = 0 /\ (shouldDispatch[j] \/ closing)
    BY <1>3 DEF DoneRelease, TypeOK, JobOrder, DeliveryOrder
  <2>4. CASE shouldDispatch[j]
    <3>1. StatusOf(j)' = "owed"
      BY <1>1, <1>3, <2>4 DEF DoneRelease, StatusOf, Holding, TypeOK
    <3>2. Service!Complete(j)
      BY <1>1, <1>3, <2>1, <2>2, <3>1, StatusBecomes
      DEF DoneRelease, Service!Complete, Service!Become
    <3>3. QED
      BY <3>2 DEF Service!Next
  <2>5. CASE ~shouldDispatch[j]
    <3>1. StatusOf(j)' = "dropped"
      BY <1>1, <1>3, <2>3, <2>5 DEF DoneRelease, StatusOf, Holding, TypeOK
    <3>2. Service!Drop(j)
      BY <1>1, <1>3, <2>1, <2>2, <2>3, <2>5, <3>1, StatusBecomes
      DEF DoneRelease, Service!Drop, Service!Become
    <3>3. QED
      BY <3>2 DEF Service!Next
  <2>6. QED
    BY <2>4, <2>5
<1>4. CASE DoneDispatch(j)
  <2>1. \A i \in Job : i # j => StatusOf(i)' = StatusOf(i)
    BY <1>4 DEF DoneDispatch, StatusOf, Holding, TypeOK
  <2>2. delivered[j] = 0 /\ j \notin Holding /\ j \notin Holding' /\ ~shouldDispatch'[j]
    BY <1>4 DEF DoneDispatch, TypeOK, JobOrder, DeliveryOrder, Holding
  <2>3. CASE shouldDispatch[j]
    <3>1. StatusOf(j) = "owed" /\ StatusOf(j)' = "delivered"
      BY <1>1, <1>4, <2>2, <2>3 DEF DoneDispatch, StatusOf, TypeOK
    <3>2. Service!Deliver(j)
      BY <1>1, <1>4, <2>1, <3>1, StatusBecomes DEF DoneDispatch, Service!Deliver, Service!Become
    <3>3. QED
      BY <3>2 DEF Service!Next
  <2>4. CASE ~shouldDispatch[j]
    <3>1. StatusOf(j)' = StatusOf(j)
      BY <1>1, <1>4, <2>2, <2>4 DEF DoneDispatch, StatusOf, TypeOK
    <3>2. QED
      BY <1>4, <2>1, <3>1, StatusKept DEF DoneDispatch
  <2>5. QED
    BY <2>3, <2>4
<1>5. QED
  BY <1>2, <1>3, <1>4 DEF Done

\* The other steps of Next: the status of no job changes, and only shutdown() closes.
LEMMA OthersRefine ==
  ASSUME IInv, [Next]_vars,
         ~ \E j \in Job : SubmitCheck(j) \/ SubmitGoesOn(j) \/ Done(j)
  PROVE  Service!Next \/ UNCHANGED <<JobStatus, closing>>
<1> USE DEF IInv, submitVars, tableVars, closeVars, futureVars, runVars, doneVars
<1>1. ASSUME NEW j \in Job, Execute(j) \/ WaitTimesOut(j) \/ ProcessExits(j)
      PROVE  UNCHANGED <<submitted, shouldDispatch, delivered, closing>>
  BY <1>1 DEF Execute, OperationReturns, OperationFails, OperationCancelled, EndWith,
     OperationCatches, RunProcess, RegisterProcess, WaitSeesCancel, WaitSeesExit,
     WaitTimesOut, WaitEnds, OperationStep, ProcessExits
<1>2. ASSUME NEW j \in Job, Execute(j) \/ WaitTimesOut(j) \/ ProcessExits(j)
      PROVE  UNCHANGED doneAt \/ (doneAt[j] = "none" /\ CallbacksDue({j}))
  <2>1. CASE operation[j] \in {"compute", "raised"} /\ \E o \in Outcome : EndWith(j, o)
    BY <2>1, RunningJob DEF EndWith
  <2>2. CASE UNCHANGED doneAt
    BY <2>2
  <2>3. QED
    BY <1>2, <2>1, <2>2 DEF Execute, OperationReturns, OperationFails, OperationCancelled,
       OperationCatches, RunProcess, RegisterProcess, WaitSeesCancel, WaitSeesExit,
       WaitTimesOut, WaitEnds, OperationStep, ProcessExits, Outcome
<1>3. ASSUME NEW j \in Job, Execute(j) \/ WaitTimesOut(j) \/ ProcessExits(j)
      PROVE  UNCHANGED <<JobStatus, closing>>
  <2>1. Holding' = Holding
    <3>1. CASE UNCHANGED doneAt
      BY <1>1, <1>3, <3>1 DEF Holding
    <3>2. CASE doneAt[j] = "none" /\ CallbacksDue({j})
      BY <1>1, <1>3, <3>2, CallbacksKeepHolding
    <3>3. QED
      BY <1>2, <1>3, <3>1, <3>2
  <2>2. QED
    BY <1>1, <1>3, <2>1, OtherStepsKeepStatus
<1>4. ASSUME NEW c \in Caller, CancelStep(c)
      PROVE  UNCHANGED <<JobStatus, closing>>
  <2>1. UNCHANGED <<submitted, shouldDispatch, delivered, closing>>
    BY <1>4 DEF CancelStep, CancelSnapshot, CancelSet, CancelKill, CancelReturn, CallStep
  <2>2. CASE UNCHANGED doneAt
    BY <2>1, <2>2, OtherStepsKeepStatus DEF Holding
  <2>3. CASE \E i \in Job : future[i] = "pending" /\ CallbacksDue({i})
    <3>1. PICK i \in Job : future[i] = "pending" /\ CallbacksDue({i})
      BY <2>3
    <3>2. doneAt[i] = "none"
      BY <3>1 DEF TypeOK, DoneState, JobOrder, FutureOrder, Settled
    <3>3. Holding' = Holding
      BY <2>1, <3>1, <3>2, CallbacksKeepHolding
    <3>4. QED
      BY <2>1, <3>3, OtherStepsKeepStatus
  <2>4. QED
    BY <1>4, <2>2, <2>3
    DEF CancelStep, CancelSnapshot, CancelSet, CancelKill, CancelReturn, CallOrder
<1>5. CASE CancelAll \/ Cancel \/ WorkerTake \/ ShutdownCancelAll \/ UNCHANGED vars
  <2>1. UNCHANGED <<submitted, shouldDispatch, delivered, closing, doneAt>>
    BY <1>5 DEF CancelAll, Cancel, CancelBegin, CallStep, WorkerTake, ShutdownCancelAll, vars
  <2>2. QED
    BY <2>1, OtherStepsKeepStatus DEF Holding
<1>6. CASE ShutdownExecutor
  <2>1. UNCHANGED <<submitted, shouldDispatch, delivered, closing>>
    BY <1>6 DEF ShutdownExecutor
  <2>2. PICK js : CallbacksDue(js) /\ \A i \in Job : i \in js => future[i] = "pending"
    BY <1>6 DEF ShutdownExecutor
  <2>3. \A i \in Job : i \in js => doneAt[i] = "none"
    BY <2>2 DEF TypeOK, DoneState, JobOrder, FutureOrder, Settled
  <2>4. Holding' = Holding
    BY <2>1, <2>2, <2>3, CallbacksKeepHolding
  <2>5. QED
    BY <2>1, <2>4, OtherStepsKeepStatus
<1>7. CASE ShutdownBegin
  <2>1. JobStatus' = JobStatus
    BY <1>7, OtherStepsKeepStatus DEF ShutdownBegin, Holding
  <2>2. Service!Close
    BY <1>7, <2>1 DEF ShutdownBegin, Service!Close
  <2>3. QED
    BY <2>2 DEF Service!Next
<1>8. QED
  BY <1>3, <1>4, <1>5, <1>6, <1>7 DEF Next, Shutdown, Terminated

\* The runner keeps the promises of JobService: it accepts no more jobs than it has slots,
\* loses no completion while it is open, and hands none over twice.
THEOREM Implements == Spec => ImplementsService
<1>1. Init => Service!Init
  BY DEF Init, Service!Init, JobStatus, StatusOf
<1>2. IInv /\ [Next]_vars => [Service!Next]_<<JobStatus, closing>>
  BY SubmitRefines, DoneRefines, OthersRefine
<1>3. QED
  BY <1>1, <1>2, Invariance, PTL DEF Spec, ImplementsService, Service!Spec

=============================================================================
