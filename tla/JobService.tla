------------------------------ MODULE JobService ------------------------------
(***************************************************************************)
(* What AsyncJobRunner (async_jobs.py) promises to the user interface that  *)
(* submits jobs to it, whatever threads, futures and processes it is made   *)
(* of: a bounded number of accepted jobs, no completion handed over twice,  *)
(* and no completion lost unless the service has been closed.               *)
(***************************************************************************)
EXTENDS Integers, FiniteSets

CONSTANTS Job, MaxPending

VARIABLES
  status,  \* what the submitter knows or will know of each job
  closed   \* shutdown() has begun

Status == {"new", "refused", "live", "owed", "delivered", "dropped"}

Live == {j \in Job : status[j] = "live"}

TypeOK == status \in [Job -> Status] /\ closed \in BOOLEAN

Init == status = [j \in Job |-> "new"] /\ closed = FALSE

Become(j, from, to) ==
  /\ status[j] = from
  /\ status' = [status EXCEPT ![j] = to]
  /\ UNCHANGED closed

Accept(j) == Cardinality(Live) < MaxPending /\ Become(j, "new", "live")

\* A job is refused for want of a slot, or because the service is closed; the second may
\* be noticed after the slot was taken.
Refuse(j) == \/ (closed \/ Cardinality(Live) = MaxPending) /\ Become(j, "new", "refused")
             \/ closed /\ Become(j, "live", "refused")

\* The job has given back its slot and its completion is on its way to the submitter.
Complete(j) == Become(j, "live", "owed")

Deliver(j) == Become(j, "owed", "delivered")

\* Only a closed service forgets a completion.
Drop(j) == closed /\ Become(j, "live", "dropped")

Close == ~closed /\ closed' = TRUE /\ UNCHANGED status

Next == \/ \E j \in Job : Accept(j) \/ Refuse(j) \/ Complete(j) \/ Deliver(j) \/ Drop(j)
        \/ Close

Spec == Init /\ [][Next]_<<status, closed>>

=============================================================================
