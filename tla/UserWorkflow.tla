----------------------------- MODULE UserWorkflow -----------------------------
(***************************************************************************)
(* UserWorkflowSession of user_workflow.py under UserWorkflowApp of          *)
(* user_workflow_app.py: what the operator does with the buttons that are    *)
(* enabled, while the jobs those buttons start come back one by one.         *)
(*                                                                          *)
(* Every handler runs on the UI thread, from the first line to the last, and *)
(* ends in _render(), which enables the buttons; a completion is a handler   *)
(* that _drain_completions takes from a queue. The jobs run meanwhile, for   *)
(* as long as they like. Of the runner only what JobService promises is used. *)
(***************************************************************************)
EXTENDS Integers, Sequences, FiniteSets

CONSTANTS
  Text,           \* the override texts that are not blank
  Blank,          \* the empty editor
  Plan,           \* the sweep plans
  Route,          \* a subset of {"import", "packet", "refresh", "sweep", "automated"}: what is used
  MaxPending,     \* max_pending_jobs of the runner
  MaxGeneration,  \* bound: findings opened and sessions reset
  MaxJobs         \* bound: jobs submitted

ASSUME WorkflowAssumption ==
  /\ Blank \notin Text
  /\ Route \subseteq {"import", "packet", "refresh", "sweep", "automated"}
  /\ MaxPending \in Nat /\ MaxGeneration \in Nat /\ MaxJobs \in Nat

VARIABLES
  session,      \* the UserWorkflowSession
  plan,         \* the text of the sweep plan
  fullOpened,   \* _candidate_full_frame_opened
  validated,    \* _sweep_validation_binding
  jobId,        \* _sweep_job_id and _automated_job_id
  work,         \* the jobs in the runner, _busy_kinds, and the number of the next job
  completions,  \* _completion_queue
  pump,         \* whether _drain_completions still comes round
  closed,       \* _closed
  reviews,      \* the decisions written to review-decision.json of each proof
  launches,     \* the viewers started for each proof
  receipts,     \* the proofs that have a launch.json
  drifted       \* the proofs whose packet, files or runtime are no longer those proven

viewVars == <<plan, fullOpened, validated, jobId>>
jobVars  == <<work, completions, pump>>
diskVars == <<reviews, launches, receipts>>
vars == <<session, viewVars, jobVars, closed, diskVars, drifted>>

JobNumber == 1..MaxJobs
None == 0

SessionState == {"EMPTY", "FINDING_READY", "PACKET_READY", "OVERRIDE_DIRTY", "PROVING",
                 "VISUAL_REVIEW_PENDING", "REJECTED", "REVISION_NEEDED", "LAUNCH_READY"}

\* What the identity of a job, JobRequestIdentity, is made of: each kind binds some of it.
Binding ==
  [generation |-> session.generation, finding |-> session.finding,
   bundle |-> session.bundle, text |-> session.text, plan |-> plan,
   candidate |-> session.proof.id]

IdentityOf ==
  [finding_import    |-> {"generation"},
   packet_load       |-> {"generation"},
   base_preview      |-> {"generation", "finding"},
   bundle            |-> {"generation", "finding"},
   proof             |-> {"generation", "finding", "bundle", "text"},
   candidate_preview |-> {"generation", "bundle", "text", "candidate"},
   sweep_validation  |-> {"generation", "finding", "bundle", "text", "plan"},
   scalar_sweep      |-> {"generation", "finding", "bundle", "text", "plan"},
   automated_session |-> {"generation", "bundle"},
   research_question |-> {"generation", "finding", "bundle"}]

Kind == DOMAIN IdentityOf
SweepKind == {"sweep_validation", "scalar_sweep"}

Nothing == [f \in {} |-> None]
NoProof == [id |-> None, status |-> "none", identity |-> Nothing]

Init ==
  /\ session = [generation |-> 0, state |-> "EMPTY", finding |-> None, bundle |-> None,
                text |-> Blank, proof |-> NoProof, preview |-> None, decision |-> "none"]
  /\ plan \in Plan /\ fullOpened = FALSE /\ validated = Nothing
  /\ jobId = [sweep |-> None, automated |-> None]
  /\ work = [running |-> {}, busy |-> {}, next |-> 1]
  /\ completions = <<>> /\ pump = "on" /\ closed = FALSE
  /\ reviews = [p \in JobNumber |-> <<>>] /\ launches = [p \in JobNumber |-> 0]
  /\ receipts = {} /\ drifted = {}

-----------------------------------------------------------------------------
(* UserWorkflowSession *)

UnprovenState(s) ==
  IF s.bundle # None THEN IF s.text # Blank THEN "OVERRIDE_DIRTY" ELSE "PACKET_READY"
  ELSE IF s.finding # None THEN "FINDING_READY" ELSE "EMPTY"

InvalidateProof(s) ==
  [s EXCEPT !.proof = NoProof, !.preview = None, !.decision = "none"]

\* The proof is dropped and the label is that of what is left.
Unproven(s) == [InvalidateProof(s) EXCEPT !.state = UnprovenState(s)]

BeginFindingChange(s) ==
  Unproven([s EXCEPT !.generation = @ + 1, !.finding = None, !.bundle = None])

AcceptFinding(s, finding) ==
  [InvalidateProof(s) EXCEPT !.finding = finding, !.bundle = None, !.state = "FINDING_READY"]

AcceptBundle(s, bundle) == Unproven([s EXCEPT !.bundle = bundle])

\* Mutant: a new text leaves the proof of the old one.
SetOverrideTextKeepsProof(s, text) == [s EXCEPT !.text = text]

\* The same text changes nothing.
SetOverrideText(s, text) ==
  IF text = s.text THEN s ELSE Unproven([s EXCEPT !.text = text])

\* Mutant: the result of the proof before stays until the new one is there.
BeginProofKeepsResult(s) == [s EXCEPT !.state = "PROVING"]

BeginProof(s) == [InvalidateProof(s) EXCEPT !.state = "PROVING"]

\* The candidate preview stays as it is.
AcceptProofResult(s, c, status) ==
  [s EXCEPT !.proof = [id |-> c.id, status |-> status, identity |-> c.identity], !.decision = "none",
            !.state = IF status = "replay_proven" THEN "VISUAL_REVIEW_PENDING" ELSE "REJECTED"]

Reset(s) == BeginFindingChange([s EXCEPT !.text = Blank])

-----------------------------------------------------------------------------
(* The runner, as JobService describes it *)

\* Mutant: a refused submission leaves its kind busy.
SubmittedOrStillBusy(w, kind, binding) ==
  [running |-> IF Cardinality(w.running) = MaxPending THEN w.running
               ELSE w.running \union
                      {[id |-> w.next, kind |-> kind, cancelled |-> FALSE,
                        identity |-> [f \in IdentityOf[kind] |-> binding[f]]]},
   busy |-> w.busy \union {kind}, next |-> w.next + 1]

\* Mutant: a job is taken without a free slot.
SubmittedWithoutSlot(w, kind, binding) ==
  [running |-> w.running \union
                 {[id |-> w.next, kind |-> kind, cancelled |-> FALSE,
                   identity |-> [f \in IdentityOf[kind] |-> binding[f]]]},
   busy |-> w.busy \union {kind}, next |-> w.next + 1]

\* _submit(): the kind is busy, unless the runner refuses the job.
Submitted(w, kind, binding) ==
  IF Cardinality(w.running) < MaxPending
  THEN [running |-> w.running \union
                      {[id |-> w.next, kind |-> kind, cancelled |-> FALSE,
                        identity |-> [f \in IdentityOf[kind] |-> binding[f]]]},
        busy |-> w.busy \union {kind}, next |-> w.next + 1]
  ELSE [w EXCEPT !.busy = @ \ {kind}]

\* What _submit() returns: the job's id, or None.
SubmittedId == IF work'.next > work.next THEN work.next ELSE None

Cancelled(w, ids) ==
  [w EXCEPT !.running = {[j EXCEPT !.cancelled = @ \/ j.id \in ids] : j \in w.running}]

\* cancel_all() and _busy_kinds.clear(); what is cancelled goes on until it notices.
CancelAll(w) == [Cancelled(w, JobNumber) EXCEPT !.busy = {}]

\* Bound: the jobs in flight that are still wanted will find numbers for the jobs their
\* completions submit.
InFlight == work.running \union {completions[i] : i \in DOMAIN completions}
Wanted == {j \in InFlight : j.identity.generation = session.generation}
FollowUps ==
  2 * Cardinality({j \in Wanted : j.kind = "finding_import"})
    + Cardinality({j \in Wanted : j.kind \in {"packet_load", "proof"}})
Room(n) == work.next + FollowUps + n <= MaxJobs + 1

\* A job ends: what comes of it is up to the job, but only a cancelled one reports that.
\* A proof may end with a rejection. A runner that is closed delivers nothing.
Finish(j) ==
  /\ j \in work.running
  /\ work' = [work EXCEPT !.running = @ \ {j}]
  /\ \E outcome \in {"value", "error"} \union (IF j.cancelled THEN {"cancelled"} ELSE {})
                                      \union (IF j.kind = "proof" THEN {"rejected"} ELSE {}) :
       completions' = completions \o
                        (IF closed THEN <<>>
                         ELSE <<[id |-> j.id, kind |-> j.kind,
                                 identity |-> j.identity, outcome |-> outcome]>>)
  /\ UNCHANGED <<session, viewVars, pump, closed, diskVars, drifted>>

-----------------------------------------------------------------------------
(* _render(): which buttons are enabled *)

ProofBusy     == "proof" \in work.busy
SweepBusy     == work.busy \intersect SweepKind # {}
AutomatedBusy == "automated_session" \in work.busy
ResearchBusy  == "research_question" \in work.busy
WorkflowBusy  == SweepBusy \/ AutomatedBusy \/ ResearchBusy

ReplayProven == session.proof.status = "replay_proven"

\* The candidate has been shown and the decision on it is open.
Undecided ==
  ReplayProven /\ session.decision = "none" /\ (session.preview # None \/ fullOpened)

SweepBinding == [f \in IdentityOf["scalar_sweep"] |-> Binding[f]]

-----------------------------------------------------------------------------
(* Findings and packets *)

\* _clear_finding_views()
ClearFindingViews ==
  /\ fullOpened' = FALSE /\ validated' = Nothing
  /\ jobId' = [jobId EXCEPT !.sweep = None]
  /\ UNCHANGED plan

\* open_finding() and open_packet_path(). An existing packet brings its finding with it.
OpenFinding(kind) ==
  /\ ~closed /\ "finding_import" \notin work.busy /\ ~WorkflowBusy
  /\ session.generation < MaxGeneration
  /\ Room(IF kind = "finding_import" THEN 3 ELSE 2)
  /\ session' = BeginFindingChange(session)
  /\ ClearFindingViews
  /\ work' = Submitted(CancelAll(work), kind, [Binding EXCEPT !.generation = @ + 1])
  /\ UNCHANGED <<completions, pump, closed, diskVars, drifted>>

\* build_packet(), the Refresh Bundle button
BuildPacket ==
  /\ ~closed /\ session.finding # None /\ "bundle" \notin work.busy /\ ~WorkflowBusy
  /\ Room(1)
  /\ work' = Submitted(work, "bundle", Binding)
  /\ UNCHANGED <<session, viewVars, completions, pump, closed, diskVars, drifted>>

ResetSession ==
  /\ ~closed /\ session.generation < MaxGeneration
  /\ session' = Reset(session)
  /\ ClearFindingViews
  /\ work' = CancelAll(work)
  /\ UNCHANGED <<completions, pump, closed, diskVars, drifted>>

-----------------------------------------------------------------------------
(* Completions *)

\* Every completion first takes its kind off the busy ones, its own job or not.
Discarded(kind) == [work EXCEPT !.busy = @ \ {kind}]

\* The identity of the job is that of the session as it is now.
IsCurrent(c) == \A f \in DOMAIN c.identity : c.identity[f] = Binding[f]

\* The head of the queue is handled, if it is of this kind; a handler that raises takes
\* _drain_completions with it.
Handle(kind) ==
  /\ ~closed /\ pump = "on" /\ completions # <<>> /\ Head(completions).kind = kind
  /\ completions' = Tail(completions)
  /\ UNCHANGED <<plan, closed, diskVars, drifted>>

GoesOn == UNCHANGED pump
Raises == pump' = "stopped"

\* A completion that changes no more than the busy kinds: one that is not current, was
\* cancelled, or failed.
Ignore(kind) ==
  /\ work' = Discarded(kind) /\ GoesOn
  /\ UNCHANGED <<session, fullOpened, validated>>

\* _start_base_preview(): a finding may have no frame.
WithBasePreview(w, binding) == {w, Submitted(w, "base_preview", binding)}

FindingLoaded ==
  LET c == Head(completions)
      binding == [Binding EXCEPT !.finding = c.id, !.bundle = None] IN
  /\ Handle("finding_import")
  /\ \/ /\ IsCurrent(c) /\ c.outcome = "value"
        /\ session' = AcceptFinding(session, c.id)
        /\ \E w \in WithBasePreview(Discarded("finding_import"), binding) :
             work' = Submitted(w, "bundle", binding)
        /\ GoesOn /\ UNCHANGED <<fullOpened, validated>>
     \/ ~(IsCurrent(c) /\ c.outcome = "value") /\ Ignore("finding_import")
  /\ UNCHANGED jobId

\* _activate_bundle() reads the packet once more, and raises if it is not as it should be.
PacketLoaded ==
  LET c == Head(completions)
      binding == [Binding EXCEPT !.finding = c.id, !.bundle = None] IN
  /\ Handle("packet_load")
  /\ \/ /\ IsCurrent(c) /\ c.outcome = "value"
        /\ work' \in WithBasePreview(Discarded("packet_load"), binding)
        /\ \/ GoesOn /\ session' = AcceptBundle(AcceptFinding(session, c.id), c.id)
           \/ Raises /\ session' = AcceptFinding(session, c.id)
        /\ UNCHANGED <<fullOpened, validated>>
     \/ ~(IsCurrent(c) /\ c.outcome = "value") /\ Ignore("packet_load")
  /\ UNCHANGED jobId

\* The image of a preview is read on the UI thread, which may raise.
BasePreviewLoaded ==
  LET c == Head(completions) IN
  /\ Handle("base_preview")
  /\ \/ Ignore("base_preview")
     \/ /\ IsCurrent(c) /\ c.outcome = "value"
        /\ work' = Discarded("base_preview") /\ Raises
        /\ UNCHANGED <<session, fullOpened, validated>>
  /\ UNCHANGED jobId

BundleBuilt ==
  LET c == Head(completions) IN
  /\ Handle("bundle")
  /\ \/ /\ IsCurrent(c) /\ c.outcome = "value"
        /\ work' = Discarded("bundle")
        /\ \/ GoesOn /\ session' = AcceptBundle(session, c.id)
           \/ Raises /\ UNCHANGED session
        /\ UNCHANGED <<fullOpened, validated>>
     \/ ~(IsCurrent(c) /\ c.outcome = "value") /\ Ignore("bundle")
  /\ UNCHANGED jobId

-----------------------------------------------------------------------------
(* Override, proof and review *)

\* _override_modified(); the editor is locked while a sweep or a session is busy.
EditOverride(text) ==
  /\ ~closed /\ ~WorkflowBusy
  /\ session' = SetOverrideText(session, text)
  /\ validated' = Nothing /\ fullOpened' = FALSE
  /\ UNCHANGED <<plan, jobId, jobVars, closed, diskVars, drifted>>

\* prove_override(): the session is proving before the job is submitted.
Prove ==
  /\ ~closed /\ session.bundle # None /\ session.text # Blank
  /\ ~ProofBusy /\ ~WorkflowBusy /\ Room(2)
  /\ session' = BeginProof(session)
  /\ fullOpened' = FALSE
  /\ work' = Submitted(work, "proof", [Binding EXCEPT !.candidate = None])
  /\ UNCHANGED <<plan, validated, jobId, completions, pump, closed, diskVars, drifted>>

\* Mutant: an operation that raised leaves the label.
ProofFailedQuietly == UNCHANGED session

ProofFailed == session' = [session EXCEPT !.state = "REJECTED"]

\* A result is read from its receipt after the session has accepted it.
ProofCompleted ==
  LET c == Head(completions)
      current == IsCurrent(c) /\ c.outcome # "cancelled" IN
  /\ Handle("proof")
  /\ \/ ~current /\ Ignore("proof")
     \/ /\ current /\ c.outcome = "error"
        /\ ProofFailed /\ work' = Discarded("proof") /\ GoesOn
     \/ /\ current /\ c.outcome = "rejected"
        /\ session' = AcceptProofResult(session, c, "rejected")
        /\ work' = Discarded("proof")
        /\ GoesOn \/ Raises
     \/ /\ current /\ c.outcome = "value"
        /\ session' = AcceptProofResult(session, c, "replay_proven")
        /\ \/ GoesOn /\ work' = Submitted(Discarded("proof"), "candidate_preview",
                                          [Binding EXCEPT !.candidate = c.id])
           \/ Raises /\ work' = Discarded("proof")
  /\ UNCHANGED <<fullOpened, validated, jobId>>

CandidatePreviewLoaded ==
  LET c == Head(completions) IN
  /\ Handle("candidate_preview")
  /\ \/ /\ IsCurrent(c) /\ session.proof # NoProof /\ c.outcome = "value"
        /\ session' = [session EXCEPT !.preview = c.identity.candidate]
        /\ work' = Discarded("candidate_preview")
        /\ GoesOn \/ Raises
        /\ UNCHANGED <<fullOpened, validated>>
     \/ /\ ~(IsCurrent(c) /\ session.proof # NoProof /\ c.outcome = "value")
        /\ Ignore("candidate_preview")
  /\ UNCHANGED jobId

\* open_candidate_frame(); the desktop may fail to open it, and nothing changes.
OpenCandidate ==
  /\ ~closed /\ ReplayProven /\ ~fullOpened
  /\ fullOpened' = TRUE
  /\ UNCHANGED <<session, plan, validated, jobId, jobVars, closed, diskVars, drifted>>

Decide(decision) ==
  reviews' = [reviews EXCEPT ![session.proof.id] = Append(@, decision)]

MayDecide == ~closed /\ Undecided /\ ~ProofBusy /\ ~WorkflowBusy

\* accept_candidate(): the decision is written, which fails when a file of the proof has
\* changed; then everything is checked for launching.
AcceptCandidate ==
  /\ MayDecide
  /\ \/ /\ session' = [session EXCEPT !.state = "REJECTED"]
        /\ UNCHANGED reviews
     \/ /\ Decide("accepted")
        /\ session' = [session EXCEPT !.decision = "accepted", !.state = "REJECTED"]
     \/ /\ Decide("accepted") /\ session.proof.id \notin drifted
        /\ session' = [session EXCEPT !.decision = "accepted", !.state = "LAUNCH_READY"]
  /\ UNCHANGED <<viewVars, jobVars, closed, launches, receipts, drifted>>

RequestRevision ==
  /\ MayDecide
  /\ Decide("revision_needed")
  /\ session' = [session EXCEPT !.decision = "revision_needed", !.state = "REVISION_NEEDED"]
  /\ UNCHANGED <<viewVars, jobVars, closed, launches, receipts, drifted>>

MayLaunch == ~closed /\ session.state = "LAUNCH_READY" /\ ~ProofBusy /\ ~WorkflowBusy

\* Mutant: a launch whose receipt cannot be written may be tried again.
LaunchAcceptedStateAgain ==
  LET p == session.proof.id IN
  /\ MayLaunch
  /\ \/ session' = [session EXCEPT !.state = "REJECTED"] /\ UNCHANGED <<launches, receipts>>
     \/ /\ p \notin drifted /\ p \notin receipts
        /\ launches' = [launches EXCEPT ![p] = @ + 1]
        /\ \/ receipts' = receipts \union {p}
           \/ UNCHANGED receipts
        /\ UNCHANGED session
  /\ UNCHANGED <<viewVars, jobVars, closed, reviews, drifted>>

\* launch_accepted_state(): everything is checked once more, and a receipt must not be
\* there. The viewer is started before its receipt is written; that failing is a rejection,
\* and so is a viewer that does not start.
LaunchAcceptedState ==
  LET p == session.proof.id IN
  /\ MayLaunch
  /\ \/ session' = [session EXCEPT !.state = "REJECTED"] /\ UNCHANGED <<launches, receipts>>
     \/ /\ p \notin drifted /\ p \notin receipts
        /\ launches' = [launches EXCEPT ![p] = @ + 1]
        /\ \/ receipts' = receipts \union {p} /\ UNCHANGED session
           \/ UNCHANGED receipts /\ session' = [session EXCEPT !.state = "REJECTED"]
  /\ UNCHANGED <<viewVars, jobVars, closed, reviews, drifted>>

-----------------------------------------------------------------------------
(* Sweeps and automated sessions *)

EditPlan(text) ==
  /\ ~closed /\ ~SweepBusy
  /\ plan' = text /\ validated' = Nothing
  /\ UNCHANGED <<session, fullOpened, jobId, jobVars, closed, diskVars, drifted>>

\* validate_scalar_sweep() and run_scalar_sweep(), which runs what was validated only
SubmitSweep(kind) ==
  /\ ~closed /\ session.bundle # None /\ work.busy = {} /\ Room(1)
  /\ work' = Submitted(work, kind, Binding)
  /\ jobId' = [jobId EXCEPT !.sweep = SubmittedId]
  /\ UNCHANGED <<session, plan, fullOpened, completions, pump, closed, diskVars, drifted>>

ValidateSweep == SubmitSweep("sweep_validation") /\ validated' = Nothing

RunSweep == validated = SweepBinding /\ SubmitSweep("scalar_sweep") /\ UNCHANGED validated

\* The receipt of a finished sweep is read on the UI thread, which may raise.
SweepCompleted(kind) ==
  LET c == Head(completions) IN
  /\ Handle(kind)
  /\ \/ /\ kind = "sweep_validation" /\ IsCurrent(c) /\ c.outcome = "value"
        /\ validated' = SweepBinding
     \/ ~(kind = "sweep_validation" /\ IsCurrent(c) /\ c.outcome = "value") /\ UNCHANGED validated
  /\ work' = Discarded(kind)
  /\ GoesOn \/ (kind = "scalar_sweep" /\ IsCurrent(c) /\ c.outcome = "value" /\ Raises)
  /\ jobId' = [jobId EXCEPT !.sweep = None]
  /\ UNCHANGED <<session, fullOpened>>

CancelSweep ==
  /\ ~closed /\ SweepBusy
  /\ work' = Cancelled(work, {jobId.sweep})
  /\ UNCHANGED <<session, viewVars, completions, pump, closed, diskVars, drifted>>

StartAutomated ==
  /\ ~closed /\ session.bundle # None /\ work.busy = {} /\ Room(1)
  /\ work' = Submitted(work, "automated_session", Binding)
  /\ jobId' = [jobId EXCEPT !.automated = SubmittedId]
  /\ UNCHANGED <<session, plan, fullOpened, validated, completions, pump, closed, diskVars, drifted>>

AutomatedCompleted ==
  /\ Handle("automated_session")
  /\ Ignore("automated_session")
  /\ jobId' = [jobId EXCEPT !.automated = None]

CancelAutomated ==
  /\ ~closed /\ AutomatedBusy
  /\ work' = Cancelled(work, {jobId.automated})
  /\ UNCHANGED <<session, viewVars, completions, pump, closed, diskVars, drifted>>

-----------------------------------------------------------------------------

\* The packet, the files of a proof or the published runtime change behind its back.
Drift ==
  /\ ~closed /\ session.proof # NoProof
  /\ drifted' = drifted \union {session.proof.id}
  /\ UNCHANGED <<session, viewVars, jobVars, closed, diskVars>>

\* close() shuts the runner down; no completion is handled any more.
Close ==
  /\ ~closed
  /\ closed' = TRUE
  /\ work' = Cancelled(work, JobNumber)
  /\ UNCHANGED <<session, viewVars, completions, pump, diskVars, drifted>>

\* The completions that bring a packet, and the others.
PacketArrives == PacketLoaded \/ BundleBuilt
OtherArrives ==
  \/ FindingLoaded \/ BasePreviewLoaded \/ ProofCompleted \/ CandidatePreviewLoaded
  \/ AutomatedCompleted \/ \E kind \in SweepKind : SweepCompleted(kind)

Drain == PacketArrives \/ OtherArrives

\* Every button but the reset.
Press ==
  \/ "import" \in Route /\ OpenFinding("finding_import")
  \/ Route \intersect {"import", "refresh"} # {} /\ BuildPacket
  \/ "packet" \in Route /\ OpenFinding("packet_load")
  \/ Close
  \/ \E text \in Text \union {Blank} : EditOverride(text)
  \/ Prove \/ OpenCandidate \/ AcceptCandidate \/ RequestRevision \/ LaunchAcceptedState
  \/ "sweep" \in Route /\ (ValidateSweep \/ RunSweep \/ CancelSweep \/ \E text \in Plan : EditPlan(text))
  \/ "automated" \in Route /\ (StartAutomated \/ CancelAutomated)

Operate == ResetSession \/ Press

WorkerFinishes == \E j \in work.running : Finish(j)

Terminated == closed /\ UNCHANGED vars

Next == Drain \/ Operate \/ WorkerFinishes \/ Drift \/ Terminated

Spec == Init /\ [][Next]_vars

\* Every job ends some day, and the UI thread keeps draining the queue. What the operator
\* does is up to him.
FairSpec ==
  /\ Spec
  /\ WF_vars(Drain)
  /\ \A n \in JobNumber : WF_vars(\E j \in work.running : j.id = n /\ Finish(j))

-----------------------------------------------------------------------------

TypeOK ==
  /\ session.generation \in 0..MaxGeneration /\ session.state \in SessionState
  /\ {session.finding, session.bundle, session.proof.id, session.preview} \subseteq JobNumber \union {None}
  /\ session.text \in Text \union {Blank}
  /\ session.proof.status \in {"none", "replay_proven", "rejected"}
  /\ session.decision \in {"none", "accepted", "revision_needed"}
  /\ plan \in Plan /\ fullOpened \in BOOLEAN
  /\ DOMAIN validated \in {{}, IdentityOf["scalar_sweep"]}
  /\ jobId \in [{"sweep", "automated"} -> JobNumber \union {None}]
  /\ work.busy \subseteq Kind /\ Cardinality(work.running) <= MaxPending
  /\ work.next \in 1..MaxJobs + 1
  /\ \A j \in InFlight : j.id \in JobNumber /\ j.id < work.next /\ j.kind \in Kind
  /\ Cardinality({j.id : j \in InFlight}) = Cardinality(work.running) + Len(completions)
  /\ pump \in {"on", "stopped"} /\ closed \in BOOLEAN
  /\ reviews \in [JobNumber -> Seq({"accepted", "revision_needed"})]
  /\ launches \in [JobNumber -> Nat]
  /\ receipts \subseteq JobNumber /\ drifted \subseteq JobNumber

\* The proof the session holds is one of the very generation, finding, packet and text it
\* shows, in whatever order jobs come back, texts are edited to and fro, and packets rebuilt.
ProofIsCurrent ==
  session.proof # NoProof =>
    \A f \in DOMAIN session.proof.identity : session.proof.identity[f] = Binding[f]

\* The label over the buttons says what the session holds: an unproven session holds no
\* result, a pending review is open, and launch-ready is a candidate whose one decision on
\* disk is the acceptance.
LabelIsTrue ==
  /\ session.state \in {"EMPTY", "FINDING_READY", "PACKET_READY", "OVERRIDE_DIRTY", "PROVING"}
       => session.proof = NoProof /\ session.decision = "none"
  /\ session.state = "VISUAL_REVIEW_PENDING" => ReplayProven /\ session.decision = "none"
  /\ session.state = "LAUNCH_READY" =>
       ReplayProven /\ session.decision = "accepted" /\ reviews[session.proof.id] = <<"accepted">>

\* A proof gets one decision, and a viewer at most once, after an acceptance, although the
\* viewer runs before its receipt is written and that may fail.
LaunchedOnce ==
  \A p \in JobNumber :
    Len(reviews[p]) <= 1 /\ launches[p] <= 1 /\ (launches[p] = 1 => reviews[p] = <<"accepted">>)

\* While the window is open, a kind that is busy has a job of this very session that will
\* end it, so no button stays locked for a job that was refused, replaced or dropped.
BusyHasJob ==
  ~closed => \A kind \in work.busy :
    \E j \in Wanted : j.kind = kind

\* A proof that is running gets the session out of PROVING, unless a handler has stopped
\* the queue.
ProvingEnds ==
  (session.state = "PROVING" /\ ProofBusy)
    ~> (session.state # "PROVING" \/ pump = "stopped" \/ closed)

\* question_driven_research_session_slice4_evidence.md: proof, sweep and automation are
\* mutually gated, and stale completions cannot update the active session.
WorkIsGated ==
  \A j, k \in work.running :
    /\ {j.kind, k.kind} \subseteq {"proof", "scalar_sweep", "automated_session"}
    /\ ~j.cancelled /\ ~k.cancelled
    => j = k

=============================================================================
