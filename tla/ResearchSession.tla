---------------------------- MODULE ResearchSession ----------------------------
(***************************************************************************)
(* A question-driven research session: ResearchSessionRunner over            *)
(* ResearchSessionController, ResearchProviderDispatcher,                    *)
(* ResearchCostController and ResearchResultService. Plan, correct, execute,   *)
(* review, synthesize, communicate and close, every call of the model paid     *)
(* from one hard budget.                                                     *)
(*                                                                          *)
(* The session is one thread. A call of the model is its exact count and its   *)
(* answer; what the runner does between the services it calls is one step.     *)
(***************************************************************************)
EXTENDS Integers, ResearchProtocol

CONSTANTS
  MaxExperiments,  \* the values maximum_experiment_rounds may have
  HardBudget,      \* the values hard_dollar_budget may have
  Ceiling,         \* what a call may cost at most by the limits of its stage
  Excess           \* by how much a call may cost more than its exact count says

ASSUME ResearchAssumption ==
  /\ MaxExperiments \subseteq 0..2 /\ HardBudget \subseteq Nat
  /\ Ceiling \in Nat \ {0} /\ Excess \in Nat \ {0}

VARIABLES
  brief,       \* the sealed brief: experiments, budget, alternate communication
  at,          \* where run() is
  attempts,    \* execution_history with the review of each attempt
  correction,  \* the one correction: "unused", "available" or "used"
  base,        \* current_bundle: the attempt it was promoted from, 0 the initial packet
  exact,       \* the exact count of the call under way, 0 before it is known
  spent,       \* spent_cost_usd
  dispatches,  \* requests the provider was sent
  refused,     \* the stage of the call that authorize_dispatch refused
  events,      \* what went wrong: a step raised, a charge was lost, authority drifted, and
               \* a call cost more than its count
  record,      \* result/scientific-record.json
  ending,      \* the disposition, and whether the communication was sealed
  files        \* the provider files of the transport, and the attempt to delete them

sessionVars == <<brief, attempts, correction, base>>
costVars    == <<exact, spent, dispatches, refused>>
resultVars  == <<record, ending>>
vars == <<at, sessionVars, costVars, events, resultVars, files>>

NoRecord == [kind |-> "none", conclusion |-> "none", claims |-> {}, summaries |-> <<>>]

Init ==
  /\ brief \in [experiments : MaxExperiments, budget : HardBudget, alternate : BOOLEAN]
  /\ at = "plan" /\ attempts = <<>> /\ correction = "unused" /\ base = 0
  /\ exact = 0 /\ spent = 0 /\ dispatches = 0 /\ refused = "none" /\ events = {}
  /\ record = NoRecord /\ ending = [disposition |-> "RUNNING", communicated |-> FALSE]
  /\ files = [owned |-> FALSE, cleanup |-> "none"]

-----------------------------------------------------------------------------
(* ResearchCostController *)

\* Where run() calls the model, by the stage of the call, and where the answer is read.
StageOf ==
  [plan |-> "PLANNER", correct |-> "CORRECTION", review |-> "REVIEW",
   synthesize |-> "SYNTHESIS", communicate |-> "COMMUNICATION"]
Answered ==
  [plan |-> "planned", correct |-> "corrected", review |-> "reviewed",
   synthesize |-> "synthesized", communicate |-> "communicated"]

\* planner_may_execute: the runner says TRUE for every correction.
MayExecute(stage) == stage = "CORRECTION" \/ Len(attempts) < brief.experiments

\* Mutant: a plan does not put aside what the review of its experiment costs.
ReservesWithoutReview(stage) ==
  {s \in {"CORRECTION", "SYNTHESIS", "COMMUNICATION"} :
     CASE s = "CORRECTION"    -> stage = "PLANNER" /\ correction # "used"
       [] s = "SYNTHESIS"     -> stage \in {"PLANNER", "CORRECTION", "REVIEW"}
       [] s = "COMMUNICATION" -> stage # "COMMUNICATION" /\ brief.alternate}

\* The stages that must stay affordable after a call of this one.
Reserves(stage) ==
  {s \in {"CORRECTION", "REVIEW", "SYNTHESIS", "COMMUNICATION"} :
     CASE s = "CORRECTION"    -> stage = "PLANNER" /\ correction # "used"
       [] s = "REVIEW"        -> stage \in {"PLANNER", "CORRECTION"} /\ MayExecute(stage)
       [] s = "SYNTHESIS"     -> stage \in {"PLANNER", "CORRECTION", "REVIEW"}
       [] s = "COMMUNICATION" -> stage # "COMMUNICATION" /\ brief.alternate}

\* authorize_dispatch: the exact call and the ceilings of the reserves, within what is left.
Affordable(stage) ==
  exact + Ceiling * Cardinality(Reserves(stage)) <= brief.budget - spent

-----------------------------------------------------------------------------
(* ResearchProviderDispatcher: one call of the model *)

\* Where a call that raises takes run(): a synthesis and a communication are sealed as failed,
\* any other call ends the session without a closeout.
OnFailure ==
  CASE at = "synthesize"  -> "seal_failure"
    [] at = "communicate" -> "communication_failed"
    [] OTHER              -> "abort"

\* _evidence_authority refuses the receipt of a rejected proof before the synthesis is asked for.
EvidenceUsable == \A n \in DOMAIN attempts : ~HasRejectedReceipt(attempts[n].results)
MayCall == at \in DOMAIN StageOf /\ (at = "synthesize" => EvidenceUsable)

EvidenceRefused ==
  /\ at = "synthesize" /\ exact = 0 /\ ~EvidenceUsable
  /\ at' = "abort"
  /\ UNCHANGED <<sessionVars, costVars, events, resultVars, files>>

\* The files are uploaded and the request is counted.
Count ==
  /\ MayCall /\ exact = 0
  /\ exact' \in 1..Ceiling /\ files' = [files EXCEPT !.owned = TRUE]
  /\ UNCHANGED <<at, sessionVars, spent, dispatches, refused, events, resultVars>>

\* An upload or the count fails, the count is above the ceiling of the stage, a record cannot be
\* written, or the session is cancelled before the dispatch, while it waits for its pace.
CallFails ==
  /\ MayCall /\ (exact = 0 \/ Affordable(StageOf[at]))
  /\ at' = OnFailure /\ exact' = 0 /\ events' = events \union {"raised"}
  /\ files' \in {files, [files EXCEPT !.owned = TRUE]}
  /\ UNCHANGED <<sessionVars, spent, dispatches, refused, resultVars>>

\* DispatchAuthorizationRejected.
Refuse ==
  /\ MayCall /\ exact # 0 /\ ~Affordable(StageOf[at])
  /\ at' = "refused" /\ refused' = StageOf[at] /\ exact' = 0
  /\ UNCHANGED <<sessionVars, spent, dispatches, events, resultVars, files>>

Charge == (1..exact) \union {exact + Excess}

\* record_actual_cost: a total above the hard budget is not taken over.
Pays(charge) ==
  /\ spent' = IF spent + charge > brief.budget THEN spent ELSE spent + charge
  /\ events' = events \union (IF charge > exact THEN {"excess"} ELSE {})
                      \union (IF spent + charge > brief.budget THEN {"lost"} ELSE {})

Dispatches == /\ MayCall /\ exact # 0 /\ Affordable(StageOf[at])
              /\ exact' = 0 /\ dispatches' = dispatches + 1

\* The answer is complete and charged, or charged above the budget, which raises.
Answer ==
  /\ Dispatches
  /\ \E charge \in Charge :
       Pays(charge) /\ at' = IF spent + charge > brief.budget THEN OnFailure ELSE Answered[at]
  /\ UNCHANGED <<sessionVars, refused, resultVars, files>>

\* The response is incomplete and its usage is charged, or nothing is known of it.
AnswerFails ==
  /\ Dispatches
  /\ \/ \E charge \in Charge : Pays(charge)
     \/ spent' = spent /\ events' = events \union {"lost", "raised"}
  /\ at' = OnFailure
  /\ UNCHANGED <<sessionVars, refused, resultVars, files>>

-----------------------------------------------------------------------------
(* ResearchSessionController *)

\* prepare_planner_response: a refused answer has one correction in the whole session.
ReadPlan ==
  /\ at \in {"planned", "corrected"}
  /\ \E reply \in PlannerReply :
       /\ correction' = CASE at = "corrected" -> "used"
                          [] at = "planned" /\ reply = "refused" /\ correction = "unused" -> "available"
                          [] OTHER -> correction
       /\ at' = CASE reply = "refused"    -> IF correction' = "available" THEN "correct" ELSE "abort"
                  [] reply = "terminal"   -> "synthesize"
                  [] reply = "experiment" -> IF Len(attempts) < brief.experiments THEN "execute"
                                                                                 ELSE "abort"
  /\ UNCHANGED <<brief, attempts, base, costVars, events, resultVars, files>>

Attempt(results) == Append(attempts, [results |-> results, reviewed |-> FALSE, outcomes |-> <<>>])

\* execute_prepared: the attempt is consumed, whatever comes of it.
Execute ==
  /\ at = "execute" /\ at' = "review"
  /\ \E results \in SingleResults \union SweepResults \union {NoResults} : attempts' = Attempt(results)
  /\ UNCHANGED <<brief, correction, base, costVars, events, resultVars, files>>

\* Mutant: a sweep that lost its authority is reviewed like any other.
ExecuteAcrossDriftReviewed ==
  /\ at = "execute" /\ at' = "review"
  /\ \E results \in SweepResults : attempts' = Attempt(results)
  /\ events' = events \union {"drift"}
  /\ UNCHANGED <<brief, correction, base, costVars, resultVars, files>>

\* The sweep is AUTHORITY_DRIFT, which _execution_blocker makes the end.
ExecuteAcrossDrift ==
  /\ at = "execute" /\ at' = "drifted"
  /\ \E results \in SweepResults : attempts' = Attempt(results)
  /\ events' = events \union {"drift"}
  /\ UNCHANGED <<brief, correction, base, costVars, resultVars, files>>

\* apply_review: what is accepted is sealed, the selected result becomes the base.
ReadReview ==
  /\ at = "reviewed"
  /\ LET n == Len(attempts)
     IN  \E reply \in ReviewReply(attempts[n].results) :
           IF ReviewAccepted(reply, attempts[n].results, n < brief.experiments)
           THEN /\ attempts' = [attempts EXCEPT ![n].reviewed = TRUE, ![n].outcomes = reply.outcomes]
                /\ base' = IF reply.selected = {} THEN base ELSE n
                /\ at' = IF reply.gate \in Continuing THEN "plan" ELSE "synthesize"
           ELSE UNCHANGED <<attempts, base>> /\ at' = "abort"
  /\ UNCHANGED <<brief, correction, costVars, events, resultVars, files>>

-----------------------------------------------------------------------------
(* ResearchResultService and the end of run() *)

Seals(sealed, disposition) ==
  record' = sealed /\ ending' = [ending EXCEPT !.disposition = disposition]

\* seal_synthesis: a record that is not accepted is replaced by the fallback.
SealSynthesis ==
  /\ at = "synthesized"
  /\ \/ \E reply \in RecordReply([n \in DOMAIN attempts |-> attempts[n].outcomes]) :
          /\ RecordAccepted(reply, [n \in DOMAIN attempts |-> attempts[n].outcomes])
          /\ Seals([kind |-> "scientific", conclusion |-> reply.conclusion, claims |-> reply.claims,
                    summaries |-> reply.summaries], "COMPLETED")
     \/ Seals(FallbackRecord, "MANUAL_REVIEW_REQUIRED")
  /\ at' = IF brief.alternate /\ record'.conclusion # "NO_SCIENTIFIC_CONCLUSION"
           THEN "communicate" ELSE "finalize"
  /\ UNCHANGED <<sessionVars, costVars, events, files>>

\* seal_synthesis_failure, for a failed synthesis and for a drift (_close_execution_blocker).
SealFailure ==
  /\ at \in {"seal_failure", "drifted"} /\ at' = "finalize"
  /\ Seals(FallbackRecord, "MANUAL_REVIEW_REQUIRED")
  /\ UNCHANGED <<sessionVars, costVars, events, files>>

\* Mutant: a refused call is planned anew.
CloseRefusedPlansAgain ==
  /\ at = "refused" /\ at' = "plan" /\ UNCHANGED resultVars
  /\ UNCHANGED <<sessionVars, costVars, events, files>>

\* The same for a refused call: of a record that is already sealed, another cannot be written.
CloseRefused ==
  /\ at = "refused"
  /\ IF record.kind = "none"
     THEN at' = "finalize" /\ Seals(FallbackRecord, "MANUAL_REVIEW_REQUIRED")
     ELSE at' = "abort" /\ UNCHANGED resultVars
  /\ UNCHANGED <<sessionVars, costVars, events, files>>

\* seal_alternate_communication and seal_communication_failure: the record stays.
SealCommunication ==
  /\ at \in {"communicated", "communication_failed"} /\ at' = "finalize"
  /\ \E covered \in SUBSET ClaimClass :
       ending' = IF at = "communicated" /\ ReportAccepted(covered, record.claims)
                 THEN [ending EXCEPT !.communicated = TRUE]
                 ELSE [ending EXCEPT !.disposition = "MANUAL_REVIEW_REQUIRED"]
  /\ UNCHANGED <<sessionVars, costVars, events, record, files>>

\* Mutant: files left at the provider do not change how the session ends.
FinalizeTrustsCleanup ==
  /\ at = "finalize" /\ at' = "closeout"
  /\ files' \in {[files EXCEPT !.cleanup = c] : c \in {"complete", "failed"}}
  /\ files'.cleanup = "failed" => files.owned
  /\ ending' = ending
  /\ UNCHANGED <<sessionVars, costVars, events, record>>

\* _finalize_run up to the disposition: the provider files are deleted, or a manual review is due.
Finalize ==
  /\ at = "finalize" /\ at' = "closeout"
  /\ files' \in {[files EXCEPT !.cleanup = c] : c \in {"complete", "failed"}}
  /\ files'.cleanup = "failed" => files.owned
  /\ ending' = IF files'.cleanup = "complete" THEN ending
               ELSE [ending EXCEPT !.disposition = "MANUAL_REVIEW_REQUIRED"]
  /\ UNCHANGED <<sessionVars, costVars, events, record>>

\* The artifact index, the closeout and the last event.
Close ==
  /\ at = "closeout" /\ at' = "closed"
  /\ UNCHANGED <<sessionVars, costVars, events, resultVars, files>>

\* A service raises or a write fails: no except clause of run() takes it.
StepRaises ==
  /\ exact = 0 /\ at \notin {"abort", "aborted", "closed"}
  /\ at' = "abort" /\ events' = events \union {"raised"}
  /\ UNCHANGED <<sessionVars, costVars, resultVars, files>>

\* The finally clause: the files are deleted unless that was tried.
Abort ==
  /\ at = "abort" /\ at' = "aborted"
  /\ files' \in IF files.cleanup = "none"
                THEN {[files EXCEPT !.cleanup = c] : c \in {"complete"} \union
                        (IF files.owned THEN {"failed"} ELSE {})}
                ELSE {files}
  /\ UNCHANGED <<sessionVars, costVars, events, resultVars>>

-----------------------------------------------------------------------------
Ended == at \in {"closed", "aborted"}

Step ==
  \/ EvidenceRefused \/ Count \/ CallFails \/ Refuse \/ Answer \/ AnswerFails
  \/ ReadPlan \/ Execute \/ ExecuteAcrossDrift \/ ReadReview
  \/ SealSynthesis \/ SealFailure \/ CloseRefused \/ SealCommunication
  \/ Finalize \/ Close \/ StepRaises \/ Abort

Next == Step \/ (Ended /\ UNCHANGED vars)

Spec == Init /\ [][Next]_vars

\* The thread of the session goes on: the transport and the engine have time limits.
FairSpec == Spec /\ WF_vars(Step)

-----------------------------------------------------------------------------
\* As long as no call costs more than its exact count, a session that could afford to plan can
\* afford to correct, review, synthesize and communicate: only a new plan is refused, or the
\* correction of a session without experiments, for which the runner claims a review.
AffordableOnceStarted ==
  refused # "none" /\ "excess" \notin events =>
    refused = "PLANNER" \/ (refused = "CORRECTION" /\ brief.experiments = 0)

\* A session that closes as COMPLETED has an accepted record, every experiment reviewed, the
\* communication it owes, no file at the provider, and nothing that was refused or lost.
CompletedIsEarned ==
  at = "closed" /\ ending.disposition = "COMPLETED" =>
    /\ record.kind = "scientific" /\ files.cleanup = "complete"
    /\ refused = "none" /\ events \intersect {"drift", "lost", "raised"} = {}
    /\ \A n \in DOMAIN attempts : attempts[n].reviewed
    /\ brief.alternate /\ record.conclusion # "NO_SCIENTIFIC_CONCLUSION" => ending.communicated

\* Every summary of a sealed record is the review of an experiment in which what counts as an
\* observation was replay-proven, through three documents that different answers wrote.
ObservationsAreProven ==
  \A s \in DOMAIN record.summaries :
    \E n \in DOMAIN attempts :
      /\ attempts[n].reviewed /\ record.summaries[s] = attempts[n].outcomes
      /\ \A i \in DOMAIN attempts[n].results :
           attempts[n].outcomes[i] \in {"SUPPORTED", "CONTRADICTED", "CENSORED_OUT_OF_FRAME"}
             => attempts[n].results[i] = "REPLAY_PROVEN"

\* After a drift, a refusal or a charge that is not in the accounts, the provider is sent nothing.
StopsSpending ==
  [][refused # "none" \/ events \intersect {"drift", "lost"} # {} => dispatches' = dispatches]_vars

\* Every session is closed, or ends with an exception after the attempt to delete its files.
SessionCloses == <>Ended

\* Expected to fail. A session whose experiments are over goes on to its synthesis unless
\* something raises: a rejected proof that was reviewed is evidence like any other (docs/
\* question_driven_research_session_slice2_evidence.md: "Failed execution becomes review evidence").
FailureIsEvidence ==
  [][at = "synthesize" /\ at' = "abort" => "raised" \in events']_vars
=============================================================================
