---------------------------- MODULE ResearchProtocol ----------------------------
(***************************************************************************)
(* What a model may answer in a research session, and which answers are      *)
(* accepted: research_protocol.py, the validators of research_session.py and  *)
(* scientific_record.py, as sets of replies and predicates on them. A text is  *)
(* abstracted to the fields a later decision reads; whatever else can be wrong  *)
(* with its shape is a reply outside these sets, and is refused.               *)
(***************************************************************************)
EXTENDS Naturals, FiniteSets, Sequences, SequencesExt

CONSTANTS
  Members,         \* the members of a scalar sweep
  MemberStatus,    \* the statuses of a member that a run may end with
  Classification,  \* the classifications a review may give an observation
  Conclusion       \* the conclusions a scientific record may draw

ASSUME ProtocolAssumption ==
  /\ Members \in Nat \ {0}
  /\ MemberStatus \subseteq {"REPLAY_PROVEN", "REJECTED", "NO_EFFECT", "FAILED"}
  /\ Classification \subseteq
       {"SUPPORTED", "CONTRADICTED", "CENSORED_OUT_OF_FRAME", "UNOBSERVABLE", "EXECUTION_FAILED"}
  /\ Conclusion \subseteq {"ANSWER_ESTABLISHED", "ANSWER_PARTIAL", "QUESTION_UNRESOLVED",
                           "CONTRADICTED", "NO_SCIENTIFIC_CONCLUSION"}

-----------------------------------------------------------------------------
(* The planner *)

\* parse_planner_response, with the permissions and the validation of the payload: refused,
\* an experiment, or the end of the experiments (ANSWER_READY, UNRESOLVED_REPORT).
PlannerReply == {"refused", "experiment", "terminal"}

-----------------------------------------------------------------------------
(* The evidence of an experiment: the status of each exact result *)

\* A single override is one proof, replay-proven or rejected.
SingleResults == [{0} -> {"REPLAY_PROVEN", "REJECTED"}]

\* A sweep has a status for every member: a member that failed without a proof has no receipt.
SweepResults == [1..Members -> MemberStatus]

\* An exception out of the execution leaves one result, and no proof.
NoResults == [i \in {0} |-> "EXECUTION_FAILED"]

\* The receipt of a rejected proof is written by rejected(), without requested_value_receipts.
HasRejectedReceipt(results) == \E i \in DOMAIN results : results[i] \in {"REJECTED", "NO_EFFECT"}

-----------------------------------------------------------------------------
(* The review *)

Continuing == {"CONTINUE_PROMOTE_RESULT", "CONTINUE_RETAIN_BASE"}
ReviewGate == Continuing \union {"COMPLETE_RESEARCH", "UNRESOLVED"}

\* An outcome for some of the results.
OutcomesFor(results) == UNION {[D -> Classification] : D \in SUBSET DOMAIN results}

ReviewReply(results) ==
  [gate : ReviewGate, selected : {{}} \union {{i} : i \in DOMAIN results},
   next : {"STATE_EXPERIMENT", "ANSWER_READY"}, outcomes : OutcomesFor(results)]

\* Mutant: the reviewer's word is enough.
AllowedForAnything(status) == Classification

\* _validate_observation_outcomes: what may be said of a result with this status.
Allowed(status) ==
  CASE status = "REPLAY_PROVEN"    -> Classification \ {"EXECUTION_FAILED"}
    [] status = "EXECUTION_FAILED" -> {"EXECUTION_FAILED"}
    [] status = "NO_EFFECT"        -> {"UNOBSERVABLE"}
    [] OTHER                       -> {"EXECUTION_FAILED", "UNOBSERVABLE"}

\* parse_review_response and the checks of apply_review.
ReviewAccepted(reply, results, mayContinue) ==
  /\ reply.gate = "CONTINUE_PROMOTE_RESULT" <=> reply.selected # {}
  /\ reply.gate \in Continuing => reply.next = "STATE_EXPERIMENT" /\ mayContinue
  /\ DOMAIN reply.outcomes = DOMAIN results
  /\ \A i \in DOMAIN results : reply.outcomes[i] \in Allowed(results[i])
  /\ \A i \in reply.selected : results[i] = "REPLAY_PROVEN"

-----------------------------------------------------------------------------
(* The scientific record and its communication *)

\* The classes of claims a record has, of which inferred ones need not be communicated.
ClaimClass == {"established", "inferred", "contradicted"}

\* At most one summary for each of the two attempts a session may have.
SummariesOf(reviews) ==
  UNION {[S -> UNION {OutcomesFor(reviews[n]) : n \in DOMAIN reviews}] : S \in SUBSET (1..2)}

RecordReply(reviews) ==
  [conclusion : Conclusion, claims : SUBSET {"inferred", "contradicted"},
   summaries : SummariesOf(reviews)]

\* parse_scientific_record_response: the outcomes of a summary are those of a review that its
\* references name, whichever attempt the summary is of.
RecordAccepted(reply, reviews) ==
  /\ \A n \in DOMAIN reply.summaries : reply.summaries[n] \in Range(reviews)
  /\ reply.conclusion = "CONTRADICTED" => "contradicted" \in reply.claims
  /\ reply.conclusion = "NO_SCIENTIFIC_CONCLUSION" => reply.claims = {}

\* no_scientific_conclusion_record
FallbackRecord ==
  [kind |-> "fallback", conclusion |-> "NO_SCIENTIFIC_CONCLUSION", claims |-> {}, summaries |-> <<>>]

\* parse_communication_report_response: no claim is invented, none that counts is left out.
ReportAccepted(covered, claims) == covered \subseteq claims /\ (claims \ {"inferred"}) \subseteq covered
=============================================================================
