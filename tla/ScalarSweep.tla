----------------------------- MODULE ScalarSweep -----------------------------
(***************************************************************************)
(* ScalarBracketSweepService of scalar_sweep.py with the replay proof of     *)
(* state_override_proof.py it runs for each member, and what the research    *)
(* runner makes of the sweep it gets back.                                   *)
(*                                                                          *)
(* A sweep is bound to one packet and one published runtime. While its proofs *)
(* run, for minutes, somebody may publish another runtime, edit the packet   *)
(* or cancel the job; the sweep looks at each of them only now and then.     *)
(***************************************************************************)
EXTENDS Integers, Sequences

CONSTANTS
  MemberCount,     \* the values of the sweep plan
  MaxPublications  \* bound: the runtime is published again at most this often

ASSUME SweepAssumption == MemberCount \in Nat \ {0} /\ MaxPublications \in Nat

VARIABLES
  runtime,      \* the number of the runtime publication in place; none is ever undone
  edited,       \* the packet's manifest is no longer the one the sweep is bound to
  cancelled,    \* the job's cancel event
  policy,       \* member_failure_policy of the plan
  mode,         \* the runtime compatibility mode
  captured,     \* the publication the packet was captured under
  at,           \* how far execute() has come
  bound,        \* the publication of the sweep's binding
  members,      \* the results so far: a status, and the publication it was proven under
  disposition,
  stopStatus,   \* what becomes of the members still to come
  proofAt,      \* how far the proof of the current member has come
  proofRuntime, \* the publication the proof is bound to
  refs,         \* the members whose proof-ref.json is written
  receipt,      \* the disposition in receipt.json
  driftSeen,    \* the sweep has found its authority changed
  review        \* what the research runner did with the sweep

envVars    == <<runtime, edited, cancelled>>
planVars   == <<policy, mode, captured>>
memberVars == <<members, disposition, stopStatus, driftSeen>>
proofVars  == <<proofAt, proofRuntime>>
diskVars   == <<refs, receipt>>
vars == <<envVars, planVars, at, bound, memberVars, proofVars, diskVars, review>>

Failure    == {"PROOF_FAILED", "NO_EFFECT_ENGINE_EMITTED_BASE"}
NotStarted == {"NOT_STARTED_AFTER_CANCEL", "NOT_STARTED_AFTER_AUTHORITY_DRIFT",
               "NOT_STARTED_AFTER_FAILURE"}
Status == {"REPLAY_PROVEN", "CANCELLED_DURING_PROOF"} \union Failure \union NotStarted
Disposition == {"COMPLETE", "CANCELLED", "AUTHORITY_DRIFT", "STOPPED_AFTER_MEMBER_FAILURE",
                "PARTIAL_MEMBER_FAILURES", "PRESENTATION_FAILED"}

Init ==
  /\ runtime = 1 /\ edited = FALSE /\ cancelled = FALSE
  /\ policy \in {"stop_on_first_failure", "continue_independent"}
  /\ mode \in {"development", "strict"} /\ captured \in {0, 1}
  /\ at = "validate" /\ bound = 0
  /\ members = <<>> /\ disposition = "COMPLETE" /\ stopStatus = "none" /\ driftSeen = FALSE
  /\ proofAt = "none" /\ proofRuntime = 0
  /\ refs = {} /\ receipt = "none" /\ review = "none"

Ended == at \in {"returned", "raised"}

-----------------------------------------------------------------------------
(* What the rest of the world does meanwhile *)

Publish ==
  /\ runtime <= MaxPublications
  /\ runtime' = runtime + 1
  /\ UNCHANGED <<edited, cancelled, planVars, at, bound, memberVars, proofVars, diskVars, review>>

EditPacket ==
  /\ ~edited
  /\ edited' = TRUE
  /\ UNCHANGED <<runtime, cancelled, planVars, at, bound, memberVars, proofVars, diskVars, review>>

Cancel ==
  /\ ~cancelled /\ ~Ended
  /\ cancelled' = TRUE
  /\ UNCHANGED <<runtime, edited, planVars, at, bound, memberVars, proofVars, diskVars, review>>

-----------------------------------------------------------------------------
(* validate() and the loop of execute() *)

Step(next) ==
  /\ at' = next
  /\ UNCHANGED <<envVars, planVars, review>>

\* The packet is bound first and must still be the same when the preflight of every member
\* is done; the runtime is looked at once in between. A plan that fails its preflight, or a
\* sweep directory that cannot be made, raises too.
Validate ==
  /\ at = "validate"
  /\ \/ Step("raised") /\ UNCHANGED bound
     \/ ~edited /\ Step("member") /\ bound' = runtime
  /\ UNCHANGED <<memberVars, proofVars, diskVars>>

\* _authority_matches also answers no when it cannot tell, so a drift needs no guard below.
AuthorityMatches == ~edited /\ runtime = bound

Result(status, publication) == [status |-> status, runtime |-> publication]

\* Nothing more is started, for the reason `status`; the sweep is disposed of as d.
StopAs(d, status) ==
  /\ disposition' = d /\ stopStatus' = status
  /\ driftSeen' = (driftSeen \/ d = "AUTHORITY_DRIFT")

SkipMember ==
  /\ at = "member" /\ Len(members) < MemberCount
  /\ \/ /\ stopStatus # "none"
        /\ members' = Append(members, Result(stopStatus, 0))
        /\ UNCHANGED <<disposition, stopStatus, driftSeen>>
     \/ /\ stopStatus = "none" /\ cancelled
        /\ members' = Append(members, Result("NOT_STARTED_AFTER_CANCEL", 0))
        /\ StopAs("CANCELLED", "NOT_STARTED_AFTER_CANCEL")
     \/ /\ stopStatus = "none" /\ ~cancelled
        /\ members' = Append(members, Result("NOT_STARTED_AFTER_AUTHORITY_DRIFT", 0))
        /\ StopAs("AUTHORITY_DRIFT", "NOT_STARTED_AFTER_AUTHORITY_DRIFT")
  /\ Step("member")
  /\ UNCHANGED <<bound, proofVars, diskVars>>

\* The member's override.json is written, or this raises.
StartMember ==
  /\ at = "member" /\ Len(members) < MemberCount
  /\ stopStatus = "none" /\ ~cancelled /\ AuthorityMatches
  /\ \/ proofAt' = "assess" /\ Step("proof")
     \/ UNCHANGED proofAt /\ Step("raised")
  /\ UNCHANGED <<bound, memberVars, proofRuntime, diskVars>>

-----------------------------------------------------------------------------
(* execute_state_override_proof() for the current member *)

ProofGoesTo(next) ==
  /\ proofAt' = next
  /\ Step("proof")
  /\ UNCHANGED <<bound, memberVars, diskVars>>

\* The packet must be the one expected. The runtime in place is the one the proof is bound
\* to; strict mode takes none but the captured one. Materializing the override may fail.
ProofAssess ==
  /\ proofAt = "assess"
  /\ proofRuntime' = runtime
  /\ \/ ~edited /\ (mode = "strict" => runtime = captured) /\ ProofGoesTo("materialize")
     \/ ProofGoesTo("rejected")

\* run_process looks at the cancel event before it starts the engine.
EngineStarts(stage, running) ==
  /\ proofAt = stage
  /\ ProofGoesTo(IF cancelled THEN "cancelled" ELSE running)
  /\ UNCHANGED proofRuntime

\* The engine exits or times out, with or without the files it should have written; or the
\* job is cancelled while it runs. An exit that comes before the cancel is seen counts.
EngineEnds(running, next) ==
  /\ proofAt = running
  /\ \/ \E end \in next \union {"rejected"} : ProofGoesTo(end)
     \/ cancelled /\ ProofGoesTo("cancelled")
  /\ UNCHANGED proofRuntime

\* State and pixels of the replay are compared, and the runtime and the packet looked at
\* once more.
ProofVerify ==
  /\ proofAt = "verify"
  /\ \/ ~edited /\ runtime = proofRuntime /\ ProofGoesTo("proven")
     \/ ProofGoesTo("rejected")
  /\ UNCHANGED proofRuntime

\* An engine that changed the requested value back to the base's rejects the proof as well,
\* and the sweep tells this case from the others.
Proof ==
  \/ ProofAssess
  \/ EngineStarts("materialize", "materializing")
  \/ EngineEnds("materializing", {"replay", "reverted"})
  \/ EngineStarts("replay", "replaying")
  \/ EngineEnds("replaying", {"verify"})
  \/ ProofVerify

-----------------------------------------------------------------------------
(* The end of a member *)

MemberStatus ==
  [proven   |-> "REPLAY_PROVEN",  reverted  |-> "NO_EFFECT_ENGINE_EMITTED_BASE",
   rejected |-> "PROOF_FAILED",   cancelled |-> "CANCELLED_DURING_PROOF"]

ProofOver == at = "proof" /\ proofAt \in DOMAIN MemberStatus

Ending(status) ==
  Result(status, IF status = "REPLAY_PROVEN" THEN proofRuntime ELSE 0)

\* The result is added and its receipt written; JobCancelledError out of the proof skips
\* the checks that follow. A receipt that cannot be written ends the sweep.
EndMember ==
  /\ ProofOver
  /\ proofAt' = "none"
  /\ \/ Step("raised") /\ UNCHANGED <<memberVars, diskVars>>
     \/ /\ members' = Append(members, Ending(MemberStatus[proofAt]))
        /\ refs' = refs \union {Len(members) + 1}
        /\ IF proofAt = "cancelled"
           THEN StopAs("CANCELLED", "NOT_STARTED_AFTER_CANCEL") /\ Step("member")
           ELSE UNCHANGED <<disposition, stopStatus, driftSeen>> /\ Step("after")
        /\ UNCHANGED receipt
  /\ UNCHANGED <<bound, proofRuntime>>

LastFailed == members[Len(members)].status \in Failure

\* Mutant: after a member only the cancel event and the member's own failure count.
AfterMemberTrusting ==
  /\ at = "after"
  /\ \/ cancelled /\ StopAs("CANCELLED", "NOT_STARTED_AFTER_CANCEL")
     \/ /\ ~cancelled /\ LastFailed
        /\ IF policy = "stop_on_first_failure"
           THEN StopAs("STOPPED_AFTER_MEMBER_FAILURE", "NOT_STARTED_AFTER_FAILURE")
           ELSE StopAs("PARTIAL_MEMBER_FAILURES", "none")
     \/ ~cancelled /\ ~LastFailed /\ StopAs(disposition, "none")
  /\ Step("member")
  /\ UNCHANGED <<bound, members, proofVars, diskVars>>

\* Mutant: a failure under continue_independent is overwritten by a later success.
AfterMemberForgetting ==
  /\ at = "after"
  /\ \/ cancelled /\ StopAs("CANCELLED", "NOT_STARTED_AFTER_CANCEL")
     \/ ~cancelled /\ StopAs("AUTHORITY_DRIFT", "NOT_STARTED_AFTER_AUTHORITY_DRIFT")
     \/ /\ ~cancelled /\ AuthorityMatches /\ LastFailed
        /\ IF policy = "stop_on_first_failure"
           THEN StopAs("STOPPED_AFTER_MEMBER_FAILURE", "NOT_STARTED_AFTER_FAILURE")
           ELSE StopAs("PARTIAL_MEMBER_FAILURES", "none")
     \/ ~cancelled /\ AuthorityMatches /\ ~LastFailed /\ StopAs("COMPLETE", "none")
  /\ Step("member")
  /\ UNCHANGED <<bound, members, proofVars, diskVars>>

\* The three checks after a member, in their order.
AfterMember ==
  /\ at = "after"
  /\ \/ cancelled /\ StopAs("CANCELLED", "NOT_STARTED_AFTER_CANCEL")
     \/ ~cancelled /\ StopAs("AUTHORITY_DRIFT", "NOT_STARTED_AFTER_AUTHORITY_DRIFT")
     \/ /\ ~cancelled /\ AuthorityMatches /\ LastFailed
        /\ IF policy = "stop_on_first_failure"
           THEN StopAs("STOPPED_AFTER_MEMBER_FAILURE", "NOT_STARTED_AFTER_FAILURE")
           ELSE StopAs("PARTIAL_MEMBER_FAILURES", "none")
     \/ /\ ~cancelled /\ AuthorityMatches /\ ~LastFailed
        /\ UNCHANGED <<disposition, stopStatus, driftSeen>>
  /\ Step("member")
  /\ UNCHANGED <<bound, members, proofVars, diskVars>>

-----------------------------------------------------------------------------
(* Presentation, receipt and web review *)

\* Rendering the contact sheet may fail, which replaces the disposition.
Present ==
  /\ at = "member" /\ Len(members) = MemberCount
  /\ \/ Step("receipt") /\ UNCHANGED disposition
     \/ Step("bare receipt") /\ disposition' = "PRESENTATION_FAILED"
  /\ UNCHANGED <<bound, members, stopStatus, driftSeen, proofVars, diskVars>>

\* A sweep without presentation has no web review.
WriteReceipt ==
  /\ at \in {"receipt", "bare receipt"}
  /\ \/ receipt' = disposition /\ Step(IF at = "receipt" THEN "web review" ELSE "returned")
     \/ Step("raised") /\ UNCHANGED receipt
  /\ UNCHANGED <<bound, memberVars, proofVars, refs>>

RenderWebReview ==
  /\ at = "web review"
  /\ Step("returned") \/ Step("raised")
  /\ UNCHANGED <<bound, memberVars, proofVars, diskVars>>

-----------------------------------------------------------------------------
(* ResearchSessionRunner on the sweep *)

\* A sweep that raised is evidence with an execution error and no sweep. The runner stops
\* at a sweep disposed of as AUTHORITY_DRIFT; else it asks the provider for a review, which
\* the dispatcher refuses to a cancelled job.
Review ==
  /\ Ended /\ review = "none"
  /\ review' = IF at = "returned" /\ disposition = "AUTHORITY_DRIFT" THEN "blocked"
               ELSE IF cancelled THEN "cancelled" ELSE "dispatched"
  /\ UNCHANGED <<envVars, planVars, at, bound, memberVars, proofVars, diskVars>>

Execute ==
  \/ Validate \/ SkipMember \/ StartMember \/ Proof \/ EndMember \/ AfterMember
  \/ Present \/ WriteReceipt \/ RenderWebReview \/ Review

Terminated == review # "none" /\ UNCHANGED vars

Next == Publish \/ EditPacket \/ Cancel \/ Execute \/ Terminated

Spec == Init /\ [][Next]_vars

-----------------------------------------------------------------------------

TypeOK ==
  /\ runtime \in Nat /\ edited \in BOOLEAN /\ cancelled \in BOOLEAN
  /\ policy \in {"stop_on_first_failure", "continue_independent"}
  /\ mode \in {"development", "strict"} /\ captured \in {0, 1}
  /\ at \in {"validate", "member", "proof", "after", "receipt", "bare receipt",
             "web review", "returned", "raised"}
  /\ bound \in Nat
  /\ members \in Seq([status : Status, runtime : Nat]) /\ Len(members) <= MemberCount
  /\ disposition \in Disposition /\ stopStatus \in NotStarted \union {"none"}
  /\ driftSeen \in BOOLEAN
  /\ proofAt \in {"none", "assess", "materialize", "materializing", "replay", "replaying",
                  "verify"} \union DOMAIN MemberStatus
  /\ proofRuntime \in Nat
  /\ refs \subseteq 1..MemberCount /\ receipt \in Disposition \union {"none"}
  /\ review \in {"none", "blocked", "cancelled", "dispatched"}

Statuses == {members[i].status : i \in DOMAIN members}

\* The disposition on disk accounts for the members listed beside it: what stopped the sweep
\* stands at every member that was not started, all of them at the end, and a failure that
\* did not stop it is not forgotten. It is written last: every member is listed in it, and the
\* ones that were started have their own receipt.
ReceiptAccounts ==
  /\ receipt # "none" =>
       /\ Len(members) = MemberCount
       /\ \A i \in 1..MemberCount : i \in refs <=> members[i].status \notin NotStarted
  /\ receipt = "COMPLETE" => Statuses = {"REPLAY_PROVEN"}
  /\ receipt = "PARTIAL_MEMBER_FAILURES" =>
       /\ policy = "continue_independent"
       /\ Statuses \subseteq {"REPLAY_PROVEN"} \union Failure
       /\ Statuses \intersect Failure # {}
  /\ receipt = "STOPPED_AFTER_MEMBER_FAILURE" =>
       /\ policy = "stop_on_first_failure"
       /\ Statuses \intersect NotStarted \subseteq {"NOT_STARTED_AFTER_FAILURE"}
  /\ receipt = "AUTHORITY_DRIFT" =>
       Statuses \intersect NotStarted \subseteq {"NOT_STARTED_AFTER_AUTHORITY_DRIFT"}
  /\ receipt = "CANCELLED" =>
       Statuses \intersect NotStarted \subseteq {"NOT_STARTED_AFTER_CANCEL"}
  /\ receipt # "none" =>
       \A i, j \in DOMAIN members :
         i < j /\ members[i].status \in NotStarted => members[j].status = members[i].status

\* A sweep that reports no interruption has proven its members under the one runtime it is
\* bound to, although that was looked at only before and after each proof; in strict mode
\* whatever is proven is proven under the captured runtime.
ProvenUnderBinding ==
  \A i \in DOMAIN members : members[i].status = "REPLAY_PROVEN" =>
    /\ mode = "strict" => members[i].runtime = captured
    /\ receipt \in {"COMPLETE", "PARTIAL_MEMBER_FAILURES", "STOPPED_AFTER_MEMBER_FAILURE"}
         => members[i].runtime = bound

\* question_driven_research_session_live_golden.md: AUTHORITY_DRIFT is a terminal controller
\* boundary immediately after local execution.
DriftIsTerminal == driftSeen => review # "dispatched"

=============================================================================
