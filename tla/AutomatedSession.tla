---------------------------- MODULE AutomatedSession ----------------------------
(***************************************************************************)
(* AutomatedSessionController of automated_session.py with the protocol of   *)
(* automated_protocol.py, over the transport of ProviderTransport: rounds of *)
(* author, validate, prove, promote, refresh, review and gate, until a gate, *)
(* a budget, a failure or a cancellation ends the session.                   *)
(*                                                                          *)
(* The controller is one thread. An action is the stretch of run() from one  *)
(* call of a service, or of the transport, to the next. Packet 0 is the one  *)
(* the session starts from; packet r is the one derived in round r.          *)
(***************************************************************************)
EXTENDS ProviderTransport, SequencesExt, FiniteSetsExt

CONSTANTS
  MaxRounds,     \* maximum_proven_rounds
  MaxResponses,  \* maximum_model_responses
  MaxCost,       \* maximum_calculated_cost_usd
  AutoPromote    \* the values auto_promote may have

ASSUME SessionAssumption ==
  /\ MaxRounds \in Nat \ {0} /\ MaxResponses \in Nat \ {0} /\ MaxCost \in Nat
  /\ AutoPromote \subseteq BOOLEAN /\ AutoPromote # {}

VARIABLES
  at,           \* where run() is
  mode,         \* "run" with auto_promote or without, or "count": count_initial_author_input
  state,        \* ProtocolState
  usage,        \* BudgetUsage: proven rounds, model responses, and what they cost
  packet,       \* current_packet and current_bundle
  preceding,    \* preceding_bundle of the round under way
  correction,   \* _correction_used
  chain,        \* previous_response_id, by the number of its turn
  proof,        \* last_proof
  gates,        \* the gates the model proposed: last_gate is the last one
  ending,       \* the disposition, and whether an except clause of run() set it
  swallowed     \* a RunStoreWriteError that the validation took for a bad override

controlVars == <<at, mode, state, usage, packet, preceding, correction, chain, proof, gates,
                 ending, swallowed>>
vars == <<transportVars, controlVars>>

ProtocolState ==
  <<"OBSERVE", "EXPLORE", "SELECT_EXPERIMENT", "LOCK_PREDICTION", "REQUEST_OVERRIDE",
    "VALIDATE_OVERRIDE", "PROVE_CANDIDATE", "PROMOTE_DERIVED_FINDING", "REFRESH_PACKET",
    "REVIEW_RESULT", "SELF_AUDIT", "GATE_DECISION">>

AllowedTransition ==
  {<<ProtocolState[i], ProtocolState[i + 1]>> : i \in 1..(Len(ProtocolState) - 1)}
    \union {<<"VALIDATE_OVERRIDE", "REQUEST_OVERRIDE">>, <<"GATE_DECISION", "OBSERVE">>}

\* validate_protocol_transition for each state of a path.
MayMove(path) ==
  \A i \in DOMAIN path : <<IF i = 1 THEN state ELSE path[i - 1], path[i]>> \in AllowedTransition

Init ==
  /\ TransportInit
  /\ at = "new" /\ mode \in {"count"} \union {IF a THEN "promote" ELSE "prove" : a \in AutoPromote}
  /\ state = "OBSERVE" /\ usage = [rounds |-> 0, responses |-> 0, cost |-> 0]
  /\ packet = 0 /\ preceding = 0 /\ correction = FALSE /\ chain = 0 /\ proof = "none"
  /\ gates = <<>> /\ ending = [disposition |-> "RUNNING", handler |-> FALSE] /\ swallowed = FALSE

-----------------------------------------------------------------------------
(* How run() ends *)

\* return self._finish(...) in the body; the same in an except clause.
Finishes(disposition) ==
  at' = "finish" /\ ending' = [disposition |-> disposition, handler |-> FALSE]
Handled(disposition) ==
  at' = "finish" /\ ending' = [disposition |-> disposition, handler |-> TRUE]

\* _move to each state of the path, then on; a ValueError ends the session.
Moves(path, next) ==
  IF MayMove(path) THEN state' = Last(path) /\ at' = next /\ ending' = ending
                   ELSE state' = state /\ Handled("RUNTIME_FAILED")

\* A RunStoreWriteError has its own except clause, which does not call _finish.
StoreFailed ==
  at' = "store_failed" /\ ending' = [disposition |-> "RUN_STORE_FAILED", handler |-> TRUE]

\* The rest of the controller, in a step of the transport or one that only ends.
KeepRound == UNCHANGED <<mode, state, usage, packet, preceding, correction, chain, proof, gates,
                         swallowed>>

\* A record of the controller cannot be written, and nothing more of its stretch is done.
RecordFails ==
  /\ at \in {"new", "round", "validate", "proven", "refresh", "review", "gate"} /\ turn = Idle
  /\ WriteFails /\ StoreFailed
  /\ KeepRound /\ UNCHANGED <<cancelled, turn, fileVars, dispatches>>

\* Mutant: the disposition stands although files are left at the provider.
FinishTrustsCleanup ==
  /\ at = "finish"
  /\ \E kept \in SUBSET owned : CloseOwnedFiles(kept)
  /\ at' = "done" /\ ending' = ending /\ faults' = faults
  /\ KeepRound /\ UNCHANGED <<cancelled, turn, dispatches>>

\* Mutant: a record of the disposition that cannot be written is let go.
FinishUnrecorded ==
  /\ at = "finish"
  /\ \/ faults' = faults
     \/ WriteFails
  /\ \E kept \in SUBSET owned :
       /\ CloseOwnedFiles(kept)
       /\ ending' = IF kept = {} THEN ending
                    ELSE [ending EXCEPT !.disposition = "MANUAL_REVIEW_REQUIRED"]
  /\ at' = "done"
  /\ KeepRound /\ UNCHANGED <<cancelled, turn, dispatches>>

\* _finish: the disposition is recorded, the files are deleted, the cleanup is recorded, and
\* when files are left the disposition becomes MANUAL_REVIEW_REQUIRED. A write that fails is
\* caught by run() when its body called _finish, and leaves run() otherwise.
Finish ==
  /\ at = "finish"
  /\ \/ WriteFails /\ UNCHANGED fileVars
        /\ IF ending.handler THEN at' = "escaped" /\ ending' = ending ELSE StoreFailed
     \/ \E kept \in SUBSET owned :
          /\ CloseOwnedFiles(kept)
          /\ \/ /\ faults' = faults /\ at' = "done"
                /\ ending' = IF kept = {} THEN ending
                             ELSE [ending EXCEPT !.disposition = "MANUAL_REVIEW_REQUIRED"]
             \/ /\ WriteFails
                /\ IF ending.handler THEN at' = "escaped" /\ ending' = ending ELSE StoreFailed
  /\ KeepRound /\ UNCHANGED <<cancelled, turn, dispatches>>

\* close_owned_files without the store: its failures go into the message.
FinishStoreFailed ==
  /\ at = "store_failed" /\ at' = "done"
  /\ \E kept \in SUBSET owned : CloseOwnedFiles(kept)
  /\ KeepRound /\ UNCHANGED <<ending, cancelled, faults, turn, dispatches>>

-----------------------------------------------------------------------------
(* A turn with the model *)

\* Mutant: what the call may cost is not part of what the budget must hold.
BudgetExhaustedIgnoresEstimate(estimate) ==
  usage.responses >= MaxResponses \/ usage.cost > MaxCost

\* budget_exhaustion_reason, the proven rounds being no matter here.
BudgetExhausted(estimate) ==
  usage.responses >= MaxResponses \/ usage.cost + estimate > MaxCost

\* _ask_with_resources up to send_turn.
Ask(phase, round, files) ==
  IF BudgetExhausted(0)
  THEN Handled("BUDGET_EXHAUSTED") /\ UNCHANGED turn
  ELSE /\ at' = phase /\ UNCHANGED ending
       /\ SendTurn(Len(dispatches) + 1,
            [phase |-> phase, round |-> round, packet |-> packet', previous |-> chain'], files)

\* The transport inside its own code.
InTransport ==
  /\ at \in {"author", "correction", "review", "count"} /\ TransportStep
  /\ UNCHANGED controlVars

\* authorize_dispatch: a count never gets past it. A record that cannot be written is, to
\* the transport that called, an unknown failure of an undispatched turn.
AuthorizeDispatch ==
  /\ turn.at = "authorize"
  /\ \/ /\ at # "count" /\ ~BudgetExhausted(turn.estimate) /\ Authorized /\ faults' = faults
     \/ /\ at = "count" \/ BudgetExhausted(turn.estimate)
        /\ Refused /\ faults' = faults
     \/ at # "count" /\ CleansUp("definite") /\ WriteFails
  /\ UNCHANGED <<cancelled, fileVars, dispatches, controlVars>>

Disposition ==
  [cancelled |-> "CANCELLED", rejected |-> "BUDGET_EXHAUSTED", definite |-> "TRANSPORT_FAILED",
   ambiguous |-> "MANUAL_REVIEW_REQUIRED", value |-> "RUNTIME_FAILED"]

\* Mutant: a turn whose answer is lost starts the round again.
TurnRaisedRetries ==
  /\ turn.at = "raised" /\ at # "count" /\ turn' = Idle
  /\ IF turn.exc = "store" THEN StoreFailed
     ELSE IF turn.exc = "ambiguous" THEN at' = "round" /\ ending' = ending
     ELSE Handled(Disposition[turn.exc])
  /\ KeepRound /\ UNCHANGED <<cancelled, faults, fileVars, dispatches>>

\* Mutant: a rejected dispatch starts the round again.
TurnRaisedStartsAgain ==
  /\ turn.at = "raised" /\ at # "count" /\ turn' = Idle
  /\ IF turn.exc = "store" THEN StoreFailed
     ELSE IF turn.exc = "rejected" THEN at' = "round" /\ ending' = ending
     ELSE Handled(Disposition[turn.exc])
  /\ KeepRound /\ UNCHANGED <<cancelled, faults, fileVars, dispatches>>

\* What send_turn raised ends the session: the except clauses of run().
TurnRaised ==
  /\ turn.at = "raised" /\ at # "count" /\ turn' = Idle
  /\ IF turn.exc = "store" THEN StoreFailed ELSE Handled(Disposition[turn.exc])
  /\ KeepRound /\ UNCHANGED <<cancelled, faults, fileVars, dispatches>>

\* The usage, the record of the response, and the budgets it may have overrun.
TurnReturned ==
  /\ turn.at = "returned" /\ turn' = Idle
  /\ usage' = [usage EXCEPT !.responses = @ + 1, !.cost = @ + turn.charge]
  /\ chain' = turn.number
  /\ \/ WriteFails /\ StoreFailed /\ state' = state
     \/ /\ faults' = faults /\ usage'.cost > MaxCost
        /\ Handled("BUDGET_EXHAUSTED") /\ state' = state
     \/ /\ faults' = faults /\ usage'.cost <= MaxCost
        /\ CASE at = "author"     -> Moves(SubSeq(ProtocolState, 2, 5), "validate")
             [] at = "correction" -> at' = "validate" /\ UNCHANGED <<state, ending>>
             [] at = "review"     -> Moves(SubSeq(ProtocolState, 11, 12), "gate")
  /\ UNCHANGED <<cancelled, fileVars, dispatches, mode, packet, preceding, correction, proof,
                 gates, swallowed>>

-----------------------------------------------------------------------------
(* A round *)

\* The files a turn needs at the provider: the packet, its disclosure, the review's own.
AuthorFiles == <<<<"packet", packet>>>>
ReviewFiles == <<<<"packet", packet>>, <<"ledger", packet>>>>

SessionStarts ==
  /\ at = "new" /\ mode # "count"
  /\ at' = "round"
  /\ UNCHANGED <<ending, transportVars>> /\ KeepRound

\* A new conversation, the dollar budget, the disclosure, and the author's turn.
RoundBegins ==
  /\ at = "round"
  /\ correction' = FALSE /\ chain' = 0 /\ UNCHANGED packet
  /\ IF usage.cost >= MaxCost THEN Handled("BUDGET_EXHAUSTED") /\ UNCHANGED turn
                              ELSE Ask("author", usage.rounds + 1, AuthorFiles)
  /\ UNCHANGED <<cancelled, faults, fileVars, dispatches, mode, state, usage, preceding, proof,
                 gates, swallowed>>

\* The override is an authorized change, and the record of it is written.
OverrideValid ==
  /\ at = "validate" /\ turn = Idle
  /\ Moves(SubSeq(ProtocolState, 6, 7), "prove")
  /\ UNCHANGED <<transportVars, mode, usage, packet, preceding, correction, chain, proof, gates,
                 swallowed>>

\* The override is malformed, unauthorized or without effect, or it is valid and its record
\* cannot be written. The first time the model is asked for a correction, the packet not
\* attached again.
OverrideInvalid ==
  /\ at = "validate" /\ turn = Idle
  /\ \/ faults' = faults /\ swallowed' = swallowed
     \/ WriteFails /\ swallowed' = TRUE
  /\ UNCHANGED <<packet, chain>>
  /\ IF correction
     THEN Finishes("MANUAL_REVIEW_REQUIRED") /\ UNCHANGED <<turn, correction>>
     ELSE correction' = TRUE /\ Ask("correction", usage.rounds + 1, <<>>)
  /\ UNCHANGED <<cancelled, fileVars, dispatches, mode, state, usage, preceding, proof, gates>>

\* A service of the round raises.
ServiceFails ==
  /\ at \in {"prove", "promote", "build"} /\ ~cancelled
  /\ Handled("RUNTIME_FAILED")
  /\ KeepRound /\ UNCHANGED transportVars

\* _raise_if_cancelled before a service and after it, or JobCancelledError out of it.
ServiceCancelled ==
  /\ at \in {"prove", "proven", "promote", "build", "built"} /\ cancelled
  /\ Handled("CANCELLED")
  /\ KeepRound /\ UNCHANGED transportVars

Prove ==
  /\ at = "prove" /\ ~cancelled
  /\ at' = "proven" /\ proof' \in {"replay_proven", "failed"}
  /\ UNCHANGED <<transportVars, mode, state, usage, packet, preceding, correction, chain, gates,
                 ending, swallowed>>

\* Mutant: a candidate that is not replay-proven is promoted all the same.
ProvenAnyStatus ==
  /\ at = "proven" /\ ~cancelled
  /\ usage' = [usage EXCEPT !.rounds = @ + 1]
  /\ IF mode = "promote" THEN Moves(<<"PROMOTE_DERIVED_FINDING">>, "promote")
                         ELSE Finishes("MANUAL_REVIEW_REQUIRED") /\ UNCHANGED state
  /\ UNCHANGED <<transportVars, mode, packet, preceding, correction, chain, proof, gates, swallowed>>

Proven ==
  /\ at = "proven" /\ ~cancelled
  /\ IF proof # "replay_proven" THEN Finishes("PROOF_FAILED") /\ UNCHANGED <<usage, state>>
     ELSE /\ usage' = [usage EXCEPT !.rounds = @ + 1]
          /\ IF mode = "promote" THEN Moves(<<"PROMOTE_DERIVED_FINDING">>, "promote")
                                 ELSE Finishes("MANUAL_REVIEW_REQUIRED") /\ UNCHANGED state
  /\ UNCHANGED <<transportVars, mode, packet, preceding, correction, chain, proof, gates, swallowed>>

\* The derived finding, by the service promote.
Promote ==
  /\ at = "promote" /\ ~cancelled
  /\ Moves(<<"REFRESH_PACKET">>, "build")
  /\ UNCHANGED <<transportVars, mode, usage, packet, preceding, correction, chain, proof, gates,
                 swallowed>>

BuildBundle ==
  /\ at = "build" /\ ~cancelled
  /\ at' = "built"
  /\ UNCHANGED <<ending, transportVars>> /\ KeepRound

\* The derived packet becomes the current one; an identity that disagrees ends the session.
Refresh ==
  /\ at = "built" /\ ~cancelled
  /\ \/ Finishes("RUNTIME_FAILED") /\ UNCHANGED <<state, packet, preceding>>
     \/ /\ preceding' = packet /\ packet' = usage.rounds
        /\ Moves(<<"REVIEW_RESULT">>, "review_result")
  /\ UNCHANGED <<transportVars, mode, usage, correction, chain, proof, gates, swallowed>>

\* The ledger, the frames and the comparison are written, and the review begins a new
\* conversation on the derived packet.
ReviewResult ==
  /\ at = "review_result"
  /\ chain' = 0 /\ UNCHANGED packet
  /\ IF usage.cost >= MaxCost THEN Handled("BUDGET_EXHAUSTED") /\ UNCHANGED turn
                              ELSE Ask("review", usage.rounds, ReviewFiles)
  /\ UNCHANGED <<cancelled, faults, fileVars, dispatches, mode, state, usage, preceding,
                 correction, proof, gates, swallowed>>

EndingGate ==
  [SESSION_PASS |-> "SESSION_PASSED", SESSION_FAIL |-> "SESSION_FAILED",
   MANUAL_REVIEW_REQUIRED |-> "MANUAL_REVIEW_REQUIRED"]

GateMalformed ==
  /\ at = "gate" /\ turn = Idle
  /\ Finishes("MANUAL_REVIEW_REQUIRED")
  /\ KeepRound /\ UNCHANGED transportVars

GateEndsSession ==
  /\ at = "gate" /\ turn = Idle
  /\ \E g \in DOMAIN EndingGate : gates' = Append(gates, g) /\ Finishes(EndingGate[g])
  /\ UNCHANGED <<transportVars, mode, state, usage, packet, preceding, correction, chain, proof,
                 swallowed>>

\* Mutant: a revision is authored on the packet of the candidate it revises.
NextRoundKeepsDerived ==
  /\ at = "gate" /\ turn = Idle
  /\ \E g \in {"ROUND_ADVANCE", "ROUND_REVISE"} :
       /\ gates' = Append(gates, g)
       /\ IF usage.rounds >= MaxRounds THEN Finishes("BUDGET_EXHAUSTED") /\ UNCHANGED <<state, packet>>
          ELSE Moves(<<"OBSERVE">>, "round") /\ packet' = packet
  /\ UNCHANGED <<transportVars, mode, usage, preceding, correction, chain, proof, swallowed>>

\* resolve_round_authority: the derived packet is the base of the next round, or the one before
\* is again; past the proven rounds nothing is resolved.
NextRound ==
  /\ at = "gate" /\ turn = Idle
  /\ \E g \in {"ROUND_ADVANCE", "ROUND_REVISE"} :
       /\ gates' = Append(gates, g)
       /\ IF usage.rounds >= MaxRounds THEN Finishes("BUDGET_EXHAUSTED") /\ UNCHANGED <<state, packet>>
          ELSE /\ Moves(<<"OBSERVE">>, "round")
               /\ packet' = IF g = "ROUND_ADVANCE" THEN packet ELSE preceding
  /\ UNCHANGED <<transportVars, mode, usage, preceding, correction, chain, proof, swallowed>>

-----------------------------------------------------------------------------
(* count_initial_author_input: count_turn_input stops send_turn where it would dispatch *)

CountStarts ==
  /\ at = "new" /\ mode = "count"
  /\ at' = "count" /\ UNCHANGED ending
  /\ SendTurn(1, [phase |-> "count", round |-> 1, packet |-> packet, previous |-> 0], AuthorFiles)
  /\ KeepRound /\ UNCHANGED <<cancelled, faults, fileVars, dispatches>>

\* The count is recorded or an exception is on its way; the files are deleted either way.
CountEnds ==
  /\ at = "count" /\ turn.at = "raised" /\ turn' = Idle
  /\ \E kept \in SUBSET owned : CloseOwnedFiles(kept)
  /\ at' = "counted" /\ UNCHANGED ending
  /\ KeepRound /\ UNCHANGED <<cancelled, faults, dispatches>>

-----------------------------------------------------------------------------
Ended == at \in {"done", "escaped", "counted"}

\* The operator cancels while the session runs.
OperatorCancels == ~Ended /\ Cancel /\ UNCHANGED controlVars

SessionStep ==
  \/ SessionStarts \/ RoundBegins \/ InTransport \/ AuthorizeDispatch \/ TurnRaised \/ TurnReturned
  \/ OverrideValid \/ OverrideInvalid \/ Prove \/ Proven \/ Promote \/ BuildBundle \/ Refresh
  \/ ServiceFails \/ ServiceCancelled \/ ReviewResult
  \/ GateMalformed \/ GateEndsSession \/ NextRound
  \/ RecordFails \/ Finish \/ FinishStoreFailed \/ CountStarts \/ CountEnds

Next == SessionStep \/ OperatorCancels \/ (Ended /\ UNCHANGED vars)

Spec == Init /\ [][Next]_vars

\* The thread of the session goes on: every call of the transport has a timeout.
FairSpec == Spec /\ WF_vars(SessionStep)

-----------------------------------------------------------------------------
\* A response that may have been generated is never asked for again: only an answered turn is
\* followed by another dispatch, and a count dispatches nothing (docs/
\* packet_v8_automated_route_poc.md: "never resend or silently continue that turn").
NeverResent ==
  /\ \A i \in 1..(Len(dispatches) - 1) : dispatches[i].outcome = "answered"
  /\ mode = "count" => dispatches = <<>>

\* The packet that the gates so far, each with the packet its round derived, leave in force.
GatedPacket(n) ==
  FoldLeft(LAMBDA base, r : IF gates[r] = "ROUND_ADVANCE" THEN r ELSE base, 0, [r \in 1..n |-> r])

\* An author or correction turn is dispatched on the packet that the gates of the rounds before
\* leave in force, in a conversation of its own round; a review on the derived packet, in a
\* conversation of its own (resolve_round_authority and the resets of previous_response_id).
RoundAuthority ==
  \A i \in DOMAIN dispatches :
    LET r == dispatches[i].request
    IN  CASE r.phase = "author"     -> r.packet = GatedPacket(r.round - 1) /\ r.previous = 0
          [] r.phase = "correction" -> /\ r.packet = GatedPacket(r.round - 1)
                                       /\ r.previous = i - 1
                                       /\ dispatches[i - 1].request.round = r.round
                                       /\ dispatches[i - 1].request.phase = "author"
          [] r.phase = "review"     -> r.packet = r.round /\ r.previous = 0

\* What the provider has charged before a dispatch, and may charge for it by its exact count,
\* is within the budget: also when a turn ends unanswered and is not in the usage. Nor are more
\* responses taken in, over all rounds and corrections, than the budget grants.
ChargesWithinBudget ==
  /\ usage.responses <= MaxResponses /\ usage.rounds <= MaxRounds
  /\ \A i \in DOMAIN dispatches :
       dispatches[i].estimate + MapThenSumSet(LAMBDA j : dispatches[j].charge, 1..(i - 1)) <= MaxCost

\* A session that ends with files at the provider does not end as if all were well: either it
\* requires a manual review, or the run store failed (close_owned_files and _finish).
CleanupDebtIsVisible ==
  at = "done" /\ remote # {} => ending.disposition \in {"MANUAL_REVIEW_REQUIRED", "RUN_STORE_FAILED"}

\* What a restart would have to delete is on disk: every file at the provider is in
\* owned-provider-files.json, but those whose record has failed and that are about to be deleted.
OwnershipDurable ==
  remote \subseteq recorded \union (IF turn.at = "cleanup" THEN turn.uploaded ELSE {})

\* Every session ends, whatever the model, the provider and the store answer.
SessionEnds == <>Ended

\* A session is passed on a derived packet only, replay-proven, reviewed and gated in its round.
PassedIsProven ==
  at = "done" /\ ending.disposition = "SESSION_PASSED" =>
    /\ proof = "replay_proven" /\ packet = usage.rounds /\ Len(gates) = usage.rounds
    /\ Last(dispatches).request = [phase |-> "review", round |-> packet, packet |-> packet, previous |-> 0]
    /\ Last(dispatches).outcome = "answered"

\* A session whose run store failed does not end as passed or failed on its merits. The one way
\* to lose a write unseen is the handler of an invalid override, which takes the failure for one.
StoreFailureIsNotSuccess ==
  at = "done" /\ faults > 0 /\ ending.disposition \in {"SESSION_PASSED", "SESSION_FAILED"} => swallowed

=============================================================================
