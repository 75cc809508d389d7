-------------------------- MODULE ScalarSweep_proofs --------------------------
(***************************************************************************)
(* Theorems about ScalarSweep, for every number of members and every bound   *)
(* on the publications of the runtime.                                      *)
(***************************************************************************)
EXTENDS ScalarSweep, SequenceTheorems, TLAPS

-----------------------------------------------------------------------------
(* The inductive invariant *)

Count == Len(members)

\* What execute() knows at each place of it.
PlaceOrder ==
  /\ at = "proof" <=> proofAt # "none"
  /\ at = "validate" => members = <<>> /\ disposition = "COMPLETE" /\ stopStatus = "none"
  /\ at = "proof" => Count < MemberCount /\ stopStatus = "none"
  /\ at = "after" => /\ Count > 0 /\ stopStatus = "none"
                     /\ members[Count].status \in {"REPLAY_PROVEN"} \union Failure
  /\ at \in {"receipt", "bare receipt", "web review", "returned"} => Count = MemberCount
  /\ disposition = "PRESENTATION_FAILED" => at \in {"bare receipt", "returned", "raised"}
  /\ receipt # "none" => /\ at \in {"web review", "returned", "raised"}
                         /\ Count = MemberCount /\ receipt = disposition

\* The members on whose proof the checks of AfterMember have been made.
Judged == {i \in DOMAIN members : at = "after" => i < Count}

\* The disposition goes with the status of the members to come, and accounts for those judged.
StopOrder ==
  /\ disposition = "COMPLETE" =>
       stopStatus = "none" /\ \A i \in Judged : members[i].status = "REPLAY_PROVEN"
  /\ disposition = "PARTIAL_MEMBER_FAILURES" =>
       /\ stopStatus = "none" /\ policy = "continue_independent"
       /\ \A i \in Judged : members[i].status \in {"REPLAY_PROVEN"} \union Failure
       /\ \E i \in Judged : members[i].status \in Failure
  /\ disposition = "STOPPED_AFTER_MEMBER_FAILURE" =>
       policy = "stop_on_first_failure" /\ stopStatus = "NOT_STARTED_AFTER_FAILURE"
  /\ disposition = "AUTHORITY_DRIFT" => stopStatus = "NOT_STARTED_AFTER_AUTHORITY_DRIFT"
  /\ disposition = "CANCELLED" => stopStatus = "NOT_STARTED_AFTER_CANCEL"

\* The members that were not started are the last ones, for one reason; the others have their
\* receipts.
MemberOrder ==
  /\ \A i \in DOMAIN members : members[i].status \in NotStarted => members[i].status = stopStatus
  /\ \A i, j \in DOMAIN members :
       i < j /\ members[i].status \in NotStarted => members[j].status = members[i].status
  /\ \A i \in 1..MemberCount :
       i \in refs <=> i \in DOMAIN members /\ members[i].status \notin NotStarted

\* Publications only go up: what was proven since the binding lies between the binding and now,
\* and under the binding if the check after it found nothing.
Uninterrupted == {"COMPLETE", "PARTIAL_MEMBER_FAILURES", "STOPPED_AFTER_MEMBER_FAILURE"}
RuntimeOrder ==
  /\ bound <= runtime
  /\ proofAt \notin {"none", "assess"} => bound <= proofRuntime /\ proofRuntime <= runtime
  /\ proofAt \in {"materialize", "materializing", "replay", "replaying", "verify", "proven"} =>
       (mode = "strict" => proofRuntime = captured)
  /\ \A i \in DOMAIN members : members[i].status = "REPLAY_PROVEN" =>
       /\ bound <= members[i].runtime /\ members[i].runtime <= runtime
       /\ mode = "strict" => members[i].runtime = captured
       /\ i \in Judged /\ disposition \in Uninterrupted => members[i].runtime = bound

IInv == TypeOK /\ PlaceOrder /\ StopOrder /\ MemberOrder /\ RuntimeOrder

-----------------------------------------------------------------------------

LEMMA InitHolds == Init => IInv
<1> SUFFICES ASSUME Init PROVE IInv
  OBVIOUS
<1>1. members = <<>> /\ <<>> \in Seq([status : Status, runtime : Nat]) /\ Len(members) = 0
      /\ DOMAIN members = {}
  BY DEF Init
<1>2. TypeOK
  <2>1. edited \in BOOLEAN /\ cancelled \in BOOLEAN /\ driftSeen \in BOOLEAN
    BY Zenon DEF Init
  <2>2. Len(members) <= MemberCount
    BY <1>1, SweepAssumption
  <2>3. QED
    BY <1>1, <2>1, <2>2 DEF Init, TypeOK, Disposition
<1>3. PlaceOrder
  BY <1>1 DEF Init, PlaceOrder, Count
<1>4. StopOrder /\ MemberOrder /\ RuntimeOrder
  BY <1>1, SweepAssumption DEF Init, StopOrder, MemberOrder, RuntimeOrder, Judged, TypeOK
<1>5. QED
  BY <1>2, <1>3, <1>4 DEF IInv

\* The list of members is a sequence.
LEMMA MembersListed ==
  ASSUME TypeOK
  PROVE  /\ Count \in Nat /\ DOMAIN members = 1..Count
         /\ \A i \in DOMAIN members : members[i].status \in Status /\ members[i].runtime \in Nat
<1>1. members \in Seq([status : Status, runtime : Nat])
  BY DEF TypeOK
<1>2. Len(members) \in Nat /\ DOMAIN members = 1..Len(members)
  BY <1>1, LenProperties
<1>3. \A i \in DOMAIN members : members[i] \in [status : Status, runtime : Nat]
  BY <1>1, <1>2, ElementOfSeq
<1>4. QED
  BY <1>2, <1>3 DEF Count

\* One more member.
LEMMA MemberAdded ==
  ASSUME TypeOK, NEW r \in [status : Status, runtime : Nat], members' = Append(members, r),
         Count < MemberCount
  PROVE  /\ members' \in Seq([status : Status, runtime : Nat])
         /\ Count' = Count + 1 /\ Count' <= MemberCount /\ Count \in Nat
         /\ DOMAIN members = 1..Count /\ DOMAIN members' = 1..Count + 1
         /\ \A i \in DOMAIN members : members'[i] = members[i]
         /\ members'[Count + 1] = r
<1> DEFINE S == [status : Status, runtime : Nat]
<1>1. members \in Seq(S) /\ Count = Len(members) /\ Count' = Len(members')
  BY DEF TypeOK, Count
<1> HIDE DEF S
<1>2. r \in S
  BY DEF S
<1>3. /\ members' \in Seq(S) /\ Len(members') = Len(members) + 1
      /\ \A i \in 1..Len(members) : members'[i] = members[i]
      /\ members'[Len(members) + 1] = r
  BY <1>1, <1>2, AppendProperties
<1>4. /\ Len(members) \in Nat /\ DOMAIN members = 1..Len(members)
      /\ DOMAIN members' = 1..Len(members')
  BY <1>1, <1>3, LenProperties
<1>5. members' \in Seq([status : Status, runtime : Nat])
  BY <1>3 DEF S
<1>6. Count' <= MemberCount
  BY <1>1, <1>3, <1>4, SweepAssumption
<1>7. QED
  BY <1>1, <1>3, <1>4, <1>5, <1>6

\* A step that leaves the books alone keeps the types, if it goes to a place of the code.
LEMMA TypesStay ==
  ASSUME TypeOK,
         UNCHANGED <<envVars, planVars, memberVars, diskVars, proofRuntime>>,
         at' \in {"validate", "member", "proof", "after", "receipt", "bare receipt",
                 "web review", "returned", "raised"},
         bound' \in Nat,
         proofAt' \in {"none", "assess", "materialize", "materializing", "replay", "replaying",
                      "verify"} \union DOMAIN MemberStatus,
         review' \in {"none", "blocked", "cancelled", "dispatched"}
  PROVE  TypeOK'
<1>1. UNCHANGED <<runtime, edited, cancelled, policy, mode, captured, members,
                  disposition, stopStatus, driftSeen, proofRuntime, refs, receipt>>
  BY DEF envVars, planVars, memberVars, diskVars
<1>2. driftSeen' \in BOOLEAN /\ edited' \in BOOLEAN /\ cancelled' \in BOOLEAN
  BY <1>1, Zenon DEF TypeOK
<1>3. /\ (members \in Seq([status : Status, runtime : Nat]) /\ Len(members) <= MemberCount)'
      /\ (refs \subseteq 1..MemberCount /\ receipt \in Disposition \union {"none"})'
  BY <1>1, Zenon DEF TypeOK
<1>4. /\ (disposition \in Disposition /\ stopStatus \in NotStarted \union {"none"})'
      /\ (proofRuntime \in Nat /\ runtime \in Nat)'
  BY <1>1, Zenon DEF TypeOK
<1>5. /\ (policy \in {"stop_on_first_failure", "continue_independent"})'
      /\ (mode \in {"development", "strict"} /\ captured \in {0, 1})'
  BY <1>1, Zenon DEF TypeOK
<1>6. QED
  BY <1>2, <1>3, <1>4, <1>5, Zenon DEF TypeOK

\* What the world around does changes nothing the sweep has on its books.
LEMMA EnvironmentKeeps ==
  ASSUME IInv, Publish \/ EditPacket \/ Cancel
  PROVE  IInv'
<1>1. /\ runtime' \in Nat /\ runtime <= runtime' /\ edited' \in BOOLEAN /\ cancelled' \in BOOLEAN
      /\ UNCHANGED <<planVars, at, bound, memberVars, proofVars, diskVars, review>>
  <2>1. runtime \in Nat /\ edited \in BOOLEAN /\ cancelled \in BOOLEAN
    BY DEF IInv, TypeOK
  <2>2. CASE Publish
    BY <2>1, <2>2 DEF Publish
  <2>3. CASE EditPacket
    BY <2>1, <2>3 DEF EditPacket
  <2>4. CASE Cancel
    BY <2>1, <2>4 DEF Cancel
  <2>5. QED
    BY <2>2, <2>3, <2>4
<1>2. TypeOK'
  <2>1. UNCHANGED <<policy, mode, captured, at, bound, members, disposition, stopStatus, driftSeen,
                    proofAt, proofRuntime, refs, receipt, review>>
    BY <1>1 DEF planVars, memberVars, proofVars, diskVars
  <2>2. review' \in {"none", "blocked", "cancelled", "dispatched"}
    BY <1>1, Zenon DEF IInv, TypeOK
  <2>3. driftSeen' \in BOOLEAN
    BY <2>1, Zenon DEF IInv, TypeOK
  <2>4. QED
    BY <1>1, <2>1, <2>2, <2>3 DEF IInv, TypeOK
<1>3. (PlaceOrder /\ StopOrder /\ MemberOrder)'
  BY <1>1 DEF IInv, PlaceOrder, StopOrder, MemberOrder, Judged, Count, planVars, memberVars,
     proofVars, diskVars
<1>4. RuntimeOrder'
  <2>1. UNCHANGED <<mode, captured, at, bound, members, disposition, proofAt, proofRuntime>>
    BY <1>1 DEF planVars, memberVars, proofVars
  <2>2. Judged' = Judged
    BY <2>1 DEF Judged, Count
  <2>3. /\ runtime \in Nat /\ bound \in Nat /\ proofRuntime \in Nat
        /\ \A i \in DOMAIN members : members[i].runtime \in Nat
    BY MembersListed DEF IInv, TypeOK
  <2>4. \A n \in Nat : n <= runtime => n <= runtime'
    BY <1>1, <2>3
  <2>5. QED
    BY <2>1, <2>2, <2>3, <2>4 DEF IInv, RuntimeOrder
<1>5. QED
  BY <1>2, <1>3, <1>4 DEF IInv

LEMMA ValidateKeeps == ASSUME IInv, Validate PROVE IInv'
<1>1. /\ UNCHANGED <<envVars, planVars, review, memberVars, proofVars, diskVars>>
      /\ members = <<>> /\ DOMAIN members = {} /\ Len(members) = 0
      /\ at = "validate" /\ at' \in {"raised", "member"} /\ bound' \in {bound, runtime}
      /\ disposition = "COMPLETE" /\ stopStatus = "none" /\ proofAt = "none" /\ receipt = "none"
  BY DEF IInv, PlaceOrder, Validate, Step
<1>2. TypeOK'
  <2>1. /\ TypeOK /\ UNCHANGED <<proofAt, proofRuntime>> /\ UNCHANGED review
        /\ bound \in Nat /\ runtime \in Nat
    BY <1>1 DEF IInv, TypeOK, proofVars
  <2>2. QED
    BY <1>1, <2>1, TypesStay DEF TypeOK
<1>3. PlaceOrder'
  BY <1>1 DEF PlaceOrder, memberVars, proofVars, diskVars
<1>4. (StopOrder /\ MemberOrder)'
  BY <1>1 DEF IInv, StopOrder, MemberOrder, Judged, memberVars, diskVars
<1>5. RuntimeOrder'
  BY <1>1 DEF IInv, TypeOK, RuntimeOrder, envVars, memberVars, proofVars
<1>6. QED
  BY <1>2, <1>3, <1>4, <1>5 DEF IInv

LEMMA SkipMemberKeeps == ASSUME IInv, SkipMember PROVE IInv'
<1>1. PICK s \in NotStarted :
        /\ members' = Append(members, Result(s, 0))
        /\ stopStatus' = s /\ (stopStatus = "none" \/ (stopStatus = s /\ UNCHANGED disposition))
        /\ stopStatus = "none" =>
             \/ s = "NOT_STARTED_AFTER_CANCEL" /\ disposition' = "CANCELLED"
             \/ s = "NOT_STARTED_AFTER_AUTHORITY_DRIFT" /\ disposition' = "AUTHORITY_DRIFT"
        /\ driftSeen' \in BOOLEAN
  <2>1. CASE stopStatus # "none"
    BY <2>1 DEF IInv, TypeOK, SkipMember
  <2>2. CASE stopStatus = "none"
    BY <2>2 DEF IInv, TypeOK, SkipMember, StopAs, NotStarted
  <2>3. QED
    BY <2>1, <2>2
<1>2. /\ at = "member" /\ at' = "member" /\ Count < MemberCount
      /\ UNCHANGED <<envVars, planVars, review, bound, proofVars, diskVars>>
  BY DEF SkipMember, Step, Count
<1>3. Result(s, 0) \in [status : Status, runtime : Nat] /\ Result(s, 0).status = s
  BY DEF Result, Status
<1>4. /\ members' \in Seq([status : Status, runtime : Nat])
      /\ Count' = Count + 1 /\ Count' <= MemberCount /\ Count \in Nat
      /\ DOMAIN members = 1..Count /\ DOMAIN members' = 1..Count + 1
      /\ \A i \in DOMAIN members : members'[i] = members[i]
      /\ members'[Count + 1].status = s
  BY <1>1, <1>2, <1>3, MemberAdded DEF IInv
<1>5. disposition' \in Disposition
  BY <1>1 DEF IInv, TypeOK, Disposition
<1>6. TypeOK'
  BY <1>1, <1>2, <1>4, <1>5 DEF IInv, TypeOK, Count, envVars, planVars, proofVars, diskVars
<1>7. PlaceOrder'
  BY <1>1, <1>2 DEF IInv, PlaceOrder, proofVars, diskVars
<1>8. StopOrder'
  BY <1>1, <1>2 DEF IInv, TypeOK, StopOrder, NotStarted, planVars
<1>9. MemberOrder'
  <2>1. \A i \in DOMAIN members : members[i].status \in NotStarted => stopStatus = s
    BY <1>1 DEF IInv, MemberOrder, NotStarted
  <2>2. \A i \in DOMAIN members' : members'[i].status \in NotStarted => members'[i].status = s
    BY <1>4, <2>1 DEF IInv, MemberOrder
  <2>3. ASSUME NEW i \in DOMAIN members', NEW j \in DOMAIN members', i < j,
               members'[i].status \in NotStarted
        PROVE  members'[j].status = members'[i].status
    <3>1. i \in DOMAIN members /\ members'[i].status = s
      BY <1>4, <2>2, <2>3
    <3>2. CASE j = Count + 1
      BY <1>4, <3>1, <3>2
    <3>3. CASE j \in DOMAIN members
      BY <1>4, <2>3, <3>1, <3>3 DEF IInv, MemberOrder
    <3>4. QED
      BY <1>4, <3>2, <3>3
  <2>4. \A i \in 1..MemberCount :
          i \in refs' <=> i \in DOMAIN members' /\ members'[i].status \notin NotStarted
    BY <1>1, <1>2, <1>4, SweepAssumption DEF IInv, MemberOrder, diskVars
  <2>5. QED
    BY <1>1, <2>2, <2>3, <2>4 DEF MemberOrder
<1>10. RuntimeOrder'
  <2>1. disposition' \in Uninterrupted => disposition' = disposition
    BY <1>1 DEF Uninterrupted
  <2>2. \A i \in DOMAIN members' : members'[i].status = "REPLAY_PROVEN" =>
          i \in DOMAIN members /\ members'[i] = members[i]
    BY <1>1, <1>4 DEF NotStarted
  <2>3. \A i \in DOMAIN members : i \in Judged
    BY <1>2 DEF Judged
  <2>4. QED
    BY <1>2, <2>1, <2>2, <2>3 DEF IInv, RuntimeOrder, envVars, planVars, proofVars
<1>11. QED
  BY <1>6, <1>7, <1>8, <1>9, <1>10 DEF IInv

LEMMA StartMemberKeeps == ASSUME IInv, StartMember PROVE IInv'
<1>1. /\ UNCHANGED <<envVars, planVars, review, bound, memberVars, proofRuntime, diskVars>>
      /\ at = "member" /\ Count < MemberCount /\ stopStatus = "none" /\ proofAt = "none"
      /\ \/ proofAt' = "assess" /\ at' = "proof"
         \/ proofAt' = "none" /\ at' = "raised"
  BY DEF IInv, PlaceOrder, StartMember, Step, Count
<1>2. TypeOK'
  <2>1. TypeOK /\ bound' \in Nat /\ UNCHANGED review
    BY <1>1 DEF IInv, TypeOK
  <2>2. QED
    BY <1>1, <2>1, TypesStay DEF TypeOK
<1>3. PlaceOrder'
  BY <1>1 DEF IInv, PlaceOrder, Count, memberVars, diskVars
<1>4. Judged' = Judged
  BY <1>1 DEF Judged, memberVars
<1>5. (StopOrder /\ MemberOrder)'
  BY <1>1, <1>4 DEF IInv, StopOrder, MemberOrder, planVars, memberVars, diskVars
<1>6. RuntimeOrder'
  BY <1>1, <1>4 DEF IInv, RuntimeOrder, envVars, planVars, memberVars
<1>7. QED
  BY <1>2, <1>3, <1>5, <1>6 DEF IInv

\* What a step of the proof has to do with the runtime it is bound to.
ProofStage == {"materialize", "materializing", "replay", "replaying", "verify", "proven"}
LEMMA ProofStepKeeps ==
  ASSUME IInv, NEW next \in {"rejected", "reverted", "cancelled"} \union ProofStage,
         ProofGoesTo(next), proofAt # "none",
         proofRuntime' \in Nat, bound <= proofRuntime', proofRuntime' <= runtime,
         next \in ProofStage => (mode = "strict" => proofRuntime' = captured)
  PROVE  IInv'
<1>1. /\ UNCHANGED <<envVars, planVars, review, bound, memberVars, diskVars>>
      /\ at = "proof" /\ at' = "proof" /\ proofAt' = next
  BY DEF IInv, PlaceOrder, ProofGoesTo, Step
<1>2. TypeOK'
  BY <1>1 DEF IInv, TypeOK, ProofStage, MemberStatus, envVars, planVars, memberVars, diskVars
<1>3. PlaceOrder'
  BY <1>1 DEF IInv, PlaceOrder, ProofStage, Count, memberVars, diskVars
<1>4. Judged' = Judged
  BY <1>1 DEF Judged, memberVars
<1>5. (StopOrder /\ MemberOrder)'
  BY <1>1, <1>4 DEF IInv, StopOrder, MemberOrder, planVars, memberVars, diskVars
<1>6. RuntimeOrder'
  BY <1>1, <1>4 DEF IInv, RuntimeOrder, ProofStage, envVars, planVars, memberVars
<1>7. QED
  BY <1>2, <1>3, <1>5, <1>6 DEF IInv

LEMMA ProofKeeps == ASSUME IInv, Proof PROVE IInv'
<1> USE DEF ProofStage
<1>1. CASE ProofAssess
  <2>1. proofRuntime' = runtime /\ proofAt = "assess"
    BY <1>1 DEF ProofAssess
  <2>5. runtime \in Nat /\ bound <= runtime /\ runtime <= runtime
    <3>1. runtime \in Nat
      BY DEF IInv, TypeOK
    <3>2. bound <= runtime
      BY DEF IInv, RuntimeOrder
    <3>3. QED
      BY <3>1, <3>2
  <2>2. CASE (mode = "strict" => runtime = captured) /\ ProofGoesTo("materialize")
    BY <2>1, <2>2, <2>5, ProofStepKeeps
  <2>3. CASE ProofGoesTo("rejected")
    BY <2>1, <2>3, <2>5, ProofStepKeeps
  <2>4. QED
    BY <1>1, <2>2, <2>3 DEF ProofAssess
<1>2. ASSUME UNCHANGED proofRuntime, proofAt \in ProofStage \ {"proven"},
             NEW next \in {"rejected", "reverted", "cancelled"} \union ProofStage,
             ProofGoesTo(next)
      PROVE  IInv'
  <2>1. bound <= proofRuntime /\ proofRuntime <= runtime
        /\ (mode = "strict" => proofRuntime = captured) /\ proofRuntime \in Nat
    BY <1>2 DEF IInv, TypeOK, RuntimeOrder
  <2>2. QED
    BY <1>2, <2>1, ProofStepKeeps
<1>3. CASE \/ EngineStarts("materialize", "materializing") \/ EngineStarts("replay", "replaying")
  BY <1>2, <1>3 DEF EngineStarts
<1>4. CASE \/ EngineEnds("materializing", {"replay", "reverted"}) \/ EngineEnds("replaying", {"verify"})
  BY <1>2, <1>4 DEF EngineEnds
<1>5. CASE ProofVerify
  BY <1>2, <1>5 DEF ProofVerify
<1>6. QED
  BY <1>1, <1>3, <1>4, <1>5 DEF Proof

LEMMA EndMemberKeeps == ASSUME IInv, EndMember PROVE IInv'
<1>1. /\ at = "proof" /\ proofAt \in DOMAIN MemberStatus /\ proofAt' = "none"
      /\ UNCHANGED <<envVars, planVars, review, receipt, bound, proofRuntime>>
      /\ Count < MemberCount /\ stopStatus = "none" /\ receipt = "none"
      /\ disposition \in {"COMPLETE", "PARTIAL_MEMBER_FAILURES"}
  BY DEF IInv, TypeOK, PlaceOrder, StopOrder, Disposition, EndMember, ProofOver, Step, diskVars
<1>2. CASE at' = "raised" /\ UNCHANGED <<memberVars, diskVars>>
  <2>1. Judged' = Judged
    BY <1>1, <1>2 DEF Judged, memberVars
  <2>2. TypeOK'
    BY <1>1, <1>2 DEF IInv, TypeOK, envVars, planVars, memberVars, diskVars
  <2>3. PlaceOrder'
    BY <1>1, <1>2 DEF PlaceOrder, memberVars
  <2>4. (StopOrder /\ MemberOrder)'
    BY <1>1, <1>2, <2>1 DEF IInv, StopOrder, MemberOrder, planVars, memberVars, diskVars
  <2>5. RuntimeOrder'
    BY <1>1, <1>2, <2>1 DEF IInv, RuntimeOrder, envVars, planVars, memberVars
  <2>6. QED
    BY <2>2, <2>3, <2>4, <2>5 DEF IInv
<1>3. CASE ~(at' = "raised" /\ UNCHANGED <<memberVars, diskVars>>)
  <2> DEFINE s == MemberStatus[proofAt]
             r == Ending(s)
  <2>1. /\ members' = Append(members, r) /\ refs' = refs \union {Count + 1}
        /\ proofAt = "cancelled" =>
             /\ at' = "member" /\ disposition' = "CANCELLED" /\ driftSeen' = driftSeen
             /\ stopStatus' = "NOT_STARTED_AFTER_CANCEL"
        /\ proofAt # "cancelled" => at' = "after" /\ UNCHANGED <<disposition, stopStatus, driftSeen>>
    BY <1>3 DEF EndMember, Step, StopAs, Count, IInv, TypeOK
  <2>2. /\ s \in {"REPLAY_PROVEN", "CANCELLED_DURING_PROOF"} \union Failure
        /\ proofAt = "cancelled" <=> s = "CANCELLED_DURING_PROOF"
        /\ proofAt = "proven" <=> s = "REPLAY_PROVEN"
    BY <1>1 DEF MemberStatus, Failure
  <2> HIDE DEF s
  <2>3. /\ r \in [status : Status, runtime : Nat] /\ r.status = s
        /\ s = "REPLAY_PROVEN" => r.runtime = proofRuntime
    BY <2>2 DEF Ending, Result, Status, IInv, TypeOK
  <2> HIDE DEF r
  <2>4. /\ members' \in Seq([status : Status, runtime : Nat])
        /\ Count' = Count + 1 /\ Count' <= MemberCount /\ Count \in Nat
        /\ DOMAIN members = 1..Count /\ DOMAIN members' = 1..Count + 1
        /\ \A i \in DOMAIN members : members'[i] = members[i]
        /\ members'[Count + 1] = r
    BY <1>1, <2>1, <2>3, MemberAdded DEF IInv
  <2>5. /\ s \notin NotStarted
        /\ \A i \in DOMAIN members : members[i].status \notin NotStarted
    BY <1>1, <2>2 DEF IInv, MemberOrder, NotStarted, Failure
  <2>6. \A i \in DOMAIN members : i \in Judged
    BY <1>1 DEF Judged
  <2>7. TypeOK'
    <3>1. disposition' \in Disposition /\ stopStatus' \in NotStarted \union {"none"}
          /\ driftSeen' \in BOOLEAN /\ at' \in {"member", "after"}
      BY <2>1 DEF IInv, TypeOK, Disposition, NotStarted
    <3>2. refs' \subseteq 1..MemberCount
      BY <1>1, <2>1, <2>4, SweepAssumption DEF IInv, TypeOK
    <3>3. QED
      BY <1>1, <2>4, <3>1, <3>2 DEF IInv, TypeOK, Count, envVars, planVars
  <2>8. PlaceOrder'
    <3>1. at' = "after" => members'[Count'].status \in {"REPLAY_PROVEN"} \union Failure
      BY <2>1, <2>2, <2>3, <2>4
    <3>2. CASE proofAt = "cancelled"
      BY <1>1, <2>1, <3>2 DEF PlaceOrder
    <3>3. CASE proofAt # "cancelled"
      BY <1>1, <2>1, <2>4, <3>1, <3>3 DEF PlaceOrder
    <3>4. QED
      BY <3>2, <3>3
  <2>9. StopOrder'
    <3>1. CASE at' = "member"
      BY <2>1, <3>1 DEF StopOrder
    <3>2. CASE at' = "after"
      <4>1. Judged' = DOMAIN members
        BY <2>4, <3>2 DEF Judged
      <4>2. UNCHANGED <<disposition, stopStatus, policy>>
        BY <1>1, <2>1, <3>2 DEF planVars
      <4>3. Judged = DOMAIN members
        BY <2>6 DEF Judged
      <4>4. \A i \in DOMAIN members : members'[i].status = members[i].status
        BY <2>4
      <4>5. CASE disposition = "COMPLETE"
        <5>1. stopStatus = "none" /\ \A i \in Judged : members[i].status = "REPLAY_PROVEN"
          BY <4>5 DEF IInv, StopOrder
        <5>2. \A i \in Judged' : members'[i].status = "REPLAY_PROVEN"
          BY <4>1, <4>3, <4>4, <5>1, Zenon
        <5>3. disposition' = "COMPLETE" /\ stopStatus' = "none"
          BY <4>2, <4>5, <5>1
        <5>4. QED
          BY <5>2, <5>3 DEF StopOrder
      <4>6. CASE disposition = "PARTIAL_MEMBER_FAILURES"
        <5>1. /\ stopStatus = "none" /\ policy = "continue_independent"
              /\ \A i \in Judged : members[i].status \in {"REPLAY_PROVEN"} \union Failure
              /\ \E i \in Judged : members[i].status \in Failure
          BY <4>6 DEF IInv, StopOrder
        <5>2. /\ \A i \in Judged' : members'[i].status \in {"REPLAY_PROVEN"} \union Failure
              /\ \E i \in Judged' : members'[i].status \in Failure
          BY <4>1, <4>3, <4>4, <5>1, Zenon
        <5>3. /\ disposition' = "PARTIAL_MEMBER_FAILURES"
              /\ stopStatus' = "none" /\ policy' = "continue_independent"
          BY <4>2, <4>6, <5>1
        <5>4. QED
          BY <5>2, <5>3 DEF StopOrder
      <4>7. QED
        BY <1>1, <4>5, <4>6
    <3>3. QED
      BY <2>1, <3>1, <3>2
  <2>10. MemberOrder'
    <3>1. \A i \in DOMAIN members' : members'[i].status \notin NotStarted
      BY <2>3, <2>4, <2>5, SMTT(30)
    <3>2. \A i \in 1..MemberCount : i \in refs' <=> i \in DOMAIN members'
      BY <1>1, <2>1, <2>4, <2>5, SMTT(30) DEF IInv, MemberOrder
    <3>3. QED
      BY <3>1, <3>2 DEF MemberOrder
  <2>11. RuntimeOrder'
    <3>1. s = "REPLAY_PROVEN" =>
            /\ bound <= proofRuntime /\ proofRuntime <= runtime
            /\ mode = "strict" => proofRuntime = captured
      BY <2>2 DEF IInv, RuntimeOrder
    <3>2. Count + 1 \in Judged' => disposition' = "CANCELLED"
      BY <1>1, <2>1, <2>4 DEF Judged
    <3>3. ASSUME NEW i \in DOMAIN members', members'[i].status = "REPLAY_PROVEN"
          PROVE  /\ bound <= members'[i].runtime /\ members'[i].runtime <= runtime
                 /\ mode = "strict" => members'[i].runtime = captured
                 /\ i \in Judged' /\ disposition' \in Uninterrupted => members'[i].runtime = bound
      <4>1. CASE i = Count + 1
        BY <2>3, <2>4, <3>1, <3>2, <3>3, <4>1 DEF Uninterrupted
      <4>2. CASE i \in DOMAIN members
        <5>1. disposition' \in Uninterrupted => disposition' = disposition
          BY <2>1 DEF Uninterrupted
        <5>2. QED
          BY <2>4, <2>6, <3>3, <4>2, <5>1 DEF IInv, RuntimeOrder
      <4>3. QED
        BY <2>4, <4>1, <4>2
    <3>4. QED
      BY <1>1, <3>3 DEF IInv, RuntimeOrder, envVars, planVars
  <2>12. QED
    BY <2>7, <2>8, <2>9, <2>10, <2>11 DEF IInv
<1>4. QED
  BY <1>2, <1>3

LEMMA AfterMemberKeeps == ASSUME IInv, AfterMember PROVE IInv'
<1>1. /\ at = "after" /\ at' = "member"
      /\ UNCHANGED <<envVars, planVars, review, bound, members, proofVars, diskVars>>
      /\ Count > 0 /\ stopStatus = "none" /\ proofAt = "none" /\ receipt = "none"
      /\ members[Count].status \in {"REPLAY_PROVEN"} \union Failure
      /\ disposition \in {"COMPLETE", "PARTIAL_MEMBER_FAILURES"}
  BY DEF IInv, TypeOK, PlaceOrder, StopOrder, Disposition, AfterMember, Step
<1>2. Count \in Nat /\ DOMAIN members = 1..Count
  BY MembersListed DEF IInv
<1>3. Judged = 1..(Count - 1) /\ Judged' = 1..Count
  BY <1>1, <1>2 DEF Judged
<1>4. driftSeen' \in BOOLEAN
  BY DEF AfterMember, StopAs, IInv, TypeOK
<1>5. \/ disposition' = "CANCELLED" /\ stopStatus' = "NOT_STARTED_AFTER_CANCEL"
      \/ disposition' = "AUTHORITY_DRIFT" /\ stopStatus' = "NOT_STARTED_AFTER_AUTHORITY_DRIFT"
      \/ /\ AuthorityMatches /\ members[Count].status \in Failure
         /\ \/ /\ policy = "stop_on_first_failure"
               /\ disposition' = "STOPPED_AFTER_MEMBER_FAILURE"
               /\ stopStatus' = "NOT_STARTED_AFTER_FAILURE"
            \/ /\ policy = "continue_independent"
               /\ disposition' = "PARTIAL_MEMBER_FAILURES" /\ stopStatus' = "none"
      \/ /\ AuthorityMatches /\ members[Count].status \notin Failure
         /\ UNCHANGED <<disposition, stopStatus>>
  BY DEF AfterMember, StopAs, LastFailed, Count, IInv, TypeOK
<1>6. TypeOK'
  <2>1. disposition' \in Disposition /\ stopStatus' \in NotStarted \union {"none"}
    BY <1>1, <1>5 DEF Disposition, NotStarted
  <2>2. QED
    BY <1>1, <1>4, <2>1 DEF IInv, TypeOK, envVars, planVars, proofVars, diskVars
<1>7. PlaceOrder'
  BY <1>1, <1>5 DEF PlaceOrder, proofVars, diskVars
<1>8. StopOrder'
  <2>1. \A i \in Judged : members[i].status \in {"REPLAY_PROVEN"} \union Failure
    BY <1>1 DEF IInv, StopOrder
  <2>2. \A i \in Judged' : i \in Judged \/ i = Count
    BY <1>2, <1>3
  <2>3. Count \in Judged' /\ \A i \in Judged : i \in Judged'
    BY <1>1, <1>2, <1>3
  <2>4. CASE disposition' \in {"CANCELLED", "AUTHORITY_DRIFT", "STOPPED_AFTER_MEMBER_FAILURE"}
    BY <1>1, <1>5, <2>4 DEF StopOrder, planVars
  <2>5. CASE disposition' = "PARTIAL_MEMBER_FAILURES" /\ members[Count].status \in Failure
    BY <1>1, <1>5, <2>1, <2>2, <2>3, <2>5 DEF StopOrder, planVars
  <2>6. CASE UNCHANGED <<disposition, stopStatus>> /\ members[Count].status = "REPLAY_PROVEN"
    <3>1. CASE disposition = "COMPLETE"
      BY <1>1, <2>2, <2>6, <3>1 DEF IInv, StopOrder
    <3>2. CASE disposition = "PARTIAL_MEMBER_FAILURES"
      BY <1>1, <2>1, <2>2, <2>3, <2>6, <3>2 DEF IInv, StopOrder, planVars
    <3>3. QED
      BY <1>1, <3>1, <3>2
  <2>7. QED
    BY <1>1, <1>5, <2>4, <2>5, <2>6
<1>9. MemberOrder'
  <2>1. \A i \in DOMAIN members : members[i].status \notin NotStarted
    BY <1>1 DEF IInv, MemberOrder, NotStarted
  <2>2. QED
    BY <1>1, <2>1 DEF IInv, MemberOrder, diskVars
<1>10. RuntimeOrder'
  <2>1. disposition' \in Uninterrupted => runtime = bound
    BY <1>5 DEF Uninterrupted, AuthorityMatches
  <2>2. ASSUME NEW i \in DOMAIN members, members[i].status = "REPLAY_PROVEN",
               disposition' \in Uninterrupted
        PROVE  members[i].runtime = bound
    <3>1. bound <= members[i].runtime /\ members[i].runtime <= runtime
      BY <2>2 DEF IInv, RuntimeOrder
    <3>2. members[i].runtime \in Nat /\ runtime \in Nat
      BY <2>2, MembersListed DEF IInv, TypeOK
    <3>3. QED
      BY <2>1, <2>2, <3>1, <3>2
  <2>3. QED
    BY <1>1, <2>2 DEF IInv, RuntimeOrder, envVars, planVars, proofVars
<1>11. QED
  BY <1>6, <1>7, <1>8, <1>9, <1>10 DEF IInv

\* The steps after the last member.
LEMMA EndKeeps ==
  ASSUME IInv, Present \/ WriteReceipt \/ RenderWebReview
  PROVE  IInv'
<1>1. /\ UNCHANGED <<envVars, planVars, review, bound, members, stopStatus, driftSeen, proofVars, refs>>
      /\ at # "after" /\ at' # "after" /\ at # "proof" /\ at # "validate"
      /\ Count = MemberCount /\ proofAt = "none"
      /\ \/ /\ at = "member" /\ receipt = "none" /\ UNCHANGED receipt
            /\ \/ at' = "receipt" /\ UNCHANGED disposition /\ disposition # "PRESENTATION_FAILED"
               \/ at' = "bare receipt" /\ disposition' = "PRESENTATION_FAILED"
         \/ /\ at = "receipt" /\ UNCHANGED disposition /\ disposition # "PRESENTATION_FAILED"
            /\ \/ at' = "web review" /\ receipt' = disposition
               \/ at' = "raised" /\ UNCHANGED receipt /\ receipt = "none"
         \/ /\ at = "bare receipt" /\ UNCHANGED disposition
            /\ \/ at' = "returned" /\ receipt' = disposition
               \/ at' = "raised" /\ UNCHANGED receipt /\ receipt = "none"
         \/ /\ at = "web review" /\ UNCHANGED <<disposition, receipt>>
            /\ disposition # "PRESENTATION_FAILED"
            /\ at' \in {"returned", "raised"}
  BY DEF IInv, PlaceOrder, Count, Present, WriteReceipt, RenderWebReview, Step, memberVars, diskVars
<1>2. Judged' = Judged
  BY <1>1 DEF Judged
<1>3. TypeOK'
  <2>1. UNCHANGED <<runtime, edited, cancelled, policy, mode, captured, bound, members, stopStatus,
                    driftSeen, proofAt, proofRuntime, refs, review>>
    BY <1>1 DEF envVars, planVars, proofVars
  <2>2. /\ at' \in {"receipt", "bare receipt", "web review", "returned", "raised"}
        /\ disposition' \in Disposition /\ receipt' \in Disposition \union {"none"}
    BY <1>1 DEF IInv, TypeOK, Disposition
  <2>3. /\ review' \in {"none", "blocked", "cancelled", "dispatched"} /\ driftSeen' \in BOOLEAN
        /\ edited' \in BOOLEAN /\ cancelled' \in BOOLEAN
    BY <2>1, Zenon DEF IInv, TypeOK
  <2>4. QED
    BY <2>1, <2>2, <2>3 DEF IInv, TypeOK
<1>4. PlaceOrder'
  BY <1>1 DEF IInv, PlaceOrder, Count, proofVars
<1>5. StopOrder'
  BY <1>1, <1>2 DEF IInv, StopOrder, planVars
<1>6. MemberOrder'
  BY <1>1 DEF IInv, MemberOrder
<1>7. RuntimeOrder'
  BY <1>1, <1>2 DEF IInv, RuntimeOrder, Uninterrupted, envVars, planVars, proofVars
<1>8. QED
  BY <1>3, <1>4, <1>5, <1>6, <1>7 DEF IInv

\* A step that leaves the sweep itself alone.
LEMMA ReviewKeeps ==
  ASSUME IInv, Review \/ UNCHANGED vars
  PROVE  IInv'
<1>1. /\ UNCHANGED <<envVars, planVars, at, bound, memberVars, proofVars, diskVars>>
      /\ review' \in {"none", "blocked", "cancelled", "dispatched"}
  BY DEF IInv, TypeOK, Review, vars
<1>2. TypeOK'
  <2>1. /\ UNCHANGED <<at, bound, proofAt, proofRuntime>>
        /\ TypeOK
    BY <1>1 DEF IInv, proofVars
  <2>2. QED
    BY <1>1, <2>1, TypesStay DEF TypeOK
<1>3. UNCHANGED <<Judged, Count>>
  BY <1>1 DEF Judged, Count, memberVars
<1>4. (PlaceOrder /\ StopOrder)'
  BY <1>1, <1>3, Zenon DEF IInv, PlaceOrder, StopOrder, envVars, planVars, memberVars, proofVars, diskVars
<1>5. (MemberOrder /\ RuntimeOrder)'
  BY <1>1, <1>3 DEF IInv, MemberOrder, RuntimeOrder, envVars, planVars, memberVars, proofVars, diskVars
<1>6. QED
  BY <1>2, <1>4, <1>5 DEF IInv

LEMMA StepKeeps == IInv /\ [Next]_vars => IInv'
<1> SUFFICES ASSUME IInv, [Next]_vars PROVE IInv'
  OBVIOUS
<1>1. CASE Publish \/ EditPacket \/ Cancel
  BY <1>1, EnvironmentKeeps
<1>2. CASE Execute
  BY <1>2, ValidateKeeps, SkipMemberKeeps, StartMemberKeeps, ProofKeeps, EndMemberKeeps,
     AfterMemberKeeps, EndKeeps, ReviewKeeps DEF Execute
<1>3. CASE Terminated \/ UNCHANGED vars
  BY <1>3, ReviewKeeps DEF Terminated
<1>4. QED
  BY <1>1, <1>2, <1>3 DEF Next

\* The inductive invariant holds of every sweep.
THEOREM Invariance == Spec => []IInv
<1>1. QED
  BY InitHolds, StepKeeps, PTL DEF Spec

-----------------------------------------------------------------------------

\* Every sweep keeps its variables in their types, for any number of members.
THEOREM TypeCorrect == Spec => []TypeOK
<1>1. IInv => TypeOK
  BY DEF IInv
<1>2. QED
  BY <1>1, Invariance, PTL

\* The receipt of a sweep accounts for its members, whatever cancels, publications, edits and
\* failures of a member or of the presentation came in between.
THEOREM ReceiptsAccount == Spec => []ReceiptAccounts
<1>1. ASSUME IInv PROVE ReceiptAccounts
  <2>1. DOMAIN members = 1..Count /\ Count \in Nat /\ MemberCount \in Nat \ {0}
    BY <1>1, MembersListed, SweepAssumption DEF IInv
  <2>2. CASE receipt = "none"
    BY <2>2 DEF ReceiptAccounts
  <2>3. CASE receipt # "none"
    <3>1. Count = MemberCount /\ receipt = disposition /\ Judged = DOMAIN members
      BY <1>1, <2>3 DEF IInv, PlaceOrder, Judged
    <3>2. \A i \in 1..MemberCount : i \in refs <=> members[i].status \notin NotStarted
      BY <1>1, <2>1, <3>1 DEF IInv, MemberOrder
    <3>3. receipt = "COMPLETE" => Statuses = {"REPLAY_PROVEN"}
      <4>1. receipt = "COMPLETE" => \A i \in DOMAIN members : members[i].status = "REPLAY_PROVEN"
        BY <1>1, <3>1 DEF IInv, StopOrder
      <4>2. 1 \in DOMAIN members
        BY <2>1, <3>1
      <4>3. QED
        BY <4>1, <4>2 DEF Statuses
    <3>4. receipt = "PARTIAL_MEMBER_FAILURES" =>
            /\ policy = "continue_independent"
            /\ Statuses \subseteq {"REPLAY_PROVEN"} \union Failure
            /\ Statuses \intersect Failure # {}
      BY <1>1, <3>1 DEF IInv, StopOrder, Statuses
    <3>5. Statuses \intersect NotStarted \subseteq {stopStatus}
      BY <1>1 DEF IInv, MemberOrder, Statuses
    <3>6. QED
      BY <1>1, <3>1, <3>2, <3>3, <3>4, <3>5 DEF ReceiptAccounts, IInv, StopOrder, MemberOrder, Count
  <2>4. QED
    BY <2>2, <2>3
<1>2. QED
  BY <1>1, Invariance, PTL

\* What an uninterrupted sweep has proven it has proven under the runtime it is bound to, for any
\* number of members and publications; in strict mode under the captured one.
THEOREM SweepsProveUnderBinding == Spec => []ProvenUnderBinding
<1>1. ASSUME IInv PROVE ProvenUnderBinding
  <2>1. receipt # "none" => receipt = disposition /\ Judged = DOMAIN members
    BY <1>1 DEF IInv, PlaceOrder, Judged
  <2>2. receipt \in Uninterrupted => disposition \in Uninterrupted /\ Judged = DOMAIN members
    BY <2>1 DEF Uninterrupted
  <2>3. QED
    BY <1>1, <2>2 DEF ProvenUnderBinding, IInv, RuntimeOrder, Uninterrupted
<1>2. QED
  BY <1>1, Invariance, PTL

=============================================================================
