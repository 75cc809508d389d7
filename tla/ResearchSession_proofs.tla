------------------------ MODULE ResearchSession_proofs ------------------------
(***************************************************************************)
(* Theorems about ResearchSession, for every budget, every ceiling and every  *)
(* size of a sweep.                                                          *)
(***************************************************************************)
EXTENDS ResearchSession, FiniteSetTheorems, SequenceTheorems, TLAPS

-----------------------------------------------------------------------------
(* The inductive invariant *)

Results  == SingleResults \union SweepResults \union {NoResults}
Attempted == [results : Results, reviewed : BOOLEAN,
              outcomes : {<<>>} \union UNION {OutcomesFor(r) : r \in Results}]

Calling  == {"plan", "correct", "review", "synthesize", "communicate"}
Reading  == {"planned", "corrected", "reviewed", "synthesized", "communicated"}
Closing  == {"refused", "drifted", "seal_failure", "communication_failed", "finalize", "closeout",
             "closed", "abort", "aborted"}
Planning == {"plan", "planned", "correct", "corrected"}
Stage    == {"PLANNER", "CORRECTION", "REVIEW", "SYNTHESIS", "COMMUNICATION"}

Typed ==
  /\ brief \in [experiments : Nat, budget : Nat, alternate : BOOLEAN]
  /\ at \in Calling \union Reading \union Closing \union {"execute"}
  /\ attempts \in Seq(Attempted)
  /\ correction \in {"unused", "available", "used"}
  /\ exact \in Nat /\ exact <= Ceiling /\ spent \in Nat /\ spent <= brief.budget
  /\ refused \in Stage \union {"none"}
  /\ exact # 0 => at \in Calling

\* Who is at a place of run() has come there by its gate.
PlaceOrder ==
  /\ at \in Planning => brief.experiments = 0 \/ Len(attempts) < brief.experiments
  /\ at = "execute" => Len(attempts) < brief.experiments
  /\ at \in {"review", "reviewed"} => Len(attempts) > 0
  /\ at = "correct" => correction # "used"
  /\ at = "communicate" => brief.alternate
  /\ at \in Planning \union {"execute", "review", "reviewed", "synthesize", "synthesized"}
       => record = NoRecord /\ ending.disposition = "RUNNING"

\* What is refused, lost, drifted or raised has taken the session to its end.
StopOrder ==
  refused # "none" \/ events \intersect {"drift", "lost", "raised"} # {} => at \in Closing

\* What the budget still has to hold for the calls that the place has put aside.
Put(needed) == IF needed THEN Ceiling ELSE 0
ToReview == Len(attempts) < brief.experiments
PutAside ==
  CASE at = "planned"   -> Put(correction # "used") + Put(ToReview) + Ceiling + Put(brief.alternate)
    [] at = "correct"   -> Ceiling + Put(ToReview) + Ceiling + Put(brief.alternate)
    [] at = "corrected" -> Put(ToReview) + Ceiling + Put(brief.alternate)
    [] at \in {"execute", "review"}           -> Ceiling + Ceiling + Put(brief.alternate)
    [] at \in {"reviewed", "synthesize"}      -> Ceiling + Put(brief.alternate)
    [] at \in {"synthesized", "communicate"}  -> Put(brief.alternate)
    [] OTHER -> 0
BudgetOrder == "excess" \notin events => PutAside <= brief.budget - spent

\* An attempt that was reviewed has outcomes that its results allow, and but for the last one,
\* while it is executed and reviewed, every attempt of a session that goes on is reviewed.
ReviewOrder ==
  /\ \A n \in DOMAIN attempts : attempts[n].reviewed =>
       \A i \in DOMAIN attempts[n].results :
         attempts[n].outcomes[i] \in Allowed(attempts[n].results[i])
  /\ at \in Planning \union {"execute", "synthesize", "synthesized", "communicate", "communicated"} =>
       \A n \in DOMAIN attempts : attempts[n].reviewed
  /\ at \in {"review", "reviewed"} =>
       \A n \in DOMAIN attempts : n # Len(attempts) => attempts[n].reviewed

\* A session that is completed, so far, and not on its way out with an exception.
CompletedOrder ==
  ending.disposition = "COMPLETED" /\ at \notin {"abort", "aborted"} =>
    /\ at \in {"communicate", "communicated", "communication_failed", "refused", "finalize",
               "closeout", "closed"}
    /\ record.kind = "scientific"
    /\ \A n \in DOMAIN attempts : attempts[n].reviewed
    /\ at \in {"finalize", "closeout", "closed"} =>
         /\ refused = "none" /\ events \intersect {"drift", "lost", "raised"} = {}
         /\ brief.alternate /\ record.conclusion # "NO_SCIENTIFIC_CONCLUSION" => ending.communicated
    /\ at \in {"closeout", "closed"} => files.cleanup = "complete"

IInv == /\ Typed /\ PlaceOrder /\ StopOrder /\ BudgetOrder /\ ReviewOrder /\ CompletedOrder
        /\ AffordableOnceStarted /\ ObservationsAreProven

-----------------------------------------------------------------------------
(* What a reserve costs *)

LEMMA OneMore ==
  ASSUME NEW T, IsFiniteSet(T), NEW S, NEW x, x \notin T
  PROVE  /\ IsFiniteSet(T \union (S \intersect {x}))
         /\ Ceiling * Cardinality(T \union (S \intersect {x})) = Ceiling * Cardinality(T) + Put(x \in S)
<1>1. Cardinality(T) \in Nat /\ Ceiling \in Nat
  BY FS_CardinalityType, ResearchAssumption
<1>2. CASE x \in S
  <2>1. T \union (S \intersect {x}) = T \union {x}
    BY <1>2
  <2>2. IsFiniteSet(T \union {x}) /\ Cardinality(T \union {x}) = Cardinality(T) + 1
    BY FS_AddElement
  <2>3. Ceiling * (Cardinality(T) + 1) = Ceiling * Cardinality(T) + Ceiling
    BY <1>1
  <2>4. QED
    BY <1>2, <2>1, <2>2, <2>3 DEF Put
<1>3. CASE x \notin S
  <2>1. T \union (S \intersect {x}) = T
    BY <1>3
  <2>2. Ceiling * Cardinality(T) + 0 = Ceiling * Cardinality(T)
    BY <1>1
  <2>3. QED
    BY <1>3, <2>1, <2>2 DEF Put
<1>4. QED
  BY <1>2, <1>3

LEMMA ReserveCost ==
  ASSUME NEW S, S \subseteq {"CORRECTION", "REVIEW", "SYNTHESIS", "COMMUNICATION"}
  PROVE  Ceiling * Cardinality(S) = Put("CORRECTION" \in S) + Put("REVIEW" \in S)
                                      + Put("SYNTHESIS" \in S) + Put("COMMUNICATION" \in S)
<1> DEFINE S1 == {} \union (S \intersect {"CORRECTION"})
           S2 == S1 \union (S \intersect {"REVIEW"})
           S3 == S2 \union (S \intersect {"SYNTHESIS"})
           S4 == S3 \union (S \intersect {"COMMUNICATION"})
<1>1. IsFiniteSet(S1) /\ Ceiling * Cardinality(S1) = Put("CORRECTION" \in S)
  <2>1. IsFiniteSet({}) /\ Ceiling * Cardinality({}) = 0
    BY FS_EmptySet, ResearchAssumption
  <2>2. IsFiniteSet(S1) /\ Ceiling * Cardinality(S1) = Ceiling * Cardinality({}) + Put("CORRECTION" \in S)
    BY <2>1, OneMore
  <2>3. QED
    BY <2>1, <2>2, ResearchAssumption DEF Put
<1>2. IsFiniteSet(S2) /\ Ceiling * Cardinality(S2) = Ceiling * Cardinality(S1) + Put("REVIEW" \in S)
  <2>1. "REVIEW" \notin S1
    OBVIOUS
  <2> HIDE DEF S1
  <2>2. QED
    BY <1>1, <2>1, OneMore
<1>3. IsFiniteSet(S3) /\ Ceiling * Cardinality(S3) = Ceiling * Cardinality(S2) + Put("SYNTHESIS" \in S)
  <2>1. "SYNTHESIS" \notin S2
    OBVIOUS
  <2> HIDE DEF S2
  <2>2. QED
    BY <1>2, <2>1, OneMore
<1>4. Ceiling * Cardinality(S4) = Ceiling * Cardinality(S3) + Put("COMMUNICATION" \in S)
  <2>1. "COMMUNICATION" \notin S3
    OBVIOUS
  <2> HIDE DEF S3
  <2>2. QED
    BY <1>3, <2>1, OneMore
<1>5. S4 = S
  OBVIOUS
<1> HIDE DEF S1, S2, S3, S4
<1>6. QED
  BY <1>1, <1>2, <1>3, <1>4, <1>5

\* What authorize_dispatch puts aside, stage by stage.
LEMMA ReservesPutAside ==
  /\ Ceiling * Cardinality(Reserves("PLANNER")) =
       Put(correction # "used") + Put(ToReview) + Ceiling + Put(brief.alternate)
  /\ Ceiling * Cardinality(Reserves("CORRECTION")) = Ceiling + Ceiling + Put(brief.alternate)
  /\ Ceiling * Cardinality(Reserves("REVIEW")) = Ceiling + Put(brief.alternate)
  /\ Ceiling * Cardinality(Reserves("SYNTHESIS")) = Put(brief.alternate)
  /\ Ceiling * Cardinality(Reserves("COMMUNICATION")) = 0
<1>1. ASSUME NEW s
      PROVE  Ceiling * Cardinality(Reserves(s)) =
               Put("CORRECTION" \in Reserves(s)) + Put("REVIEW" \in Reserves(s))
                 + Put("SYNTHESIS" \in Reserves(s)) + Put("COMMUNICATION" \in Reserves(s))
  <2>1. Reserves(s) \subseteq {"CORRECTION", "REVIEW", "SYNTHESIS", "COMMUNICATION"}
    BY DEF Reserves
  <2>2. QED
    BY <2>1, ReserveCost
<1>2. Put(TRUE) = Ceiling /\ Put(FALSE) = 0 /\ Ceiling \in Nat
  BY ResearchAssumption DEF Put
<1>3. /\ "CORRECTION" \in Reserves("PLANNER") <=> correction # "used"
      /\ "REVIEW" \in Reserves("PLANNER") <=> ToReview
      /\ "SYNTHESIS" \in Reserves("PLANNER")
      /\ "COMMUNICATION" \in Reserves("PLANNER") <=> brief.alternate
  BY DEF Reserves, MayExecute, ToReview
<1>4. /\ "CORRECTION" \notin Reserves("CORRECTION") /\ "REVIEW" \in Reserves("CORRECTION")
      /\ "SYNTHESIS" \in Reserves("CORRECTION")
      /\ "COMMUNICATION" \in Reserves("CORRECTION") <=> brief.alternate
  BY DEF Reserves, MayExecute
<1>5. /\ "CORRECTION" \notin Reserves("REVIEW") /\ "REVIEW" \notin Reserves("REVIEW")
      /\ "SYNTHESIS" \in Reserves("REVIEW")
      /\ "COMMUNICATION" \in Reserves("REVIEW") <=> brief.alternate
  BY DEF Reserves
<1>6. /\ "CORRECTION" \notin Reserves("SYNTHESIS") /\ "REVIEW" \notin Reserves("SYNTHESIS")
      /\ "SYNTHESIS" \notin Reserves("SYNTHESIS")
      /\ "COMMUNICATION" \in Reserves("SYNTHESIS") <=> brief.alternate
  BY DEF Reserves
<1>7. /\ "CORRECTION" \notin Reserves("COMMUNICATION") /\ "REVIEW" \notin Reserves("COMMUNICATION")
      /\ "SYNTHESIS" \notin Reserves("COMMUNICATION") /\ "COMMUNICATION" \notin Reserves("COMMUNICATION")
  BY DEF Reserves
<1>8. QED
  BY <1>1, <1>2, <1>3, <1>4, <1>5, <1>6, <1>7 DEF Put

-----------------------------------------------------------------------------
(* The initial states, and the steps to the end *)

LEMMA InitHolds == Init => IInv
<1> SUFFICES ASSUME Init PROVE IInv
  OBVIOUS
<1>1. brief \in [experiments : Nat, budget : Nat, alternate : BOOLEAN]
  <2>1. MaxExperiments \subseteq Nat /\ HardBudget \subseteq Nat
    BY ResearchAssumption
  <2>2. QED
    BY <2>1 DEF Init
<1>2. /\ attempts = <<>> /\ attempts \in Seq(Attempted) /\ Len(attempts) = 0 /\ DOMAIN attempts = {}
      /\ record = NoRecord /\ DOMAIN record.summaries = {}
  BY DEF Init, NoRecord
<1>3. Typed
  BY <1>1, <1>2, ResearchAssumption DEF Init, Typed, Calling
<1>4. PlaceOrder
  BY <1>1, <1>2 DEF Init, PlaceOrder, Planning
<1>5. StopOrder /\ ReviewOrder /\ CompletedOrder /\ AffordableOnceStarted /\ ObservationsAreProven
  BY <1>2 DEF Init, StopOrder, ReviewOrder, CompletedOrder, AffordableOnceStarted, ObservationsAreProven
<1>6. BudgetOrder
  BY <1>1, ResearchAssumption DEF Init, BudgetOrder, PutAside
<1>7. QED
  BY <1>3, <1>4, <1>5, <1>6 DEF IInv

\* Attempts and record stay: the sealed observations do.
LEMMA ObservationsStay ==
  ASSUME ObservationsAreProven, UNCHANGED attempts,
         UNCHANGED record \/ record'.summaries = <<>>
  PROVE  ObservationsAreProven'
BY SMTT(30) DEF ObservationsAreProven

\* A step to a place of the end needs only what is true of the end.
LEMMA ClosingKeeps ==
  ASSUME IInv, at' \in Closing, UNCHANGED <<brief, attempts, correction>>,
         exact' = 0, spent' \in Nat, spent' <= brief.budget,
         refused' \in Stage \union {"none"}, events \subseteq events',
         UNCHANGED record \/ record'.summaries = <<>>,
         AffordableOnceStarted', CompletedOrder'
  PROVE  IInv'
<1>1. /\ at' \notin Calling /\ at' \notin Planning /\ at' \notin Reading
      /\ at' \notin {"execute", "review", "reviewed", "synthesize", "synthesized", "communicate",
                     "communicated"}
  BY DEF Closing, Calling, Planning, Reading
<1>2. Typed'
  BY <1>1, ResearchAssumption DEF IInv, Typed
<1>3. PlaceOrder'
  BY <1>1 DEF PlaceOrder, Planning
<1>4. StopOrder'
  BY DEF StopOrder
<1>5. BudgetOrder'
  <2>1. PutAside' = 0
    BY <1>1 DEF PutAside, Planning
  <2>2. brief.budget \in Nat
    BY DEF IInv, Typed
  <2>3. QED
    BY <2>1, <2>2 DEF BudgetOrder
<1>6. ReviewOrder'
  BY <1>1 DEF IInv, ReviewOrder, Planning
<1>7. ObservationsAreProven'
  BY ObservationsStay DEF IInv
<1>8. QED
  BY <1>2, <1>3, <1>4, <1>5, <1>6, <1>7 DEF IInv

\* Nothing was refused before, or nothing new is refused.
LEMMA RefusedStays ==
  ASSUME AffordableOnceStarted, UNCHANGED <<brief, refused>>, events \subseteq events'
  PROVE  AffordableOnceStarted'
BY DEF AffordableOnceStarted

\* A session that is not completed, and is not being completed, is not completed.
LEMMA NotCompleted ==
  ASSUME ending'.disposition # "COMPLETED" \/ at' \in {"abort", "aborted"}
  PROVE  CompletedOrder'
BY DEF CompletedOrder

-----------------------------------------------------------------------------
(* A call of the model *)

LEMMA Stages ==
  /\ DOMAIN StageOf = Calling
  /\ StageOf["plan"] = "PLANNER" /\ StageOf["correct"] = "CORRECTION" /\ StageOf["review"] = "REVIEW"
  /\ StageOf["synthesize"] = "SYNTHESIS" /\ StageOf["communicate"] = "COMMUNICATION"
  /\ Answered["plan"] = "planned" /\ Answered["correct"] = "corrected"
  /\ Answered["review"] = "reviewed" /\ Answered["synthesize"] = "synthesized"
  /\ Answered["communicate"] = "communicated"
BY DEF StageOf, Answered, Calling

\* What is true of every call.
LEMMA CallIsTyped ==
  ASSUME IInv, MayCall
  PROVE  /\ at \in Calling /\ refused = "none" /\ events \intersect {"drift", "lost", "raised"} = {}
         /\ brief.budget \in Nat /\ spent \in Nat /\ exact \in Nat /\ exact <= Ceiling
         /\ spent <= brief.budget /\ Ceiling \in Nat
         /\ at # "communicate" => ending.disposition = "RUNNING"
<1>1. at \in Calling
  BY Stages DEF MayCall
<1>2. refused = "none" /\ events \intersect {"drift", "lost", "raised"} = {}
  BY <1>1 DEF IInv, StopOrder, Calling, Closing
<1>3. at # "communicate" => ending.disposition = "RUNNING"
  BY <1>1 DEF IInv, PlaceOrder, Calling, Planning
<1>4. QED
  BY <1>1, <1>2, <1>3, ResearchAssumption DEF IInv, Typed

LEMMA EvidenceRefusedKeeps == ASSUME IInv, EvidenceRefused PROVE IInv'
<1>1. /\ UNCHANGED <<brief, attempts, correction, record, exact, spent, refused, events>>
      /\ at' = "abort" /\ exact = 0
  BY DEF EvidenceRefused, sessionVars, costVars, resultVars
<1>2. CompletedOrder' /\ AffordableOnceStarted'
  BY <1>1, NotCompleted, RefusedStays DEF IInv
<1>3. QED
  BY <1>1, <1>2, ClosingKeeps DEF IInv, Typed, Closing

LEMMA CountKeeps == ASSUME IInv, Count PROVE IInv'
<1>1. /\ UNCHANGED <<brief, at, attempts, correction, base, spent, refused, events, record, ending>>
      /\ exact' \in 1..Ceiling /\ at \in Calling
  BY CallIsTyped DEF Count, sessionVars, resultVars
<1>2. exact' \in Nat /\ exact' <= Ceiling
  BY <1>1, ResearchAssumption
<1>3. Typed'
  BY <1>1, <1>2 DEF IInv, Typed
<1>4. (PlaceOrder /\ StopOrder /\ ReviewOrder /\ AffordableOnceStarted)'
  BY <1>1 DEF IInv, PlaceOrder, StopOrder, ReviewOrder, AffordableOnceStarted
<1>5. BudgetOrder'
  BY <1>1 DEF IInv, BudgetOrder, PutAside, ToReview
<1>6. CompletedOrder'
  BY <1>1 DEF IInv, CompletedOrder, Calling
<1>7. ObservationsAreProven'
  BY <1>1, ObservationsStay DEF IInv
<1>8. QED
  BY <1>3, <1>4, <1>5, <1>6, <1>7 DEF IInv

\* A call that fails goes to the end of the session.
LEMMA Failing ==
  ASSUME IInv, MayCall, at' = OnFailure, UNCHANGED <<brief, attempts, correction, refused, record, ending>>,
         exact' = 0, spent' \in Nat, spent' <= brief.budget, events \subseteq events'
  PROVE  IInv'
<1>1. /\ at = "synthesize" => at' = "seal_failure"
      /\ at = "communicate" => at' = "communication_failed"
      /\ at \notin {"synthesize", "communicate"} => at' = "abort"
  BY DEF OnFailure
<1>2. at' \in Closing
  BY <1>1 DEF Closing
<1>3. AffordableOnceStarted'
  BY RefusedStays DEF IInv
<1>4. CompletedOrder'
  <2>1. CASE at = "communicate"
    BY <1>1, <2>1 DEF IInv, CompletedOrder
  <2>2. CASE at # "communicate"
    BY <2>2, CallIsTyped, NotCompleted
  <2>3. QED
    BY <2>1, <2>2
<1>5. QED
  BY <1>2, <1>3, <1>4, ClosingKeeps DEF IInv, Typed

LEMMA CallFailsKeeps == ASSUME IInv, CallFails PROVE IInv'
<1>1. /\ UNCHANGED <<brief, attempts, correction, refused, record, ending, spent>>
      /\ MayCall /\ at' = OnFailure /\ exact' = 0 /\ events \subseteq events'
  BY DEF CallFails, sessionVars, resultVars
<1>2. QED
  BY <1>1, CallIsTyped, Failing

\* The budget that is left, when a call is authorized, is enough for it and for its reserves;
\* and a call that is refused although no call cost more than its count is one that may be.
LEMMA AuthorizedLeaves ==
  ASSUME IInv, MayCall, Affordable(StageOf[at]), NEW charge \in Nat, charge <= exact
  PROVE  /\ at = "plan" => Put(correction # "used") + Put(ToReview) + Ceiling + Put(brief.alternate)
                             <= brief.budget - (spent + charge)
         /\ at = "correct" => Ceiling + Ceiling + Put(brief.alternate) <= brief.budget - (spent + charge)
         /\ at = "review" => Ceiling + Put(brief.alternate) <= brief.budget - (spent + charge)
         /\ at = "synthesize" => Put(brief.alternate) <= brief.budget - (spent + charge)
         /\ spent + charge <= brief.budget
<1> DEFINE cost == Ceiling * Cardinality(Reserves(StageOf[at]))
<1>1. exact + cost <= brief.budget - spent
  BY DEF Affordable
<1>2. /\ at = "plan" => cost = Put(correction # "used") + Put(ToReview) + Ceiling + Put(brief.alternate)
      /\ at = "correct" => cost = Ceiling + Ceiling + Put(brief.alternate)
      /\ at = "review" => cost = Ceiling + Put(brief.alternate)
      /\ at = "synthesize" => cost = Put(brief.alternate)
      /\ at = "communicate" => cost = 0
  BY Stages, ReservesPutAside
<1>3. /\ Put(correction # "used") \in Nat /\ Put(ToReview) \in Nat /\ Put(brief.alternate) \in Nat
      /\ Ceiling \in Nat
  BY ResearchAssumption DEF Put
<1>4. cost \in Nat
  BY <1>2, <1>3, CallIsTyped DEF Calling
<1> HIDE DEF cost
<1>5. QED
  BY <1>1, <1>2, <1>3, <1>4, CallIsTyped

LEMMA RefuseKeeps == ASSUME IInv, Refuse PROVE IInv'
<1>1. /\ UNCHANGED <<brief, attempts, correction, record, ending, spent, events>>
      /\ MayCall /\ at' = "refused" /\ refused' = StageOf[at] /\ exact' = 0
      /\ ~Affordable(StageOf[at])
  BY DEF Refuse, sessionVars, resultVars
<1>2. at' \in Closing /\ refused' \in Stage
  BY <1>1, CallIsTyped, Stages DEF Closing, Stage, Calling
<1>3. AffordableOnceStarted'
  <2> SUFFICES ASSUME "excess" \notin events, at # "plan", at = "correct" => brief.experiments # 0
               PROVE  FALSE
    BY <1>1, CallIsTyped, Stages DEF AffordableOnceStarted, Calling
  <2> DEFINE cost == Ceiling * Cardinality(Reserves(StageOf[at]))
  <2>1. PutAside <= brief.budget - spent
    BY DEF IInv, BudgetOrder
  <2>2. at = "correct" => ToReview
    BY DEF IInv, PlaceOrder, ToReview, Planning
  <2>3. Put(TRUE) = Ceiling
    BY DEF Put
  <2>4. /\ at = "correct" => cost = Ceiling + Ceiling + Put(brief.alternate)
        /\ at = "review" => cost = Ceiling + Put(brief.alternate)
        /\ at = "synthesize" => cost = Put(brief.alternate)
        /\ at = "communicate" => cost = 0
    BY Stages, ReservesPutAside
  <2>5. /\ at = "correct" => PutAside = Ceiling + Ceiling + Ceiling + Put(brief.alternate)
        /\ at = "review" => PutAside = Ceiling + Ceiling + Put(brief.alternate)
        /\ at = "synthesize" => PutAside = Ceiling + Put(brief.alternate)
        /\ at = "communicate" => PutAside = Put(brief.alternate)
    BY <2>2, <2>3 DEF PutAside
  <2>6. ~(exact + cost <= brief.budget - spent)
    BY <1>1 DEF Affordable
  <2>7. Put(brief.alternate) \in Nat /\ (brief.alternate => Put(brief.alternate) = Ceiling)
    BY ResearchAssumption DEF Put
  <2>8. at = "communicate" => brief.alternate
    BY DEF IInv, PlaceOrder
  <2> HIDE DEF cost
  <2>9. QED
    BY <1>1, <2>1, <2>4, <2>5, <2>6, <2>7, <2>8, CallIsTyped DEF Calling
<1>4. CompletedOrder'
  <2>1. CASE at = "communicate"
    BY <1>1, <2>1 DEF IInv, CompletedOrder
  <2>2. CASE at # "communicate"
    BY <1>1, <2>2, CallIsTyped, NotCompleted
  <2>3. QED
    BY <2>1, <2>2
<1>5. QED
  BY <1>1, <1>2, <1>3, <1>4, ClosingKeeps DEF IInv, Typed

\* What a charge does to the accounts.
LEMMA Paying ==
  ASSUME IInv, NEW charge \in Charge, Pays(charge)
  PROVE  /\ charge \in Nat /\ spent' \in Nat /\ spent' <= brief.budget /\ events \subseteq events'
         /\ spent + charge <= brief.budget =>
              /\ spent' = spent + charge
              /\ events' \intersect {"drift", "lost", "raised"}
                   = events \intersect {"drift", "lost", "raised"}
         /\ "excess" \notin events' => "excess" \notin events /\ charge <= exact
<1>1. exact \in Nat /\ spent \in Nat /\ brief.budget \in Nat /\ spent <= brief.budget /\ Excess \in Nat
  BY ResearchAssumption DEF IInv, Typed
<1>2. charge \in Nat
  BY <1>1 DEF Charge
<1>3. QED
  BY <1>1, <1>2 DEF Pays

LEMMA AnswerKeeps == ASSUME IInv, Answer PROVE IInv'
<1>1. /\ UNCHANGED <<brief, attempts, correction, refused, record, ending>>
      /\ MayCall /\ Affordable(StageOf[at]) /\ exact' = 0
  BY DEF Answer, Dispatches, sessionVars, resultVars
<1>2. PICK charge \in Charge :
        Pays(charge) /\ at' = IF spent + charge > brief.budget THEN OnFailure ELSE Answered[at]
  BY DEF Answer
<1>3. /\ charge \in Nat /\ spent' \in Nat /\ spent' <= brief.budget /\ events \subseteq events'
      /\ "excess" \notin events' => "excess" \notin events /\ charge <= exact
  BY <1>2, Paying
<1>4. CASE spent + charge > brief.budget
  BY <1>1, <1>2, <1>3, <1>4, Failing
<1>5. CASE ~(spent + charge > brief.budget)
  <2>1. /\ at' = Answered[at] /\ spent' = spent + charge
        /\ events' \intersect {"drift", "lost", "raised"} = events \intersect {"drift", "lost", "raised"}
    BY <1>1, <1>2, <1>3, <1>5, CallIsTyped, Paying
  <2>2. \/ at = "plan" /\ at' = "planned"
        \/ at = "correct" /\ at' = "corrected"
        \/ at = "review" /\ at' = "reviewed"
        \/ at = "synthesize" /\ at' = "synthesized"
        \/ at = "communicate" /\ at' = "communicated"
    <3>1. at \in {"plan", "correct", "review", "synthesize", "communicate"}
      BY <1>1, CallIsTyped DEF Calling
    <3>2. QED
      BY <2>1, <3>1, Stages
  <2>3. Typed'
    BY <1>1, <1>3, <2>2, ResearchAssumption DEF IInv, Typed, Reading
  <2>4. PlaceOrder'
    BY <1>1, <2>2 DEF IInv, PlaceOrder, Planning
  <2>5. StopOrder'
    BY <1>1, <2>1, CallIsTyped DEF StopOrder
  <2>6. BudgetOrder'
    <3> SUFFICES ASSUME "excess" \notin events' PROVE PutAside' <= brief.budget - spent'
      BY <1>1 DEF BudgetOrder
    <3>1. /\ at = "plan" => Put(correction # "used") + Put(ToReview) + Ceiling + Put(brief.alternate)
                              <= brief.budget - spent'
          /\ at = "correct" => Ceiling + Ceiling + Put(brief.alternate) <= brief.budget - spent'
          /\ at = "review" => Ceiling + Put(brief.alternate) <= brief.budget - spent'
          /\ at = "synthesize" => Put(brief.alternate) <= brief.budget - spent'
      BY <1>1, <1>3, <2>1, AuthorizedLeaves
    <3>2. /\ Put(correction # "used")' = Put(correction # "used") /\ Put(ToReview)' = Put(ToReview)
          /\ Put(brief.alternate)' = Put(brief.alternate)
      BY <1>1 DEF Put, ToReview
    <3>3. /\ at = "plan" =>
               PutAside' = Put(correction # "used") + Put(ToReview) + Ceiling + Put(brief.alternate)
          /\ at = "correct" => PutAside' = Put(ToReview) + Ceiling + Put(brief.alternate)
          /\ at = "review" => PutAside' = Ceiling + Put(brief.alternate)
          /\ at = "synthesize" => PutAside' = Put(brief.alternate)
          /\ at = "communicate" => PutAside' = 0
      BY <2>2, <3>2 DEF PutAside
    <3>4. Put(ToReview) \in Nat /\ Put(ToReview) <= Ceiling /\ Put(brief.alternate) \in Nat
          /\ Ceiling \in Nat
      BY ResearchAssumption DEF Put
    <3>5. QED
      BY <1>1, <1>3, <2>2, <3>1, <3>3, <3>4, CallIsTyped
  <2>7. ReviewOrder'
    BY <1>1, <2>2 DEF IInv, ReviewOrder, Planning
  <2>8. CompletedOrder'
    BY <1>1, <2>2 DEF IInv, CompletedOrder
  <2>9. AffordableOnceStarted' /\ ObservationsAreProven'
    BY <1>1, <1>3, RefusedStays, ObservationsStay DEF IInv
  <2>10. QED
    BY <2>3, <2>4, <2>5, <2>6, <2>7, <2>8, <2>9 DEF IInv
<1>6. QED
  BY <1>4, <1>5

LEMMA AnswerFailsKeeps == ASSUME IInv, AnswerFails PROVE IInv'
<1>1. /\ UNCHANGED <<brief, attempts, correction, refused, record, ending>>
      /\ MayCall /\ exact' = 0 /\ at' = OnFailure
  BY DEF AnswerFails, Dispatches, sessionVars, resultVars
<1>2. spent' \in Nat /\ spent' <= brief.budget /\ events \subseteq events'
  <2>1. CASE \E charge \in Charge : Pays(charge)
    BY <2>1, Paying
  <2>2. CASE spent' = spent /\ events' = events \union {"lost", "raised"}
    BY <1>1, <2>2, CallIsTyped
  <2>3. QED
    BY <2>1, <2>2 DEF AnswerFails
<1>3. QED
  BY <1>1, <1>2, Failing

-----------------------------------------------------------------------------
(* Plans, experiments and reviews *)

\* The session of a place that goes on has no end yet.
LEMMA GoingOn ==
  ASSUME IInv, at \in Planning \union {"execute", "review", "reviewed", "synthesize", "synthesized"}
  PROVE  /\ refused = "none" /\ events \intersect {"drift", "lost", "raised"} = {}
         /\ record = NoRecord /\ ending.disposition = "RUNNING" /\ DOMAIN record.summaries = {}
         /\ ~(ending.disposition = "COMPLETED")
<1>1. at \notin Closing
  BY DEF Closing, Planning
<1>2. record = NoRecord /\ ending.disposition = "RUNNING"
  BY DEF IInv, PlaceOrder
<1>3. DOMAIN record.summaries = {}
  BY <1>2 DEF NoRecord
<1>4. QED
  BY <1>1, <1>2, <1>3 DEF IInv, StopOrder

LEMMA ReadPlanKeeps == ASSUME IInv, ReadPlan PROVE IInv'
<1>1. /\ UNCHANGED <<brief, attempts, exact, spent, refused, events, record, ending>>
      /\ at \in {"planned", "corrected"} /\ at \in Planning
  BY DEF ReadPlan, costVars, resultVars, Planning
<1>2. /\ correction' \in {"unused", "available", "used"}
      /\ \/ at' = "correct" /\ at = "planned" /\ correction' = "available" /\ correction # "used"
         \/ at' = "abort"
         \/ at' = "synthesize"
         \/ at' = "execute" /\ Len(attempts) < brief.experiments
  <2>1. correction \in {"unused", "available", "used"}
    BY DEF IInv, Typed
  <2>2. PICK reply \in PlannerReply :
          /\ correction' = CASE at = "corrected" -> "used"
                             [] at = "planned" /\ reply = "refused" /\ correction = "unused" -> "available"
                             [] OTHER -> correction
          /\ at' = CASE reply = "refused"    -> IF correction' = "available" THEN "correct" ELSE "abort"
                     [] reply = "terminal"   -> "synthesize"
                     [] reply = "experiment" -> IF Len(attempts) < brief.experiments THEN "execute"
                                                                                    ELSE "abort"
    BY DEF ReadPlan
  <2>3. correction' \in {"unused", "available", "used"}
    BY <2>1, <2>2
  <2>4. correction' = "available" => at = "planned" /\ correction # "used"
    <3>1. CASE at = "corrected"
      <4>1. correction' = "used"
        BY <2>2, <3>1
      <4>2. QED
        BY <4>1
    <3>2. CASE at = "planned"
      <4>1. correction' = correction \/ correction = "unused"
        BY <2>2, <3>2
      <4>2. QED
        BY <3>2, <4>1
    <3>3. QED
      BY <1>1, <3>1, <3>2
  <2>5. CASE reply = "refused"
    BY <2>2, <2>3, <2>4, <2>5
  <2>6. CASE reply = "terminal"
    BY <2>2, <2>3, <2>6
  <2>7. CASE reply = "experiment"
    BY <2>2, <2>3, <2>7
  <2>8. QED
    BY <2>5, <2>6, <2>7 DEF PlannerReply
<1>3. exact = 0
  BY <1>1 DEF IInv, Typed, Calling
<1>4. Typed'
  BY <1>1, <1>2, <1>3 DEF IInv, Typed, Calling, Closing
<1>5. PlaceOrder'
  BY <1>1, <1>2 DEF IInv, PlaceOrder, Planning
<1>6. (StopOrder /\ CompletedOrder /\ AffordableOnceStarted)'
  BY <1>1, GoingOn DEF StopOrder, CompletedOrder, AffordableOnceStarted
<1>7. BudgetOrder'
  <2> SUFFICES ASSUME "excess" \notin events PROVE PutAside' <= brief.budget - spent
    BY <1>1 DEF BudgetOrder
  <2>1. PutAside <= brief.budget - spent
    BY DEF IInv, BudgetOrder
  <2>2. /\ Put(ToReview)' = Put(ToReview) /\ Put(brief.alternate)' = Put(brief.alternate)
    BY <1>1 DEF Put, ToReview
  <2>3. /\ at = "planned" =>
             PutAside = Put(correction # "used") + Put(ToReview) + Ceiling + Put(brief.alternate)
        /\ at = "corrected" => PutAside = Put(ToReview) + Ceiling + Put(brief.alternate)
        /\ at' = "correct" => PutAside' = Ceiling + Put(ToReview) + Ceiling + Put(brief.alternate)
        /\ at' = "synthesize" => PutAside' = Ceiling + Put(brief.alternate)
        /\ at' = "execute" => PutAside' = Ceiling + Ceiling + Put(brief.alternate)
        /\ at' = "abort" => PutAside' = 0
    BY <2>2 DEF PutAside
  <2>4. /\ Put(ToReview) \in Nat /\ Put(brief.alternate) \in Nat /\ Put(correction # "used") \in Nat
        /\ Ceiling \in Nat
        /\ correction # "used" => Put(correction # "used") = Ceiling
        /\ Len(attempts) < brief.experiments => Put(ToReview) = Ceiling
    BY ResearchAssumption DEF Put, ToReview
  <2>5. brief.budget \in Nat /\ spent \in Nat /\ spent <= brief.budget
    BY DEF IInv, Typed
  <2>6. CASE at = "planned"
    <3>1. Put(correction # "used") + Put(ToReview) + Ceiling + Put(brief.alternate) <= brief.budget - spent
      BY <2>1, <2>3, <2>6
    <3>2. CASE at' = "correct"
      BY <1>2, <2>3, <2>4, <2>5, <3>1, <3>2
    <3>3. CASE at' = "execute"
      BY <1>2, <2>3, <2>4, <2>5, <3>1, <3>3, SMTT(30)
    <3>4. CASE at' \in {"synthesize", "abort"}
      BY <2>3, <2>4, <2>5, <3>1, <3>4, SMTT(30)
    <3>5. QED
      BY <1>2, <3>2, <3>3, <3>4
  <2>7. CASE at = "corrected"
    <3>1. Put(ToReview) + Ceiling + Put(brief.alternate) <= brief.budget - spent
      BY <2>1, <2>3, <2>7
    <3>2. CASE at' = "execute"
      BY <1>2, <2>3, <2>4, <2>5, <3>1, <3>2
    <3>3. CASE at' \in {"synthesize", "abort"}
      BY <2>3, <2>4, <2>5, <3>1, <3>3
    <3>4. QED
      BY <1>2, <2>7, <3>2, <3>3
  <2>8. QED
    BY <1>1, <2>6, <2>7
<1>8. ReviewOrder'
  BY <1>1, <1>2 DEF IInv, ReviewOrder, Planning
<1>9. ObservationsAreProven'
  BY <1>1, ObservationsStay DEF IInv
<1>10. QED
  BY <1>4, <1>5, <1>6, <1>7, <1>8, <1>9 DEF IInv

\* An attempt is added.
LEMMA AttemptAdded ==
  ASSUME IInv, NEW results \in Results, attempts' = Attempt(results)
  PROVE  /\ attempts' \in Seq(Attempted) /\ Len(attempts') = Len(attempts) + 1 /\ Len(attempts) \in Nat
         /\ DOMAIN attempts = 1..Len(attempts) /\ DOMAIN attempts' = 1..Len(attempts) + 1
         /\ \A n \in DOMAIN attempts : attempts'[n] = attempts[n]
         /\ ~attempts'[Len(attempts) + 1].reviewed
<1> DEFINE new == [results |-> results, reviewed |-> FALSE, outcomes |-> <<>>]
<1>1. new \in Attempted /\ ~new.reviewed
  BY DEF Attempted
<1>2. attempts' = Append(attempts, new)
  BY DEF Attempt
<1>3. attempts \in Seq(Attempted)
  BY DEF IInv, Typed
<1> HIDE DEF new
<1>4. /\ attempts' \in Seq(Attempted) /\ Len(attempts') = Len(attempts) + 1
      /\ \A n \in 1..Len(attempts) : attempts'[n] = attempts[n]
      /\ attempts'[Len(attempts) + 1] = new
  BY <1>1, <1>2, <1>3, AppendProperties
<1>5. /\ Len(attempts) \in Nat /\ DOMAIN attempts = 1..Len(attempts)
      /\ DOMAIN attempts' = 1..Len(attempts')
  BY <1>3, <1>4, LenProperties
<1>6. QED
  BY <1>1, <1>4, <1>5

LEMMA ExecuteKeeps == ASSUME IInv, Execute \/ ExecuteAcrossDrift PROVE IInv'
<1>1. /\ UNCHANGED <<brief, correction, exact, spent, refused, record, ending>>
      /\ at = "execute"
      /\ \/ at' = "review" /\ UNCHANGED events
         \/ at' = "drifted" /\ events' = events \union {"drift"}
  BY DEF Execute, ExecuteAcrossDrift, costVars, resultVars
<1>2. PICK results \in Results : attempts' = Attempt(results)
  BY DEF Execute, ExecuteAcrossDrift, Results
<1>3. /\ attempts' \in Seq(Attempted) /\ Len(attempts') = Len(attempts) + 1 /\ Len(attempts) \in Nat
      /\ DOMAIN attempts = 1..Len(attempts) /\ DOMAIN attempts' = 1..Len(attempts) + 1
      /\ \A n \in DOMAIN attempts : attempts'[n] = attempts[n]
      /\ ~attempts'[Len(attempts) + 1].reviewed
  BY <1>2, AttemptAdded
<1>4. exact = 0
  BY <1>1 DEF IInv, Typed, Calling
<1>5. Typed'
  BY <1>1, <1>3, <1>4 DEF IInv, Typed, Calling, Closing
<1>6. PlaceOrder'
  BY <1>1, <1>3, GoingOn DEF PlaceOrder, Planning
<1>7. (StopOrder /\ CompletedOrder /\ AffordableOnceStarted)'
  BY <1>1, GoingOn DEF StopOrder, CompletedOrder, AffordableOnceStarted, Closing
<1>8. BudgetOrder'
  <2>1. /\ PutAside = Ceiling + Ceiling + Put(brief.alternate)
        /\ PutAside' = IF at' = "review" THEN Ceiling + Ceiling + Put(brief.alternate) ELSE 0
    BY <1>1 DEF PutAside, Put
  <2>2. brief.budget \in Nat /\ spent \in Nat /\ spent <= brief.budget
    BY DEF IInv, Typed
  <2>3. QED
    BY <1>1, <2>1, <2>2 DEF IInv, BudgetOrder
<1>9. ReviewOrder'
  BY <1>1, <1>3 DEF IInv, ReviewOrder, Planning
<1>10. ObservationsAreProven'
  BY <1>1, GoingOn DEF ObservationsAreProven
<1>11. QED
  BY <1>5, <1>6, <1>7, <1>8, <1>9, <1>10 DEF IInv

LEMMA ReadReviewKeeps == ASSUME IInv, ReadReview PROVE IInv'
<1> DEFINE last == Len(attempts)
<1>1. /\ UNCHANGED <<brief, correction, exact, spent, refused, events, record, ending>>
      /\ at = "reviewed"
  BY DEF ReadReview, costVars, resultVars
<1>2. PICK reply \in ReviewReply(attempts[last].results) :
        IF ReviewAccepted(reply, attempts[last].results, last < brief.experiments)
        THEN /\ attempts' = [attempts EXCEPT ![last].reviewed = TRUE, ![last].outcomes = reply.outcomes]
             /\ at' = IF reply.gate \in Continuing THEN "plan" ELSE "synthesize"
        ELSE UNCHANGED attempts /\ at' = "abort"
  BY DEF ReadReview
<1>3. /\ attempts \in Seq(Attempted) /\ last \in Nat /\ last > 0 /\ DOMAIN attempts = 1..last
      /\ last \in DOMAIN attempts
  <2>1. attempts \in Seq(Attempted)
    BY DEF IInv, Typed
  <2>2. last \in Nat /\ DOMAIN attempts = 1..last
    BY <2>1, LenProperties
  <2>3. last > 0
    BY <1>1 DEF IInv, PlaceOrder
  <2>4. QED
    BY <2>1, <2>2, <2>3
<1>4. CASE ~ReviewAccepted(reply, attempts[last].results, last < brief.experiments)
  <2>1. UNCHANGED attempts /\ at' = "abort" /\ at' \in Closing
    BY <1>2, <1>4 DEF Closing
  <2>2. CompletedOrder' /\ AffordableOnceStarted'
    BY <1>1, <2>1, NotCompleted, RefusedStays DEF IInv
  <2>3. exact = 0 /\ spent \in Nat /\ spent <= brief.budget /\ refused \in Stage \union {"none"}
    BY <1>1 DEF IInv, Typed, Calling
  <2>4. QED
    BY <1>1, <2>1, <2>2, <2>3, ClosingKeeps
<1>5. CASE ReviewAccepted(reply, attempts[last].results, last < brief.experiments)
  <2> DEFINE old == attempts[last]
             new == [old EXCEPT !.reviewed = TRUE, !.outcomes = reply.outcomes]
  <2>1. /\ attempts' = [attempts EXCEPT ![last] = new]
        /\ at' \in {"plan", "synthesize"} /\ (at' = "plan" => reply.gate \in Continuing)
    BY <1>2, <1>3, <1>5
  <2>2. /\ at' = "plan" => last < brief.experiments
        /\ \A i \in DOMAIN old.results : reply.outcomes[i] \in Allowed(old.results[i])
    <3>1. reply.gate \in Continuing => last < brief.experiments
      BY <1>5 DEF ReviewAccepted
    <3>2. \A i \in DOMAIN old.results : reply.outcomes[i] \in Allowed(old.results[i])
      BY <1>5 DEF ReviewAccepted
    <3>3. QED
      BY <2>1, <3>1, <3>2
  <2>3. old \in Attempted
    BY <1>3, ElementOfSeq
  <2>4. /\ new \in Attempted /\ new.reviewed /\ new.outcomes = reply.outcomes
        /\ new.results = old.results
    <3>1. reply.outcomes \in OutcomesFor(old.results)
      BY DEF ReviewReply
    <3>2. old.results \in Results
      BY <2>3 DEF Attempted
    <3>3. reply.outcomes \in {<<>>} \union UNION {OutcomesFor(r) : r \in Results}
      BY <3>1, <3>2
    <3>4. old \in [results : Results, reviewed : BOOLEAN,
                   outcomes : {<<>>} \union UNION {OutcomesFor(r) : r \in Results}]
      BY <2>3 DEF Attempted
    <3>5. /\ new \in [results : Results, reviewed : BOOLEAN,
                      outcomes : {<<>>} \union UNION {OutcomesFor(r) : r \in Results}]
          /\ new.reviewed /\ new.outcomes = reply.outcomes /\ new.results = old.results
      <4> HIDE DEF old
      <4>1. QED
        BY <3>3, <3>4
    <3>6. QED
      BY <3>5 DEF Attempted
  <2> HIDE DEF new
  <2>5. /\ attempts' \in Seq(Attempted) /\ Len(attempts') = last /\ DOMAIN attempts' = DOMAIN attempts
        /\ \A n \in DOMAIN attempts : attempts'[n] = IF n = last THEN new ELSE attempts[n]
    <3>1. /\ attempts' \in Seq(Attempted) /\ Len(attempts') = last
          /\ \A n \in 1..last : attempts'[n] = IF n = last THEN new ELSE attempts[n]
      BY <1>3, <2>1, <2>4, ExceptSeq
    <3>2. DOMAIN attempts' = 1..last
      BY <3>1, LenProperties
    <3>3. QED
      BY <1>3, <3>1, <3>2
  <2> HIDE DEF last, old
  <2>6. exact = 0
    BY <1>1 DEF IInv, Typed, Calling
  <2>7. Typed'
    BY <1>1, <2>1, <2>5, <2>6 DEF IInv, Typed, Calling
  <2>8. PlaceOrder'
    BY <1>1, <2>1, <2>2, <2>5, GoingOn DEF PlaceOrder, Planning
  <2>9. (StopOrder /\ CompletedOrder /\ AffordableOnceStarted)'
    BY <1>1, GoingOn DEF StopOrder, CompletedOrder, AffordableOnceStarted
  <2>10. BudgetOrder'
    <3>1. PutAside = Ceiling + Put(brief.alternate)
      BY <1>1 DEF PutAside
    <3>2. PutAside' = IF at' = "synthesize" THEN Ceiling + Put(brief.alternate) ELSE 0
      BY <1>1, <2>1 DEF PutAside, Put
    <3>3. brief.budget \in Nat /\ spent \in Nat /\ spent <= brief.budget
      BY DEF IInv, Typed
    <3>4. QED
      BY <1>1, <3>1, <3>2, <3>3 DEF IInv, BudgetOrder
  <2>11. ReviewOrder'
    <3>1. \A n \in DOMAIN attempts' : attempts'[n].reviewed
      BY <1>1, <2>4, <2>5 DEF IInv, ReviewOrder, last
    <3>2. ASSUME NEW n \in DOMAIN attempts', NEW i \in DOMAIN attempts'[n].results
          PROVE  attempts'[n].outcomes[i] \in Allowed(attempts'[n].results[i])
      <4>1. CASE n = last
        BY <2>2, <2>4, <2>5, <3>2, <4>1
      <4>2. CASE n # last
        <5>1. attempts'[n] = attempts[n] /\ n \in DOMAIN attempts /\ attempts[n].reviewed
          BY <1>1, <2>5, <3>2, <4>2 DEF IInv, ReviewOrder, last
        <5>2. QED
          BY <3>2, <5>1 DEF IInv, ReviewOrder
      <4>3. QED
        BY <4>1, <4>2
    <3>3. QED
      BY <3>1, <3>2 DEF ReviewOrder
  <2>12. ObservationsAreProven'
    BY <1>1, GoingOn DEF ObservationsAreProven
  <2>13. QED
    BY <2>7, <2>8, <2>9, <2>10, <2>11, <2>12 DEF IInv
<1>6. QED
  BY <1>4, <1>5

-----------------------------------------------------------------------------
(* The result and the end *)

\* What was observed was proven, in any attempt that was reviewed.
LEMMA ReviewedIsProven ==
  ASSUME IInv, NEW n \in DOMAIN attempts, attempts[n].reviewed, NEW i \in DOMAIN attempts[n].results,
         attempts[n].outcomes[i] \in {"SUPPORTED", "CONTRADICTED", "CENSORED_OUT_OF_FRAME"}
  PROVE  attempts[n].results[i] = "REPLAY_PROVEN"
<1>1. attempts[n].outcomes[i] \in Allowed(attempts[n].results[i])
  BY DEF IInv, ReviewOrder
<1>2. QED
  BY <1>1 DEF Allowed

LEMMA SealSynthesisKeeps == ASSUME IInv, SealSynthesis PROVE IInv'
<1>1. /\ UNCHANGED <<brief, attempts, correction, exact, spent, refused, events, files>>
      /\ at = "synthesized" /\ at' \in {"communicate", "finalize"}
      /\ at' = "communicate" => brief.alternate
      /\ brief.alternate /\ record'.conclusion # "NO_SCIENTIFIC_CONCLUSION" => at' = "communicate"
  BY DEF SealSynthesis, sessionVars, costVars
<1>2. /\ refused = "none" /\ events \intersect {"drift", "lost", "raised"} = {} /\ exact = 0
      /\ \A n \in DOMAIN attempts : attempts[n].reviewed
  BY <1>1, GoingOn DEF IInv, Typed, Calling, ReviewOrder
<1> DEFINE reviews == [n \in DOMAIN attempts |-> attempts[n].outcomes]
<1>3. \/ \E reply \in RecordReply(reviews) :
           /\ RecordAccepted(reply, reviews)
           /\ Seals([kind |-> "scientific", conclusion |-> reply.conclusion, claims |-> reply.claims,
                     summaries |-> reply.summaries], "COMPLETED")
      \/ Seals(FallbackRecord, "MANUAL_REVIEW_REQUIRED")
  BY DEF SealSynthesis
<1>4. /\ ending'.disposition = "COMPLETED" => record'.kind = "scientific"
      /\ \A s \in DOMAIN record'.summaries : record'.summaries[s] \in Range(reviews)
  <2>1. ASSUME NEW reply \in RecordReply(reviews), RecordAccepted(reply, reviews),
               Seals([kind |-> "scientific", conclusion |-> reply.conclusion, claims |-> reply.claims,
                      summaries |-> reply.summaries], "COMPLETED")
        PROVE  record'.kind = "scientific" /\ record'.summaries = reply.summaries
    BY <2>1 DEF Seals
  <2>2. CASE Seals(FallbackRecord, "MANUAL_REVIEW_REQUIRED")
    <3>1. ending' = [ending EXCEPT !.disposition = "MANUAL_REVIEW_REQUIRED"]
          /\ record' = FallbackRecord
      BY <2>2 DEF Seals
    <3>2. ending'.disposition # "COMPLETED"
      BY <3>1, <1>1 DEF IInv, PlaceOrder
    <3>3. DOMAIN record'.summaries = {}
      BY <3>1 DEF FallbackRecord
    <3>4. QED
      BY <3>2, <3>3
  <2>3. CASE \E reply \in RecordReply(reviews) :
               /\ RecordAccepted(reply, reviews)
               /\ Seals([kind |-> "scientific", conclusion |-> reply.conclusion, claims |-> reply.claims,
                         summaries |-> reply.summaries], "COMPLETED")
    <3>1. PICK reply \in RecordReply(reviews) :
               /\ RecordAccepted(reply, reviews)
               /\ Seals([kind |-> "scientific", conclusion |-> reply.conclusion, claims |-> reply.claims,
                         summaries |-> reply.summaries], "COMPLETED")
      BY <2>3
    <3>2. record'.kind = "scientific" /\ record'.summaries = reply.summaries
      BY <2>1, <3>1
    <3>3. \A s \in DOMAIN reply.summaries : reply.summaries[s] \in Range(reviews)
      BY <3>1 DEF RecordAccepted
    <3>4. QED
      BY <3>2, <3>3
  <2>4. QED
    BY <1>3, <2>2, <2>3
<1>5. Typed' /\ PlaceOrder'
  BY <1>1, <1>2 DEF IInv, Typed, PlaceOrder, Calling, Closing, Planning
<1>6. (StopOrder /\ AffordableOnceStarted)'
  BY <1>1, <1>2 DEF StopOrder, AffordableOnceStarted
<1>7. BudgetOrder'
  <2>1. PutAside = Put(brief.alternate)
    BY <1>1 DEF PutAside
  <2>2. PutAside' = IF at' = "communicate" THEN Put(brief.alternate) ELSE 0
    BY <1>1 DEF PutAside, Put
  <2>3. brief.budget \in Nat /\ spent \in Nat /\ spent <= brief.budget
    BY DEF IInv, Typed
  <2>4. QED
    BY <1>1, <2>1, <2>2, <2>3 DEF IInv, BudgetOrder
<1>8. ReviewOrder'
  BY <1>1, <1>2 DEF IInv, ReviewOrder
<1>9. CompletedOrder'
  BY <1>1, <1>2, <1>4 DEF CompletedOrder
<1>10. ObservationsAreProven'
  <2> SUFFICES ASSUME NEW s \in DOMAIN record'.summaries
               PROVE  \E n \in DOMAIN attempts :
                        /\ attempts[n].reviewed /\ record'.summaries[s] = attempts[n].outcomes
                        /\ \A i \in DOMAIN attempts[n].results :
                             attempts[n].outcomes[i]
                               \in {"SUPPORTED", "CONTRADICTED", "CENSORED_OUT_OF_FRAME"}
                             => attempts[n].results[i] = "REPLAY_PROVEN"
    BY <1>1 DEF ObservationsAreProven
  <2>1. PICK n \in DOMAIN attempts : record'.summaries[s] = attempts[n].outcomes
    BY <1>4 DEF Range
  <2>2. attempts[n].reviewed
    BY <1>2
  <2>3. QED
    BY <2>1, <2>2, ReviewedIsProven
<1>11. QED
  BY <1>5, <1>6, <1>7, <1>8, <1>9, <1>10 DEF IInv

\* The types of what the end decides.
Disposition == {"RUNNING", "COMPLETED", "MANUAL_REVIEW_REQUIRED"}
Cleanup     == {"none", "complete", "failed"}
EndTyped ==
  /\ ending \in [disposition : Disposition, communicated : BOOLEAN]
  /\ files \in [owned : BOOLEAN, cleanup : Cleanup]

\* A step of the end that calls nothing.
LEMMA EndingKeeps ==
  ASSUME IInv, at \notin Calling \/ exact = 0, at' \in Closing,
         UNCHANGED <<brief, attempts, correction, exact, spent, refused>>, events \subseteq events',
         UNCHANGED record \/ record'.summaries = <<>>, CompletedOrder'
  PROVE  IInv'
<1>1. exact = 0 /\ spent \in Nat /\ spent <= brief.budget /\ refused \in Stage \union {"none"}
  BY DEF IInv, Typed
<1>2. AffordableOnceStarted'
  BY RefusedStays DEF IInv
<1>3. QED
  BY <1>1, <1>2, ClosingKeeps

LEMMA SealFailureKeeps == ASSUME IInv, EndTyped, SealFailure PROVE IInv'
<1>1. /\ UNCHANGED <<brief, attempts, correction, exact, spent, refused, events>>
      /\ at \notin Calling /\ at' \in Closing
  BY DEF SealFailure, sessionVars, costVars, Calling, Closing
<1>2. record'.summaries = <<>> /\ ending'.disposition = "MANUAL_REVIEW_REQUIRED"
  BY DEF SealFailure, Seals, FallbackRecord, EndTyped
<1>3. QED
  BY <1>1, <1>2, NotCompleted, EndingKeeps

LEMMA CloseRefusedKeeps == ASSUME IInv, EndTyped, CloseRefused PROVE IInv'
<1>1. /\ UNCHANGED <<brief, attempts, correction, exact, spent, refused, events>>
      /\ at \notin Calling /\ at' \in Closing
  BY DEF CloseRefused, sessionVars, costVars, Calling, Closing
<1>2. /\ UNCHANGED record \/ record'.summaries = <<>>
      /\ ending'.disposition = "MANUAL_REVIEW_REQUIRED" \/ at' = "abort"
  BY DEF CloseRefused, Seals, FallbackRecord, EndTyped, resultVars
<1>3. QED
  BY <1>1, <1>2, NotCompleted, EndingKeeps

LEMMA SealCommunicationKeeps == ASSUME IInv, EndTyped, SealCommunication PROVE IInv'
<1>1. /\ UNCHANGED <<brief, attempts, correction, exact, spent, refused, events, record>>
      /\ at \notin Calling /\ at' \in Closing /\ at' = "finalize"
  BY DEF SealCommunication, sessionVars, costVars, Calling, Closing
<1>2. \/ /\ at = "communicated" /\ ending' = [ending EXCEPT !.communicated = TRUE]
      \/ ending' = [ending EXCEPT !.disposition = "MANUAL_REVIEW_REQUIRED"]
  BY DEF SealCommunication
<1>3. CompletedOrder'
  <2>1. CASE at = "communicated" /\ ending' = [ending EXCEPT !.communicated = TRUE]
    <3>1. ending'.disposition = ending.disposition /\ ending'.communicated
      BY <2>1 DEF EndTyped
    <3>2. refused = "none" /\ events \intersect {"drift", "lost", "raised"} = {}
      BY <2>1 DEF IInv, StopOrder, Closing
    <3>3. QED
      BY <1>1, <2>1, <3>1, <3>2 DEF IInv, CompletedOrder
  <2>2. CASE ending' = [ending EXCEPT !.disposition = "MANUAL_REVIEW_REQUIRED"]
    BY <2>2, NotCompleted DEF EndTyped
  <2>3. QED
    BY <1>2, <2>1, <2>2
<1>4. QED
  BY <1>1, <1>3, EndingKeeps

LEMMA FinalizeKeeps == ASSUME IInv, EndTyped, Finalize PROVE IInv'
<1>1. /\ UNCHANGED <<brief, attempts, correction, exact, spent, refused, events, record>>
      /\ at = "finalize" /\ at' = "closeout" /\ at \notin Calling /\ at' \in Closing
      /\ ending' = IF files'.cleanup = "complete" THEN ending
                   ELSE [ending EXCEPT !.disposition = "MANUAL_REVIEW_REQUIRED"]
  BY DEF Finalize, sessionVars, costVars, Calling, Closing
<1>2. CompletedOrder'
  <2>1. CASE files'.cleanup = "complete"
    BY <1>1, <2>1 DEF IInv, CompletedOrder
  <2>2. CASE files'.cleanup # "complete"
    BY <1>1, <2>2, NotCompleted DEF EndTyped
  <2>3. QED
    BY <2>1, <2>2
<1>3. QED
  BY <1>1, <1>2, EndingKeeps

LEMMA CloseKeeps == ASSUME IInv, Close PROVE IInv'
<1>1. /\ UNCHANGED <<brief, attempts, correction, exact, spent, refused, events, record, ending, files>>
      /\ at = "closeout" /\ at' = "closed" /\ at \notin Calling /\ at' \in Closing
  BY DEF Close, sessionVars, costVars, resultVars, Calling, Closing
<1>2. CompletedOrder'
  BY <1>1 DEF IInv, CompletedOrder
<1>3. QED
  BY <1>1, <1>2, EndingKeeps

\* The ways out with an exception.
LEMMA AbortKeeps == ASSUME IInv, StepRaises \/ Abort PROVE IInv'
<1>1. /\ UNCHANGED <<brief, attempts, correction, exact, spent, refused, record>>
      /\ at \notin Calling \/ exact = 0
      /\ at' \in {"abort", "aborted"} /\ at' \in Closing /\ events \subseteq events'
  BY DEF StepRaises, Abort, sessionVars, costVars, resultVars, Calling, Closing
<1>2. QED
  BY <1>1, NotCompleted, EndingKeeps

-----------------------------------------------------------------------------
(* Every step *)

LEMMA NothingKeeps == ASSUME IInv, UNCHANGED vars PROVE IInv'
<1>1. UNCHANGED <<brief, at, attempts, correction, exact, spent, refused, events, record, ending, files>>
  BY DEF vars, sessionVars, costVars, resultVars
<1>2. (Typed /\ PlaceOrder /\ StopOrder /\ ReviewOrder)'
  BY <1>1 DEF IInv, Typed, PlaceOrder, StopOrder, ReviewOrder
<1>3. BudgetOrder'
  BY <1>1 DEF IInv, BudgetOrder, PutAside, ToReview
<1>4. (CompletedOrder /\ AffordableOnceStarted)'
  BY <1>1 DEF IInv, CompletedOrder, AffordableOnceStarted
<1>5. ObservationsAreProven'
  BY <1>1, ObservationsStay DEF IInv
<1>6. QED
  BY <1>2, <1>3, <1>4, <1>5 DEF IInv

LEMMA StepKeeps == ASSUME IInv, EndTyped, [Next]_vars PROVE IInv'
<1>1. CASE EvidenceRefused
  BY <1>1, EvidenceRefusedKeeps
<1>2. CASE Count
  BY <1>2, CountKeeps
<1>3. CASE CallFails
  BY <1>3, CallFailsKeeps
<1>4. CASE Refuse
  BY <1>4, RefuseKeeps
<1>5. CASE Answer
  BY <1>5, AnswerKeeps
<1>6. CASE AnswerFails
  BY <1>6, AnswerFailsKeeps
<1>7. CASE ReadPlan
  BY <1>7, ReadPlanKeeps
<1>8. CASE Execute \/ ExecuteAcrossDrift
  BY <1>8, ExecuteKeeps
<1>9. CASE ReadReview
  BY <1>9, ReadReviewKeeps
<1>10. CASE SealSynthesis
  BY <1>10, SealSynthesisKeeps
<1>11. CASE SealFailure
  BY <1>11, SealFailureKeeps
<1>12. CASE CloseRefused
  BY <1>12, CloseRefusedKeeps
<1>13. CASE SealCommunication
  BY <1>13, SealCommunicationKeeps
<1>14. CASE Finalize
  BY <1>14, FinalizeKeeps
<1>15. CASE Close
  BY <1>15, CloseKeeps
<1>16. CASE StepRaises \/ Abort
  BY <1>16, AbortKeeps
<1>17. CASE UNCHANGED vars
  BY <1>17, NothingKeeps
<1>18. QED
  BY <1>1, <1>2, <1>3, <1>4, <1>5, <1>6, <1>7, <1>8, <1>9, <1>10, <1>11, <1>12, <1>13, <1>14, <1>15,
     <1>16, <1>17 DEF Next, Step

LEMMA EndStaysTyped == ASSUME EndTyped, [Next]_vars PROVE EndTyped'
<1>1. CASE UNCHANGED <<ending, files>>
  BY <1>1 DEF EndTyped
<1>2. CASE SealSynthesis \/ SealFailure \/ CloseRefused \/ SealCommunication
  <2>1. files' = files
    BY <1>2 DEF SealSynthesis, SealFailure, CloseRefused, SealCommunication
  <2>2. ASSUME NEW sealed, NEW d \in Disposition, Seals(sealed, d)
        PROVE  ending' \in [disposition : Disposition, communicated : BOOLEAN]
    BY <2>2 DEF Seals, EndTyped
  <2>3. CASE SealSynthesis
    BY <2>1, <2>2, <2>3 DEF SealSynthesis, EndTyped, Disposition
  <2>4. CASE SealFailure \/ CloseRefused
    BY <2>1, <2>2, <2>4 DEF SealFailure, CloseRefused, EndTyped, Disposition, resultVars
  <2>5. CASE SealCommunication
    <3>1. \/ ending' = [ending EXCEPT !.communicated = TRUE]
          \/ ending' = [ending EXCEPT !.disposition = "MANUAL_REVIEW_REQUIRED"]
      BY <2>5 DEF SealCommunication
    <3>2. QED
      BY <2>1, <3>1 DEF EndTyped, Disposition
  <2>6. QED
    BY <1>2, <2>3, <2>4, <2>5
<1>3. CASE Count \/ CallFails
  <2>1. ending' = ending /\ files' \in {files, [files EXCEPT !.owned = TRUE]}
    BY <1>3 DEF Count, CallFails, resultVars
  <2>2. QED
    BY <2>1 DEF EndTyped
<1>4. CASE Finalize \/ Abort
  <2>1. ending' = ending \/ ending' = [ending EXCEPT !.disposition = "MANUAL_REVIEW_REQUIRED"]
    BY <1>4 DEF Finalize, Abort, resultVars
  <2>2. \/ files' = files
        \/ files' = [files EXCEPT !.cleanup = "complete"] \/ files' = [files EXCEPT !.cleanup = "failed"]
    BY <1>4 DEF Finalize, Abort
  <2>3. ending' \in [disposition : Disposition, communicated : BOOLEAN]
    BY <2>1 DEF EndTyped, Disposition
  <2>4. files' \in [owned : BOOLEAN, cleanup : Cleanup]
    BY <2>2 DEF EndTyped, Cleanup
  <2>5. QED
    BY <2>3, <2>4 DEF EndTyped
<1>5. QED
  BY <1>1, <1>2, <1>3, <1>4
  DEF Next, Step, vars, resultVars, EvidenceRefused, Refuse, Answer, AnswerFails, ReadPlan, Execute,
      ExecuteAcrossDrift, ReadReview, Close, StepRaises

LEMMA Invariance == Spec => [](IInv /\ EndTyped)
<1>1. Init => IInv /\ EndTyped
  <2>1. Init => EndTyped
    BY DEF Init, EndTyped, Disposition, Cleanup
  <2>2. QED
    BY <2>1, InitHolds
<1>2. IInv /\ EndTyped /\ [Next]_vars => (IInv /\ EndTyped)'
  BY StepKeeps, EndStaysTyped
<1>3. QED
  BY <1>1, <1>2, PTL DEF Spec

\* For every budget and every ceiling: while no call costs more than its exact count, no call that
\* the plan put aside is refused by authorize_dispatch; what is refused is a plan, or the
\* correction in a session without experiments.
THEOREM StartedIsAffordable == Spec => []AffordableOnceStarted
<1>1. IInv => AffordableOnceStarted
  BY DEF IInv
<1>2. QED
  BY <1>1, Invariance, PTL

\* A closeout that says COMPLETED is about an accepted record of reviewed experiments, with nothing
\* left at the provider and no refusal, loss, drift or exception behind it.
THEOREM CompletedSessionsAreEarned == Spec => []CompletedIsEarned
<1>1. IInv => CompletedIsEarned
  BY DEF IInv, CompletedOrder, CompletedIsEarned
<1>2. QED
  BY <1>1, Invariance, PTL

\* For sweeps of every size: what a sealed record reports as observed was replay-proven, through
\* the review of the attempt and the summary of the synthesis.
THEOREM SealedObservationsAreProven == Spec => []ObservationsAreProven
<1>1. IInv => ObservationsAreProven
  BY DEF IInv
<1>2. QED
  BY <1>1, Invariance, PTL

\* After a refusal, a drift or a charge that is in no account, no step sends the provider a request.
THEOREM SpendingStops == Spec => StopsSpending
<1>1. ASSUME IInv, [Next]_vars, refused # "none" \/ events \intersect {"drift", "lost"} # {}
      PROVE  dispatches' = dispatches
  <2>1. ~Answer /\ ~AnswerFails
    <3>1. ~MayCall
      BY <1>1, CallIsTyped
    <3>2. QED
      BY <3>1 DEF Answer, AnswerFails, Dispatches
  <2>2. QED
    BY <1>1, <2>1
    DEF Next, Step, vars, costVars, EvidenceRefused, Count, CallFails, Refuse, ReadPlan, Execute,
        ExecuteAcrossDrift, ReadReview, SealSynthesis, SealFailure, CloseRefused, SealCommunication,
        Finalize, Close, StepRaises, Abort
<1>2. IInv /\ [Next]_vars =>
        [refused # "none" \/ events \intersect {"drift", "lost"} # {} => dispatches' = dispatches]_vars
  BY <1>1
<1>3. QED
  BY <1>2, Invariance, PTL DEF Spec, StopsSpending
=============================================================================
