---------------------------- MODULE ResearchPanel ----------------------------
(***************************************************************************)
(* The research panel of the window, over UserWorkflow: the brief is edited,  *)
(* the first request is counted, what was counted may be run, and the answer   *)
(* is shown. Counting and running are jobs of one kind. Each has a durable run  *)
(* store of its own, and the gate between them is the approval of the last count. *)
(*                                                                          *)
(* What a run does, and what it pays, is ResearchSession.                    *)
(***************************************************************************)
EXTENDS UserWorkflow

CONSTANTS
  Form,        \* what the inputs of the panel may say: brief, model, effort and budget
  Unreadable,  \* an input that makes no brief
  MaxStores    \* bound: run stores created

ASSUME PanelAssumption == Unreadable \notin Form /\ MaxStores \in Nat

VARIABLES
  panel,     \* the inputs, and the _research_ fields of the window
  stores,    \* the run stores on disk, in the order they were created
  overtaken  \* whether a late job has taken the busy mark of a later one

panelVars == <<panel, stores, overtaken>>
allVars == <<vars, panelVars>>

Research == "research_question"

PanelInit ==
  /\ Init
  /\ \E form \in Form :
       panel = [form |-> form, gate |-> Nothing, receipt |-> Nothing, store |-> None, job |-> None,
                answer |-> None, experiments |-> None]
  /\ stores = <<>> /\ overtaken = FALSE

\* _current_research_count_binding()
CurrentBinding ==
  IF session.bundle = None \/ panel.form = Unreadable THEN Nothing
  ELSE [packet |-> session.bundle, form |-> panel.form]

Ungated(p) == [p EXCEPT !.gate = Nothing, !.receipt = Nothing]

-----------------------------------------------------------------------------
(* The inputs, the count and the run *)

\* configure_controls(): the inputs and the two buttons are locked while anything is busy.
Unlocked == ~closed /\ work.busy = {}

\* Mutant: the inputs stay open during a count.
EditBriefAnytime(form) ==
  /\ ~closed
  /\ panel' = Ungated([panel EXCEPT !.form = form])
  /\ UNCHANGED <<vars, stores, overtaken>>

\* _research_brief_changed()
EditBrief(form) ==
  /\ Unlocked
  /\ panel' = Ungated([panel EXCEPT !.form = form])
  /\ UNCHANGED <<vars, stores, overtaken>>

MayCreateStore == panel.form # Unreadable /\ Len(stores) < MaxStores
WithStore(purpose, approved, job) ==
  Append(stores, [purpose |-> purpose, packet |-> session.bundle, form |-> panel.form,
                  approved |-> approved, authorized |-> FALSE, job |-> job])

\* count_research_budget(): the approval is gone, whether or not a prerequisite is missing.
CountBudget ==
  /\ Unlocked /\ session.bundle # None /\ Room(1)
  /\ \/ panel' = Ungated(panel) /\ UNCHANGED <<work, stores>>
     \/ /\ MayCreateStore
        /\ work' = Submitted(work, Research, Binding)
        /\ stores' = WithStore("count", None, SubmittedId)
        /\ panel' = [Ungated(panel) EXCEPT !.store = Len(stores'), !.job = SubmittedId]
  /\ UNCHANGED <<session, viewVars, completions, pump, closed, diskVars, drifted, overtaken>>

\* Mutant: the approval is not bound to the run store that is open.
ValidatedByBinding == panel.receipt # Nothing /\ panel.receipt.binding = CurrentBinding

\* _validate_research_count_gate_receipt(); besides, a file of the count may have changed.
Validated ==
  /\ panel.receipt # Nothing
  /\ panel.receipt.binding = CurrentBinding /\ panel.receipt.count = panel.store

\* run_research_session(): the run store takes the place of the count's. Then the receipt is
\* written to it, which may raise, and the job is submitted, which may be refused.
RunResearch ==
  /\ Unlocked /\ session.bundle # None /\ panel.gate # Nothing /\ panel.gate = CurrentBinding
  /\ panel.receipt # Nothing /\ Room(1)
  /\ \/ panel' = Ungated(panel) /\ UNCHANGED <<work, stores>>
     \/ /\ Validated /\ MayCreateStore
        /\ \/ work' = Submitted(work, Research, Binding)
           \/ UNCHANGED work
        /\ stores' = WithStore("run", panel.receipt.count, SubmittedId)
        /\ panel' = [panel EXCEPT !.store = Len(stores'), !.answer = None, !.experiments = None,
                                  !.job = SubmittedId]
  /\ UNCHANGED <<session, viewVars, completions, pump, closed, diskVars, drifted, overtaken>>

\* The button is enabled while anything is busy.
CancelResearch ==
  /\ ~closed /\ work.busy # {}
  /\ work' = Cancelled(work, {panel.job})
  /\ UNCHANGED <<session, viewVars, completions, pump, closed, diskVars, drifted, panelVars>>

-----------------------------------------------------------------------------
(* Completions *)

\* Mutant: only a job of this session takes off the mark.
MarkOfOwnSessionTakenOff ==
  IF IsCurrent(Head(completions)) THEN Discarded(Research) ELSE work

\* Whose job it is does not matter.
MarkTakenOff == Discarded(Research)

\* What both completions begin with.
ResearchEnds(purpose) ==
  /\ Handle(Research)
  /\ \E s \in DOMAIN stores : stores[s].job = Head(completions).id /\ stores[s].purpose = purpose
  /\ work' = MarkTakenOff
  /\ overtaken' = (overtaken \/ (ResearchBusy /\ Head(completions).id # panel.job))
  /\ UNCHANGED <<session, fullOpened, validated, jobId>>

StoreOf(c) == CHOOSE s \in DOMAIN stores : stores[s].job = c.id

\* Mutant: what comes late is shown.
ArrivesAnyway(c) == c.outcome = "value"

Arrives(c) == IsCurrent(c) /\ c.outcome = "value"

\* _research_count_completed(): the approval is for the inputs as they are now, and for the run
\* store that is open now, of which two files are read, which raises if they are not there.
CountCompleted ==
  LET c == Head(completions)
      ended == [panel EXCEPT !.job = None] IN
  /\ ResearchEnds("count")
  /\ \/ panel' = ended /\ GoesOn /\ UNCHANGED stores
     \/ /\ Arrives(c)
        /\ stores' = [stores EXCEPT ![StoreOf(c)].authorized = TRUE]
        /\ \/ /\ CurrentBinding # Nothing /\ panel.store # None
              /\ stores[panel.store].purpose = "count" /\ GoesOn
              /\ panel' = [ended EXCEPT !.gate = CurrentBinding,
                             !.receipt = [binding |-> CurrentBinding, count |-> panel.store]]
           \/ panel' = [ended EXCEPT !.gate = CurrentBinding] /\ Raises

\* _research_session_completed(): the answer is the result's, the experiments are read from the
\* run store that is open; reading raises if something is missing.
RunCompleted ==
  LET c == Head(completions)
      ended == [panel EXCEPT !.job = None]
      answered == [ended EXCEPT !.answer = StoreOf(c)] IN
  /\ ResearchEnds("run")
  /\ \/ ~Arrives(c) /\ panel' = ended /\ GoesOn
     \/ /\ Arrives(c)
        /\ \/ panel' = [answered EXCEPT !.experiments = panel.store] /\ GoesOn
           \/ panel' \in {ended, answered} /\ Raises
  /\ UNCHANGED stores

-----------------------------------------------------------------------------
(* What the rest of the window does to the panel *)

\* reset_session()
ResetPanel ==
  /\ ResetSession
  /\ panel' = [Ungated(panel) EXCEPT !.store = None, !.job = None, !.answer = None, !.experiments = None]
  /\ UNCHANGED <<stores, overtaken>>

\* _activate_bundle()
NewPacket ==
  /\ PacketArrives
  /\ panel' = IF Arrives(Head(completions)) THEN Ungated(panel) ELSE panel
  /\ UNCHANGED <<stores, overtaken>>

OtherWork == (OtherArrives \/ Press \/ WorkerFinishes) /\ UNCHANGED panelVars

PanelNext ==
  \/ \E form \in Form \union {Unreadable} : EditBrief(form)
  \/ CountBudget \/ RunResearch \/ CancelResearch \/ CountCompleted \/ RunCompleted
  \/ ResetPanel \/ NewPacket \/ OtherWork
  \/ closed /\ UNCHANGED allVars

PanelSpec == PanelInit /\ [][PanelNext]_allVars

-----------------------------------------------------------------------------
Runs == {s \in DOMAIN stores : stores[s].purpose = "run"}

PanelTypeOK ==
  /\ TypeOK
  /\ panel.form \in Form \union {Unreadable}
  /\ {panel.store, panel.answer, panel.experiments} \subseteq (DOMAIN stores) \union {None}
  /\ panel.job \in JobNumber \union {None}
  /\ panel.receipt # Nothing => panel.receipt.count \in (DOMAIN stores) \ Runs

\* A run has the approval of a count of its very packet, and no count approves two runs, although
\* the approval is not taken away when it is used.
RunIsApproved ==
  \A r \in Runs : LET count == stores[r].approved IN
    /\ count \in (DOMAIN stores) \ Runs /\ stores[count].packet = stores[r].packet
    /\ \A q \in Runs : stores[q].approved = count => q = r

\* README.md: "`Run Research` remains disabled until `Count & Review Budget` authorizes the
\* exact current Packet, brief, model, effort, and budget." The brief of a run is the one that
\* was counted, and the count has authorized it.
RunIsCounted ==
  \A r \in Runs : LET count == stores[stores[r].approved] IN
    count.authorized /\ count.form = stores[r].form

\* What keeps the brief of a run the counted one is that the inputs are locked while the count
\* is under way, for the gate is bound to the inputs as they are when the count comes back: the
\* one way to pay for an uncounted run is a late job that unlocks them.
CountedUnlessOvertaken == overtaken \/ RunIsCounted

\* The answer and the experiments the panel shows together are those of one run, whatever was
\* cancelled, reset or run again before; unless a late job let a second one start beside it.
AnswerIsOfItsRun == panel.answer = panel.experiments \/ overtaken \/ pump = "stopped"

\* While the panel is busy, its Cancel button stops the job that is at work, on the run store that
\* is shown, and no other.
BusyIsCancellable ==
  ResearchBusy /\ ~closed =>
    \E j \in InFlight : /\ j.kind = Research /\ j.id = panel.job
                        /\ stores[panel.store].job = j.id
=============================================================================
