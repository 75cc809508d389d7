---------------------------- MODULE RunStore_proofs ----------------------------
(***************************************************************************)
(* Theorems about RunStore, for every set of projections, every number of    *)
(* attempts and every bound on the number of events.                        *)
(***************************************************************************)
EXTENDS RunStore, SequenceTheorems, TLAPS

-----------------------------------------------------------------------------
(* The inductive invariant *)

\* An appending call has read the history it appends to, and numbers the event after it.
Appending ==
  call.at = "append" => /\ Readable /\ call.seq = Len(events) + 1
                        /\ call.op = "record" /\ call.state \in Projection
                        /\ call.payload \in Payload

\* A replacing call holds the last event of the history, which the projection is behind.
Replacing ==
  call.at = "replace" => /\ active.seq < call.seq
                         /\ call.op # "none"
                         /\ Readable => /\ call.seq = Len(events)
                                        /\ call.seq > 0 /\ call.state = Last.state

CallOrder == /\ call = NoCall <=> call.at = "idle"
             /\ call # NoCall => result = NoResult

SnapshotOrder == seen <= active.seq

IInv == /\ TypeOK
        /\ CallOrder /\ Appending /\ Replacing /\ SnapshotOrder
        /\ ProjectionFollowsHistory /\ EndingIsTrue

-----------------------------------------------------------------------------

LEMMA NothingIsTyped ==
  /\ NoTurn \in Turn /\ NoResult \in Result
  /\ NoCall \in Call /\ NoCall.attempt <= Attempts /\ 1 <= Attempts
BY RunStoreAssumption DEF NoTurn, Turn, NoCall, Call, NoResult, Result, Ending

LEMMA InitHolds == Init => IInv
<1> SUFFICES ASSUME Init PROVE IInv
  OBVIOUS
<1>1. events = <<>> /\ <<>> \in Seq(Line) /\ DOMAIN <<>> = {} /\ Len(<<>>) = 0
  BY DEF Init
<1>2. TypeOK
  BY <1>1, NothingIsTyped DEF Init, TypeOK
<1>3. QED
  BY <1>1, <1>2 DEF Init, IInv, CallOrder, Appending, Replacing, SnapshotOrder,
     ProjectionFollowsHistory, EndingIsTrue, NoCall, NoTurn, NoResult

\* What writing a line does to a history that could be read: the line is added, or the last
\* line is spoilt.
LEMMA WriteAdds ==
  ASSUME TypeOK, Readable, NEW form \in Form, call.state \in Projection, Write(form)
  PROVE  /\ events' \in Seq(Line)
         /\ Readable' => /\ Len(events') = Len(events) + 1
                         /\ events'[Len(events) + 1].state = call.state
                         /\ \A i \in DOMAIN events : events'[i] = events[i]
<1> DEFINE line == [state |-> call.state, form |-> form]
<1>1. line \in Line /\ [line EXCEPT !.form = "glued"] \in Line
         /\ [line EXCEPT !.form = "glued"].form = "glued"
  BY DEF Line, Form
<1> HIDE DEF line
<1>2. CASE events # <<>> /\ Last.form = "unended"
  <2>1. events' = [events EXCEPT ![Len(events)] = [line EXCEPT !.form = "glued"]]
    BY <1>2 DEF Write, line
  <2>2. events \in Seq(Line) /\ Len(events) \in DOMAIN events
    BY <1>2 DEF TypeOK
  <2>3. events' \in Seq(Line) /\ DOMAIN events' = DOMAIN events
    BY <1>1, <2>1, <2>2
  <2>4. events'[Len(events)].form = "glued"
    BY <1>1, <2>1, <2>2
  <2>5. ~Readable'
    BY <2>2, <2>3, <2>4 DEF Readable
  <2>6. QED
    BY <2>3, <2>5
<1>3. CASE ~(events # <<>> /\ Last.form = "unended")
  <2>1. events' = Append(events, line)
    BY <1>3 DEF Write, line
  <2>2. line.state = call.state
    BY DEF line
  <2>3. QED
    BY <1>1, <2>1, <2>2, AppendProperties DEF TypeOK
<1>4. QED
  BY <1>2, <1>3

\* A history that cannot be read stays so: no line is added to it.
LEMMA PartlyWrittenAdds ==
  ASSUME TypeOK, Appending, call.at = "append", PartlyWritten
  PROVE  /\ events' \in Seq(Line)
         /\ Readable' => \A i \in DOMAIN events : i \in DOMAIN events' /\ events'[i] = events[i]
<1>1. CASE UNCHANGED events
  BY <1>1 DEF TypeOK
<1>2. CASE \E form \in PartForms(call.payload) : Write(form)
  <2>1. PICK form \in PartForms(call.payload) : Write(form)
    BY <1>2
  <2>2. form \in Form
    BY DEF PartForms, FormOf, Form
  <2>3. QED
    BY <2>1, <2>2, WriteAdds DEF Appending, TypeOK
<1>3. QED
  BY <1>1, <1>2 DEF PartlyWritten

\* The projection never has a number beyond the lines of a readable history.
LEMMA ProjectionBounded ==
  ASSUME TypeOK, ProjectionFollowsHistory, Readable
  PROVE  active.seq <= Len(events)
BY DEF TypeOK, Turn, NoTurn, ProjectionFollowsHistory

-----------------------------------------------------------------------------
(* The steps *)

LEMMA RecordBeginKeeps ==
  ASSUME IInv, NEW p \in Projection, NEW payload \in Payload, RecordBegin(p, payload)
  PROVE  IInv'
<1>1. UNCHANGED <<runDir, open, events, active, seen>> /\ call = NoCall
  BY DEF RecordBegin, Free
<1>2. CASE Readable
  <2>1. /\ call' = [at |-> "append", op |-> "record", seq |-> Len(events) + 1,
                   state |-> p, payload |-> payload, attempt |-> 1]
        /\ result' = NoResult
    BY <1>2 DEF RecordBegin
  <2>2. TypeOK'
    BY <1>1, <2>1, NothingIsTyped DEF IInv, TypeOK, Call
  <2>3. QED
    BY <1>1, <1>2, <2>1, <2>2 DEF IInv, CallOrder, Appending, Replacing, SnapshotOrder,
       ProjectionFollowsHistory, EndingIsTrue, NoCall, NoResult, Readable, Last
<1>3. CASE ~Readable
  <2>1. result' = [op |-> "record", end |-> "ValueError", seq |-> 0, state |-> NoState]
           /\ call' = call
    BY <1>3 DEF RecordBegin, Ended
  <2>2. TypeOK'
    BY <1>1, <2>1 DEF IInv, TypeOK, Result, Ending
  <2>3. QED
    BY <1>1, <1>3, <2>1, <2>2 DEF IInv, CallOrder, Appending, Replacing, SnapshotOrder,
       ProjectionFollowsHistory, EndingIsTrue, NoCall, Readable, Last
<1>4. QED
  BY <1>2, <1>3

LEMMA RecordAppendKeeps ==
  ASSUME IInv, RecordAppend
  PROVE  IInv'
<1>1. /\ call.at = "append" /\ Write(FormOf(call.payload))
      /\ call' = [call EXCEPT !.at = "replace"]
      /\ UNCHANGED <<runDir, open, active, result, seen>>
  BY DEF RecordAppend
<1>2. /\ Readable /\ call.seq = Len(events) + 1 /\ call.op = "record"
      /\ call.state \in Projection
  BY <1>1 DEF IInv, Appending
<1>3. FormOf(call.payload) \in Form
  BY DEF FormOf, Form
<1>4. /\ events' \in Seq(Line)
      /\ Readable' => /\ Len(events') = Len(events) + 1
                      /\ events'[Len(events) + 1].state = call.state
                      /\ \A i \in DOMAIN events : events'[i] = events[i]
  BY <1>1, <1>2, <1>3, WriteAdds DEF IInv
<1>5. call' \in Call /\ call'.at = "replace" /\ call'.seq = call.seq /\ call'.op = call.op
        /\ call'.state = call.state /\ call'.attempt = call.attempt
  BY <1>1 DEF IInv, TypeOK, Call
<1>6. TypeOK'
  BY <1>1, <1>4, <1>5 DEF IInv, TypeOK
<1>7. active.seq <= Len(events) /\ Len(events) \in Nat /\ active.seq \in Nat
  BY <1>2, ProjectionBounded DEF IInv, TypeOK, Turn
<1>8. result = NoResult /\ call' # NoCall
  BY <1>1, <1>5 DEF IInv, CallOrder, NoCall
<1>9. ProjectionFollowsHistory'
  <2> SUFFICES ASSUME Readable', active' # NoTurn
               PROVE  active'.seq \in DOMAIN events' /\ active'.state = events'[active'.seq].state
    BY DEF ProjectionFollowsHistory
  <2>1. active.seq \in DOMAIN events /\ active.state = events[active.seq].state
    BY <1>1, <1>2 DEF IInv, ProjectionFollowsHistory
  <2>2. events \in Seq(Line) /\ DOMAIN events = 1..Len(events) /\ DOMAIN events' = 1..Len(events')
    BY <1>4 DEF IInv, TypeOK
  <2>3. QED
    BY <1>1, <1>4, <1>7, <2>1, <2>2
<1>10. Replacing'
  BY <1>1, <1>2, <1>4, <1>5, <1>7 DEF Replacing, Last
<1>11. QED
  BY <1>1, <1>5, <1>6, <1>8, <1>9, <1>10 DEF IInv, CallOrder, Appending, SnapshotOrder,
     EndingIsTrue

\* Breaking off a write keeps what is said of the projection.
LEMMA PartlyWrittenKeeps ==
  ASSUME IInv, call.at = "append", PartlyWritten, UNCHANGED active
  PROVE  events' \in Seq(Line) /\ ProjectionFollowsHistory'
<1>1. Readable
  BY DEF IInv, Appending
<1>2. /\ events' \in Seq(Line)
      /\ Readable' => \A i \in DOMAIN events : i \in DOMAIN events' /\ events'[i] = events[i]
  BY PartlyWrittenAdds DEF IInv
<1>3. QED
  BY <1>1, <1>2 DEF IInv, ProjectionFollowsHistory

LEMMA AppendFailsKeeps ==
  ASSUME IInv, AppendFails
  PROVE  IInv'
<1>1. /\ call.at = "append" /\ PartlyWritten /\ call' = NoCall
      /\ result' = [op |-> "record", end |-> "OSError", seq |-> 0, state |-> call.state]
      /\ UNCHANGED <<runDir, open, active, seen>>
  BY DEF AppendFails, Ended
<1>2. events' \in Seq(Line) /\ ProjectionFollowsHistory'
  BY <1>1, PartlyWrittenKeeps
<1>3. TypeOK'
  BY <1>1, <1>2, NothingIsTyped DEF IInv, TypeOK, Call, Result, Ending
<1>4. QED
  BY <1>1, <1>2, <1>3 DEF IInv, CallOrder, Appending, Replacing, SnapshotOrder,
     EndingIsTrue, NoCall

LEMMA CrashKeeps ==
  ASSUME IInv, Crash
  PROVE  IInv'
<1>1. /\ open' = FALSE /\ call' = NoCall /\ result' = NoResult /\ seen' = 0
      /\ UNCHANGED <<runDir, active>>
  BY DEF Crash
<1>2. events' \in Seq(Line) /\ ProjectionFollowsHistory'
  <2>1. CASE call.at = "append"
    BY <1>1, <2>1, PartlyWrittenKeeps DEF Crash
  <2>2. CASE call.at # "append"
    <3>1. UNCHANGED events
      BY <2>2 DEF Crash
    <3>2. QED
      BY <1>1, <3>1 DEF IInv, TypeOK, ProjectionFollowsHistory, Readable
  <2>3. QED
    BY <2>1, <2>2
<1>3. TypeOK'
  BY <1>1, <1>2, NothingIsTyped DEF IInv, TypeOK
<1>4. SnapshotOrder'
  BY <1>1 DEF IInv, TypeOK, Turn, SnapshotOrder
<1>5. QED
  BY <1>1, <1>2, <1>3, <1>4 DEF IInv, CallOrder, Appending, Replacing, EndingIsTrue,
     NoCall, NoResult

LEMMA ReplaceKeeps ==
  ASSUME IInv, Replace
  PROVE  IInv'
<1>1. /\ call.at = "replace" /\ call' = NoCall
      /\ active' = [seq |-> call.seq, state |-> call.state]
      /\ result' = [op |-> call.op, end |-> "returned", seq |-> call.seq, state |-> call.state]
      /\ UNCHANGED <<runDir, open, events, seen>>
  BY DEF Replace, Ended
<1>2. TypeOK'
  BY <1>1, NothingIsTyped DEF IInv, TypeOK, Call, Turn, Result, Ending
<1>3. /\ active.seq < call.seq /\ active.seq \in Nat /\ call.seq \in Nat /\ seen \in Nat
      /\ Readable => call.seq = Len(events) /\ call.seq > 0 /\ call.state = Last.state
  BY <1>1 DEF IInv, Replacing, TypeOK, Turn, Call
<1>4. SnapshotOrder'
  BY <1>1, <1>3 DEF IInv, SnapshotOrder
<1>5. Readable' <=> Readable
  BY <1>1 DEF Readable
<1>6. ProjectionFollowsHistory'
  BY <1>1, <1>3, <1>5 DEF IInv, TypeOK, ProjectionFollowsHistory, Last
<1>7. EndingIsTrue'
  BY <1>1, <1>3, <1>5 DEF EndingIsTrue, Last
<1>8. QED
  BY <1>1, <1>2, <1>4, <1>6, <1>7 DEF IInv, CallOrder, Appending, Replacing, NoCall

LEMMA ReplaceFailsKeeps ==
  ASSUME IInv, ReplaceFails \/ TemporaryFails
  PROVE  IInv'
<1>1. PICK end \in {"RunStoreWriteError", "OSError"} :
        /\ call.at = "replace" /\ call' = NoCall
        /\ result' = [op |-> call.op, end |-> end, seq |-> call.seq, state |-> call.state]
        /\ UNCHANGED <<runDir, open, events, active, seen>>
  BY DEF ReplaceFails, TemporaryFails, Ended
<1>2. TypeOK'
  BY <1>1, NothingIsTyped DEF IInv, TypeOK, Call, Result, Ending
<1>3. /\ active.seq < call.seq /\ active.seq \in Nat /\ call.seq \in Nat
      /\ Readable => call.seq = Len(events) /\ call.seq > 0 /\ call.state = Last.state
  BY <1>1 DEF IInv, Replacing, TypeOK, Turn, Call
<1>4. Readable' <=> Readable
  BY <1>1 DEF Readable
<1>5. EndingIsTrue'
  BY <1>1, <1>3, <1>4 DEF EndingIsTrue, Last
<1>6. QED
  BY <1>1, <1>2, <1>4, <1>5 DEF IInv, CallOrder, Appending, Replacing, SnapshotOrder,
     ProjectionFollowsHistory, NoCall

LEMMA ReplaceRetryKeeps ==
  ASSUME IInv, ReplaceRetry
  PROVE  IInv'
<1>1. /\ call.at = "replace" /\ call' = [call EXCEPT !.attempt = @ + 1]
      /\ call.attempt < Attempts
      /\ UNCHANGED <<runDir, open, events, active, result, seen>>
  BY DEF ReplaceRetry
<1>2. call' \in Call /\ call'.at = "replace" /\ call'.seq = call.seq /\ call'.op = call.op
         /\ call'.state = call.state /\ call'.attempt <= Attempts
  BY <1>1, RunStoreAssumption DEF IInv, TypeOK, Call
<1>3. TypeOK'
  BY <1>1, <1>2 DEF IInv, TypeOK
<1>4. result = NoResult /\ call' # NoCall
  BY <1>1, <1>2 DEF IInv, CallOrder, NoCall
<1>5. QED
  BY <1>1, <1>2, <1>3, <1>4 DEF IInv, CallOrder, Appending, Replacing, SnapshotOrder,
     ProjectionFollowsHistory, EndingIsTrue, Readable, Last

LEMMA RecoverKeeps ==
  ASSUME IInv, Recover
  PROVE  IInv'
<1>1. UNCHANGED <<runDir, open, events, active, seen>> /\ call = NoCall
  BY DEF Recover, Free
<1>2. CASE Readable /\ events # <<>> /\ active.seq < Len(events)
  <2>1. /\ call' = [at |-> "replace", op |-> "recover", seq |-> Len(events),
                   state |-> Last.state, payload |-> "none", attempt |-> 1]
        /\ result' = NoResult
    BY <1>2 DEF Recover, Rewrite
  <2>2. Last.state \in Projection /\ Len(events) \in Nat /\ Len(events) > 0
    <3>1. events \in Seq(Line) /\ events # <<>>
      BY <1>2 DEF IInv, TypeOK
    <3>2. Len(events) \in Nat /\ Len(events) > 0 /\ events[Len(events)] \in Line
      BY <3>1
    <3>3. QED
      BY <3>2 DEF Line, Last
  <2>3. TypeOK'
    BY <1>1, <2>1, <2>2, NothingIsTyped DEF IInv, TypeOK, Call
  <2>4. QED
    BY <1>1, <1>2, <2>1, <2>2, <2>3 DEF IInv, CallOrder, Appending, Replacing,
       SnapshotOrder, ProjectionFollowsHistory, EndingIsTrue, NoCall, NoResult, Readable, Last
<1>3. CASE ~(Readable /\ events # <<>> /\ active.seq < Len(events))
  <2>1. call' = call
    BY <1>3 DEF Recover
  <2>2. CASE Readable /\ events # <<>> /\ active = [seq |-> Len(events), state |-> Last.state]
    <3>1. result' = [op |-> "recover", end |-> "returned", seq |-> active.seq,
                     state |-> active.state]
      BY <1>3, <2>2 DEF Recover, Ended
    <3>2. TypeOK'
      BY <1>1, <2>1, <3>1 DEF IInv, TypeOK, Result, Ending, Turn
    <3>3. QED
      BY <1>1, <2>1, <2>2, <3>1, <3>2 DEF IInv, CallOrder, Appending, Replacing,
         SnapshotOrder, ProjectionFollowsHistory, EndingIsTrue, NoCall, Readable, Last
  <2>3. CASE ~(Readable /\ events # <<>> /\ active = [seq |-> Len(events), state |-> Last.state])
    <3>1. result' = [op |-> "recover", end |-> "ValueError", seq |-> 0, state |-> NoState]
      BY <1>3, <2>3 DEF Recover, Ended
    <3>2. TypeOK'
      BY <1>1, <2>1, <3>1 DEF IInv, TypeOK, Result, Ending
    <3>3. QED
      BY <1>1, <2>1, <3>1, <3>2 DEF IInv, CallOrder, Appending, Replacing, SnapshotOrder,
         ProjectionFollowsHistory, EndingIsTrue, NoCall, Readable, Last
  <2>4. QED
    BY <2>2, <2>3
<1>4. QED
  BY <1>2, <1>3

LEMMA OtherStepsKeep ==
  ASSUME IInv, CreateDirectory \/ CreateManifest \/ Open \/ LiveSnapshot \/ UNCHANGED vars
  PROVE  IInv'
<1>1. UNCHANGED <<events, active, call, result>>
  BY DEF CreateDirectory, CreateManifest, Open, LiveSnapshot, vars
<1>2. seen' \in {seen, active.seq} /\ active.seq \in Nat
  BY DEF IInv, TypeOK, Turn, CreateDirectory, CreateManifest, Open, LiveSnapshot, vars
<1>3. TypeOK'
  BY <1>1, <1>2 DEF IInv, TypeOK, CreateDirectory, CreateManifest, Open, LiveSnapshot, vars
<1>4. QED
  BY <1>1, <1>2, <1>3 DEF IInv, CallOrder, Appending, Replacing, SnapshotOrder,
     ProjectionFollowsHistory, EndingIsTrue, Readable, Last

LEMMA NextKeeps == IInv /\ [Next]_vars => IInv'
BY RecordBeginKeeps, RecordAppendKeeps, AppendFailsKeeps, CrashKeeps, ReplaceKeeps,
   ReplaceFailsKeeps, ReplaceRetryKeeps, RecoverKeeps, OtherStepsKeep DEF Next, CallStep

LEMMA Invariance == Spec => []IInv
BY InitHolds, NextKeeps, PTL DEF Spec

-----------------------------------------------------------------------------

\* Every variable keeps its type.
THEOREM TypeCorrect == Spec => []TypeOK
BY Invariance, PTL DEF IInv

\* recover_active_turn never finds the projection ahead of the history or at odds with it,
\* wherever record_transition, or an earlier recovery, was broken off.
THEOREM ProjectionFollows == Spec => []ProjectionFollowsHistory
BY Invariance, PTL DEF IInv

\* What record_transition and recover_active_turn report of the two files is true.
THEOREM EndingTrue == Spec => []EndingIsTrue
BY Invariance, PTL DEF IInv

\* The snapshots the UI reads of a live run never go back to an earlier event.
THEOREM SnapshotsGoOn == Spec => SnapshotsAdvance
<1>1. IInv /\ [Next]_vars => [open' => seen' >= seen]_vars
  <2> SUFFICES ASSUME IInv, Next, open' PROVE seen' >= seen
    OBVIOUS
  <2>1. seen \in Nat /\ active.seq \in Nat /\ seen <= active.seq
    BY DEF IInv, TypeOK, Turn, SnapshotOrder
  <2>2. seen' \in {seen, active.seq}
    BY DEF Next, CallStep, CreateDirectory, CreateManifest, Open, Crash, RecordBegin,
       RecordAppend, AppendFails, Replace, ReplaceRetry, ReplaceFails, TemporaryFails,
       Recover, LiveSnapshot
  <2>3. QED
    BY <2>1, <2>2
<1>2. QED
  BY <1>1, Invariance, PTL DEF Spec, SnapshotsAdvance

=============================================================================
