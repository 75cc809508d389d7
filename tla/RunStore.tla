------------------------------- MODULE RunStore -------------------------------
(***************************************************************************)
(* DurableRunStore of automated_run_store.py, which both the automated and  *)
(* the research route keep their runs in: an append-only event file, the    *)
(* projection of its last event in a file of its own that is replaced       *)
(* atomically, and the recovery of the second from the first.               *)
(*                                                                          *)
(* One process owns the run. Its controller thread writes, its UI thread    *)
(* reads, both under `_projection_lock`; a call is a few file operations,   *)
(* and the process may die, or an operation fail, between any two of them.  *)
(***************************************************************************)
EXTENDS Integers, Sequences

CONSTANTS
  Projection,  \* the projections a controller records
  NoState,     \* "no projection"
  Payload,     \* a subset of {"plain", "separator"}: may an event hold text with a
               \* Unicode line separator, which JSON leaves unescaped?
  Attempts,    \* ATOMIC_REPLACE_ATTEMPTS
  MaxEvents    \* bound: no transition is recorded beyond this many lines

ASSUME RunStoreAssumption ==
  /\ NoState \notin Projection
  /\ Payload \subseteq {"plain", "separator"}
  /\ Attempts \in Nat \ {0} /\ MaxEvents \in Nat

VARIABLES
  runDir,  \* how much of the run directory create() has made
  open,    \* the process holds a store object of the run
  events,  \* the lines of events.ndjson, oldest first
  active,  \* active-turn.json: the sequence number and the projection it holds
  call,    \* the call that holds the lock, and how far it has come
  result,  \* how the last call that wrote ended
  seen     \* the sequence number of the projection the UI read last

vars == <<runDir, open, events, active, call, result, seen>>

\* How a line came to be what it is: written whole; cut short; whole but for its newline;
\* broken up by a separator in its text; or written behind a line without newline.
Form == {"whole", "cut", "unended", "split", "glued"}
Line == [state : Projection, form : Form]

Turn == [seq : Nat, state : Projection \union {NoState}]
NoTurn == [seq |-> 0, state |-> NoState]  \* the file does not exist

Call == [at : {"idle", "append", "replace"}, op : {"none", "record", "recover"},
         seq : Nat, state : Projection \union {NoState},
         payload : Payload \union {"none"}, attempt : Nat]
NoCall == [at |-> "idle", op |-> "none", seq |-> 0, state |-> NoState,
           payload |-> "none", attempt |-> 0]

\* The outcome of a call: it returned, or what it raised; and the sequence number of the
\* event it left in the file, 0 if none.
Ending == {"none", "returned", "RunStoreWriteError", "OSError", "ValueError"}
Result == [op : {"none", "record", "recover"}, end : Ending, seq : Nat,
           state : Projection \union {NoState}]
NoResult == [op |-> "none", end |-> "none", seq |-> 0, state |-> NoState]

Init ==
  /\ runDir = "absent" /\ open = FALSE
  /\ events = <<>> /\ active = NoTurn
  /\ call = NoCall /\ result = NoResult /\ seen = 0

Last == events[Len(events)]

\* What read_events accepts: every line parses, and carries its own number.
Readable == \A i \in DOMAIN events : events[i].form \in {"whole", "unended"}

Free == open /\ call = NoCall

Ended(op, end, seq, state) ==
  result' = [op |-> op, end |-> end, seq |-> seq, state |-> state]

-----------------------------------------------------------------------------
(* create() and open() *)

CreateDirectory ==
  /\ runDir = "absent"
  /\ runDir' = "bare"
  /\ UNCHANGED <<open, events, active, call, result, seen>>

\* The manifest is written atomically; without it no later process can open the run.
CreateManifest ==
  /\ runDir = "bare" /\ ~open
  /\ runDir' = "sealed" /\ open' = TRUE
  /\ UNCHANGED <<events, active, call, result, seen>>

Open ==
  /\ runDir = "sealed" /\ ~open
  /\ open' = TRUE
  /\ UNCHANGED <<runDir, events, active, call, result, seen>>

-----------------------------------------------------------------------------
(* record_transition() *)

\* The history is read first: a malformed one raises, and nothing is written.
RecordBegin(p, payload) ==
  /\ Free /\ Len(events) < MaxEvents
  /\ IF Readable
     THEN /\ call' = [at |-> "append", op |-> "record", seq |-> Len(events) + 1,
                      state |-> p, payload |-> payload, attempt |-> 1]
          /\ result' = NoResult
     ELSE Ended("record", "ValueError", 0, NoState) /\ UNCHANGED call
  /\ UNCHANGED <<runDir, open, events, active, seen>>

FormOf(payload) == IF payload = "separator" THEN "split" ELSE "whole"

\* Bytes are added to the end of the file: behind a last line that has no newline they
\* make one line with it.
Write(form) ==
  LET line == [state |-> call.state, form |-> form] IN
  events' = IF events # <<>> /\ Last.form = "unended"
            THEN [events EXCEPT ![Len(events)] = [line EXCEPT !.form = "glued"]]
            ELSE Append(events, line)

\* What of the line is in the file when the write is broken off, or its fsync fails.
PartForms(payload) == {"cut", FormOf(payload)} \union (IF payload = "plain" THEN {"unended"} ELSE {})

PartlyWritten == UNCHANGED events \/ \E form \in PartForms(call.payload) : Write(form)

RecordAppend ==
  /\ call.at = "append"
  /\ Write(FormOf(call.payload))
  /\ call' = [call EXCEPT !.at = "replace"]
  /\ UNCHANGED <<runDir, open, active, result, seen>>

\* Mutant: the exception of the append is swallowed and the projection written.
AppendFailsSilently ==
  /\ call.at = "append"
  /\ PartlyWritten
  /\ call' = [call EXCEPT !.at = "replace"]
  /\ UNCHANGED <<runDir, open, active, result, seen>>

\* Opening, writing, flushing or syncing raises: OSError, as it is.
AppendFails ==
  /\ call.at = "append"
  /\ PartlyWritten
  /\ Ended("record", "OSError", 0, call.state)
  /\ call' = NoCall
  /\ UNCHANGED <<runDir, open, active, seen>>

-----------------------------------------------------------------------------
(* _write_active_turn(), for a recording and for a recovery *)

Replace ==
  /\ call.at = "replace"
  /\ active' = [seq |-> call.seq, state |-> call.state]
  /\ Ended(call.op, "returned", call.seq, call.state)
  /\ call' = NoCall
  /\ UNCHANGED <<runDir, open, events, seen>>

\* Mutant: it tries again for as long as somebody holds the file; the attempt only sets
\* the delay.
ReplaceRetryForever ==
  /\ call.at = "replace"
  /\ call' = [call EXCEPT !.attempt = (@ % Attempts) + 1]
  /\ UNCHANGED <<runDir, open, events, active, result, seen>>

\* Somebody holds the file (Windows): wait, and try again, still under the lock.
ReplaceRetry ==
  /\ call.at = "replace" /\ call.attempt < Attempts
  /\ call' = [call EXCEPT !.attempt = @ + 1]
  /\ UNCHANGED <<runDir, open, events, active, result, seen>>

\* Mutant: the last attempt falls out of the loop without raising.
ReplaceGivesUpSilently ==
  /\ call.at = "replace"
  /\ Ended(call.op, "returned", call.seq, call.state)
  /\ call' = NoCall
  /\ UNCHANGED <<runDir, open, events, active, seen>>

\* The last attempt fails, or one fails for another reason. For a recording the error
\* says that the event was appended.
ReplaceFails ==
  /\ call.at = "replace"
  /\ Ended(call.op, "RunStoreWriteError", call.seq, call.state)
  /\ call' = NoCall
  /\ UNCHANGED <<runDir, open, events, active, seen>>

\* The temporary file cannot be written. _write_active_turn turns AtomicWriteError alone
\* into RunStoreWriteError, and this is another one.
TemporaryFails ==
  /\ call.at = "replace" /\ call.attempt = 1
  /\ Ended(call.op, "OSError", call.seq, call.state)
  /\ call' = NoCall
  /\ UNCHANGED <<runDir, open, events, active, seen>>

-----------------------------------------------------------------------------
(* recover_active_turn() and load_live_snapshot() *)

Rewrite(seq, state) ==
  /\ call' = [at |-> "replace", op |-> "recover", seq |-> seq, state |-> state,
              payload |-> "none", attempt |-> 1]
  /\ result' = NoResult

\* Mutant: the projection is rebuilt from the first event.
RecoverFromFirst ==
  /\ Free
  /\ IF Readable /\ events # <<>>
     THEN Rewrite(1, events[1].state)
     ELSE Ended("recover", "ValueError", 0, NoState) /\ UNCHANGED call
  /\ UNCHANGED <<runDir, open, events, active, seen>>

\* A missing projection, or one behind the history, is rewritten from the last event. No
\* or malformed history, a projection ahead of it, or one that disagrees is an error.
Recover ==
  /\ Free
  /\ IF Readable /\ events # <<>> /\ active.seq < Len(events)
     THEN Rewrite(Len(events), Last.state)
     ELSE /\ IF Readable /\ events # <<>> /\ active = [seq |-> Len(events), state |-> Last.state]
             THEN Ended("recover", "returned", active.seq, active.state)
             ELSE Ended("recover", "ValueError", 0, NoState)
          /\ UNCHANGED call
  /\ UNCHANGED <<runDir, open, events, active, seen>>

\* The UI reads the projection and the events under one hold of the lock; a malformed
\* history makes it show an error instead.
LiveSnapshot ==
  /\ Free /\ Readable
  /\ seen' = active.seq
  /\ UNCHANGED <<runDir, open, events, active, call, result>>

-----------------------------------------------------------------------------

\* The process dies; a line being written stays as far as it got.
Crash ==
  /\ open
  /\ IF call.at = "append" THEN PartlyWritten ELSE UNCHANGED events
  /\ open' = FALSE /\ call' = NoCall /\ result' = NoResult /\ seen' = 0
  /\ UNCHANGED <<runDir, active>>

CallStep == RecordAppend \/ AppendFails \/ Replace \/ ReplaceRetry \/ ReplaceFails \/ TemporaryFails

Next ==
  \/ CreateDirectory \/ CreateManifest \/ Open \/ Crash
  \/ \E p \in Projection, payload \in Payload : RecordBegin(p, payload)
  \/ Recover \/ LiveSnapshot
  \/ CallStep

Spec == Init /\ [][Next]_vars

\* A thread inside a call goes on with it. Whether a file operation succeeds is not up to
\* the program.
FairSpec == Spec /\ WF_vars(CallStep)

-----------------------------------------------------------------------------

TypeOK ==
  /\ runDir \in {"absent", "bare", "sealed"} /\ open \in BOOLEAN
  /\ events \in Seq(Line) /\ active \in Turn
  /\ call \in Call /\ call.attempt <= Attempts /\ result \in Result /\ seen \in Nat

\* As long as the history can be read, the projection on disk is that of one of its
\* events, whatever crashed or failed between the append and the replacement: recovery
\* finds it missing, behind or right, never ahead of the history nor at odds with it.
ProjectionFollowsHistory ==
  Readable /\ active # NoTurn =>
    active.seq \in DOMAIN events /\ active.state = events[active.seq].state

\* A recording that returned has made its event the last of the history and the projection
\* that of this event; one that raised RunStoreWriteError has appended the event and left
\* the older projection.
EndingIsTrue ==
  Readable /\ call = NoCall /\ result.seq > 0 /\ result.end # "OSError" =>
    /\ Last.state = result.state /\ result.seq = Len(events)
    /\ (result.end = "returned") <=> (active.seq = Len(events))

\* While the process lives, the UI never sees the run go back.
SnapshotsAdvance == [][open' => seen' >= seen]_vars

\* The lock is given back: a recording, with its retries, comes to an end.
CallsReturn == (call # NoCall) ~> (call = NoCall)

=============================================================================
