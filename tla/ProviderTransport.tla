--------------------------- MODULE ProviderTransport ---------------------------
(***************************************************************************)
(* PacketV8ResponsesTransport of openai_transport.py: one turn of a model    *)
(* conversation, from the upload of its files to the captured response, and  *)
(* the provider files the transport owns on the way.                         *)
(*                                                                          *)
(* The transport runs in the thread of its caller. What changes under it is  *)
(* the answer of cancelled(), the provider, and the disk. The actions are    *)
(* the stretches of send_turn between two places where one of these is asked. *)
(***************************************************************************)
EXTENDS Integers, Sequences, FiniteSets

CONSTANTS
  Estimate,   \* what a call may cost at most, by its exact token count
  Charge,     \* what the provider charges for a response
  MaxFaults   \* bound: writes to the run store that fail

ASSUME TransportAssumption ==
  /\ Estimate \subseteq Nat /\ Estimate # {} /\ Charge \subseteq Nat /\ Charge # {}
  /\ MaxFaults \in Nat

VARIABLES
  cancelled,   \* what the callback cancelled() answers
  faults,      \* writes to the run store that failed so far
  turn,        \* the call of send_turn
  owned,       \* _owned_provider_file_ids, each file named by its _provider_file_by_identity
  remote,      \* the files the provider has acknowledged and not deleted
  recorded,    \* owned-provider-files.json
  dispatches   \* the requests create_response has sent, with their end at the provider

fileVars == <<owned, remote, recorded>>
transportVars == <<cancelled, faults, turn, fileVars, dispatches>>

Idle == [at |-> "idle", number |-> 0, request |-> <<>>, files |-> <<>>, uploaded |-> {},
         estimate |-> 0, charge |-> 0, exc |-> "none"]

TransportInit ==
  /\ cancelled = FALSE /\ faults = 0 /\ turn = Idle
  /\ owned = {} /\ remote = {} /\ recorded = {} /\ dispatches = <<>>

\* RunStoreWriteError or OSError out of a write to the run store.
WriteFails == faults < MaxFaults /\ faults' = faults + 1

\* The turn leaves send_turn with an exception, or first deletes what it uploaded.
Raises(exc)     == turn' = [turn EXCEPT !.at = "raised", !.exc = exc]
CleansUp(exc)   == turn' = [turn EXCEPT !.at = "cleanup", !.exc = exc]

\* The checks before the try: cancelled(), and the bytes of every resource against its hash.
SendTurn(number, request, files) ==
  LET new == [Idle EXCEPT !.number = number, !.request = request, !.files = files]
  IN  \/ cancelled /\ turn' = [new EXCEPT !.at = "raised", !.exc = "cancelled"]
      \/ ~cancelled /\ turn' = [new EXCEPT !.at = "upload"]
      \/ ~cancelled /\ turn' = [new EXCEPT !.at = "raised", !.exc = "value"]

-----------------------------------------------------------------------------
(* Before the dispatch *)

CancelledBeforeDispatch ==
  /\ turn.at \in {"upload", "dispatch"} /\ cancelled
  /\ CleansUp("cancelled")
  /\ UNCHANGED <<cancelled, faults, fileVars, dispatches>>

\* A resource the session already owns at the provider is used again.
ReuseFile ==
  /\ turn.at = "upload" /\ ~cancelled /\ turn.files # <<>> /\ Head(turn.files) \in owned
  /\ turn' = [turn EXCEPT !.files = Tail(@)]
  /\ UNCHANGED <<cancelled, faults, fileVars, dispatches>>

\* Mutant: the ownership is recorded before the file that was uploaded belongs to it.
UploadFileRecordsFirst ==
  /\ turn.at = "upload" /\ ~cancelled /\ turn.files # <<>>
  /\ LET file == Head(turn.files)
     IN  /\ file \notin owned
         /\ owned' = owned \union {file} /\ remote' = remote \union {file}
         /\ recorded' = owned /\ faults' = faults
         /\ turn' = [turn EXCEPT !.files = Tail(@), !.uploaded = @ \union {file}]
  /\ UNCHANGED <<cancelled, dispatches>>

\* A failed write of the ownership is an unknown failure of an undispatched turn.
UploadFile ==
  /\ turn.at = "upload" /\ ~cancelled /\ turn.files # <<>>
  /\ LET file == Head(turn.files)
         sent == [turn EXCEPT !.files = Tail(@), !.uploaded = @ \union {file}]
     IN  /\ file \notin owned
         /\ owned' = owned \union {file} /\ remote' = remote \union {file}
         /\ \/ recorded' = owned' /\ faults' = faults /\ turn' = sent
            \/ /\ WriteFails /\ recorded' = recorded
               /\ turn' = [sent EXCEPT !.at = "cleanup", !.exc = "definite"]
  /\ UNCHANGED <<cancelled, dispatches>>

UploadFails ==
  /\ turn.at = "upload" /\ ~cancelled /\ turn.files # <<>> /\ Head(turn.files) \notin owned
  /\ CleansUp("definite")
  /\ UNCHANGED <<cancelled, faults, fileVars, dispatches>>

\* The request is written, counted by the provider, and the count is written.
CountInput ==
  /\ turn.at = "upload" /\ ~cancelled /\ turn.files = <<>>
  /\ \/ \E e \in Estimate : turn' = [turn EXCEPT !.at = "authorize", !.estimate = e] /\ faults' = faults
     \/ CleansUp("definite") /\ (faults' = faults \/ WriteFails)
  /\ UNCHANGED <<cancelled, fileVars, dispatches>>

\* authorize_dispatch of the caller has returned, or raised.
Authorized == turn' = [turn EXCEPT !.at = "dispatch"]
Refused    == CleansUp("rejected")

-----------------------------------------------------------------------------
(* From the dispatch on *)

Dispatch ==
  /\ turn.at = "dispatch" /\ ~cancelled
  /\ turn' = [turn EXCEPT !.at = "respond"]
  /\ dispatches' = Append(dispatches,
       [number |-> turn.number, request |-> turn.request, estimate |-> turn.estimate,
        charge |-> 0, outcome |-> "sent"])
  /\ UNCHANGED <<cancelled, faults, fileVars>>

\* What became of the last request at the provider.
Settled(charge, outcome) ==
  dispatches' = [dispatches EXCEPT ![Len(dispatches)].charge = charge,
                                   ![Len(dispatches)].outcome = outcome]

Completed ==
  /\ turn.at = "respond"
  /\ \E c \in Charge :
       turn' = [turn EXCEPT !.at = "capture", !.charge = c] /\ Settled(c, "answered")
  /\ UNCHANGED <<cancelled, faults, fileVars>>

\* AUTHENTICATION, PERMISSION, RATE_LIMIT, CONTENT_POLICY and INVALID_REQUEST are definite.
RequestRefused ==
  /\ turn.at = "respond"
  /\ CleansUp("definite") /\ Settled(0, "refused")
  /\ UNCHANGED <<cancelled, faults, fileVars>>

\* TIMEOUT, CONNECTION, SERVER and UNKNOWN: the response may have been generated. Nothing
\* is deleted: the recovery needs the files.
AnswerLost ==
  /\ turn.at = "respond"
  /\ Raises("ambiguous") /\ \E c \in Charge \union {0} : Settled(c, "lost")
  /\ UNCHANGED <<cancelled, faults, fileVars>>

\* The response is incomplete, or is no answer. When incomplete-response.json cannot be
\* written the failure is unknown, and the request is sent: ambiguous.
AnswerUnusable ==
  /\ turn.at = "respond"
  /\ \E c \in Charge : Settled(c, "unusable")
  /\ \/ CleansUp("definite") /\ faults' = faults
     \/ WriteFails /\ Raises("ambiguous")
  /\ UNCHANGED <<cancelled, fileVars>>

\* response.json is written and cancelled() is asked a last time.
Capture ==
  /\ turn.at = "capture"
  /\ \/ WriteFails /\ Raises("ambiguous") /\ recorded' = recorded
     \/ /\ ~cancelled /\ faults' = faults
        /\ turn' = [turn EXCEPT !.at = "returned"] /\ recorded' = recorded
     \/ cancelled /\ faults' = faults /\ Raises("ambiguous") /\ recorded' = owned
     \/ cancelled /\ WriteFails /\ Raises("store") /\ recorded' = recorded
  /\ UNCHANGED <<cancelled, owned, remote, dispatches>>

-----------------------------------------------------------------------------
(* The files *)

\* _cleanup_file_ids: a deletion that fails leaves the file owned.
Deleted(files, kept) ==
  owned' = owned \ (files \ kept) /\ remote' = remote \ (files \ kept)

\* The files the turn uploaded are deleted and the ownership is recorded again.
TurnCleanup ==
  /\ turn.at = "cleanup"
  /\ \E kept \in SUBSET turn.uploaded :
       /\ Deleted(turn.uploaded, kept)
       /\ \/ /\ recorded' = owned' /\ faults' = faults
             /\ IF kept # {} /\ turn.exc \in {"cancelled", "rejected"}
                THEN Raises("definite") ELSE Raises(turn.exc)
          \/ WriteFails /\ Raises("store") /\ recorded' = recorded
  /\ UNCHANGED <<cancelled, dispatches>>

\* Every file that is left; the files "kept" could not be deleted.
CloseOwnedFiles(kept) == Deleted(owned, kept) /\ recorded' = recorded

Cancel ==
  /\ ~cancelled /\ cancelled' = TRUE
  /\ UNCHANGED <<faults, turn, fileVars, dispatches>>

\* Every step of send_turn but the callback authorize_dispatch.
TransportStep ==
  \/ CancelledBeforeDispatch \/ ReuseFile \/ UploadFile \/ UploadFails \/ CountInput
  \/ Dispatch \/ Completed \/ RequestRefused \/ AnswerLost \/ AnswerUnusable \/ Capture
  \/ TurnCleanup

=============================================================================
