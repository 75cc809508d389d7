----------------------------- MODULE FindingStore -----------------------------
(***************************************************************************)
(* The findings workspace of finding_workspace.py: captures imported into    *)
(* findings by several processes (the window, its automated jobs and the     *)
(* import command), which only share the lock file and what else is on disk; *)
(* and derived_finding.py, which publishes a proven candidate through it.    *)
(*                                                                          *)
(* A process is in one call at a time: calls[p] is the call with its locals. *)
(* The modules that extend this one give the processes other calls.          *)
(***************************************************************************)
EXTENDS Integers, Sequences, FiniteSets

CONSTANTS
  Process,
  Captures,       \* what can be imported: captures with [name, finding, files]
  Derived,        \* the capture that a promotion writes and imports
  HeldFilesStay,  \* a file that a process has open is not unlinked, as on Windows
  MaxCalls,       \* bound: calls ever made
  MaxCrashes      \* bound: processes that die in a call

\* Contents are numbers; Torn is what a copy has written before it is done.
Torn == 0
ArtifactOrder == <<"state", "facts", "notes">>
Artifact == {ArtifactOrder[i] : i \in DOMAIN ArtifactOrder}

\* The name of a finding is the hash of its state, manifest and frame, so two captures of one
\* finding can only differ in the optional artifacts.
ASSUME StoreAssumption ==
  /\ MaxCalls \in Nat /\ MaxCrashes \in Nat /\ HeldFilesStay \in BOOLEAN
  /\ \A c \in Captures \union {Derived} :
       /\ "state" \in DOMAIN c.files /\ DOMAIN c.files \subseteq Artifact
       /\ \A a \in DOMAIN c.files : c.files[a] \in Nat \ {Torn}
  /\ \A c, d \in Captures \union {Derived} :
       c.finding = d.finding <=> c.files["state"] = d.files["state"]

VARIABLES
  calls,      \* what each process does
  made,       \* calls made so far, and processes that died in one
  lock,       \* .workspace-import.lock: absent, the process that has it open, or left behind
  source,     \* the source directory of each finding
  workspace,  \* the workspace.json of each finding
  indexed,    \* the findings that findings_index.json lists
  promotion   \* the promotion directory: absent, with its capture, with its receipt

storeVars == <<lock, source, workspace, indexed, promotion>>

Finding == {c.finding : c \in Captures \union {Derived}}
NoFile == [lists |-> {}, aliases |-> {}]
Imported(f) == workspace[f] # NoFile
Idle == [at |-> "idle"]
Quiet(p) == calls[p].at \in {"idle", "returned"}

\* An import leaves workspace.json and the index behind it; some captures may have been
\* imported before.
Brought(c) == [lists |-> DOMAIN c.files, aliases |-> {c.name}]
StoreInit ==
  /\ calls = [p \in Process |-> Idle] /\ made = [calls |-> 0, crashes |-> 0]
  /\ lock = "absent" /\ promotion = "absent"
  /\ \E before \in {{}} \union {{c} : c \in Captures} :
       /\ source = [f \in Finding |->
            IF \E c \in before : c.finding = f THEN (CHOOSE c \in before : TRUE).files ELSE <<>>]
       /\ workspace = [f \in Finding |->
            IF \E c \in before : c.finding = f THEN Brought(CHOOSE c \in before : TRUE) ELSE NoFile]
       /\ indexed = {c.finding : c \in before}

\* p makes a call, goes on in it, or is done with it.
Makes(p, call) ==
  /\ Quiet(p) /\ made.calls < MaxCalls
  /\ made' = [made EXCEPT !.calls = @ + 1]
  /\ calls' = [calls EXCEPT ![p] = call]
Goes(p, call) == calls' = [calls EXCEPT ![p] = call] /\ UNCHANGED made
\* The rest of a call that holds or wants the lock needs none of the locals of its work.
Leaves(p, place, result) == Goes(p, [at |-> place, work |-> calls[p].work, result |-> result])
GoesTo(p, place) == Goes(p, [calls[p] EXCEPT !.at = place])

-----------------------------------------------------------------------------
(* The calls that take the lock *)

Files(c) == SelectSeq(ArtifactOrder, LAMBDA a : a \in DOMAIN c.files)

\* import_capture: the capture is resolved and hashed before the lock.
ImportCapture(p) ==
  /\ \E c \in Captures :
       Makes(p, [at |-> "lock", work |-> "import", capture |-> c, todo |-> Files(c)])
  /\ UNCHANGED storeVars

RebuildIndex(p) ==
  /\ Makes(p, [at |-> "lock", work |-> "rebuild"])
  /\ UNCHANGED storeVars

\* promote_replay_proven_candidate: the proof is as it was (or the call raises and nothing has
\* happened), the promotion directory is new, and the capture in it is written and imported.
Promote(p) ==
  /\ promotion = "absent" /\ promotion' = "capture"
  /\ Makes(p, [at |-> "lock", work |-> "promote", capture |-> Derived, todo |-> Files(Derived)])
  /\ UNCHANGED <<lock, source, workspace, indexed>>

\* _workspace_lock: O_EXCL creates the lock file or finds it there, whoever left it.
TakeLock(p) ==
  /\ calls[p].at = "lock" /\ lock = "absent"
  /\ lock' = p
  /\ IF calls[p].work = "rebuild" THEN Leaves(p, "index", "raised") ELSE GoesTo(p, "copy")
  /\ UNCHANGED <<source, workspace, indexed, promotion>>
LockIsHeld(p) ==
  /\ calls[p].at = "lock" /\ lock # "absent"
  /\ Leaves(p, "unlock", "raised")
  /\ UNCHANGED storeVars

\* _copy_if_changed: an artifact that is there with the same content stays, with another one it
\* is not overwritten; shutil.copy2 opens the new file empty and fills it.
Here(p) == source[calls[p].capture.finding]
Next1(p) == Head(calls[p].todo)
Content(p) == calls[p].capture.files[Next1(p)]
Copying(p) == calls[p].at = "copy" /\ calls[p].todo # <<>>
Writes(p, content) ==
  source' = [source EXCEPT ![calls[p].capture.finding] =
               [a \in DOMAIN @ \union {Next1(p)} |-> IF a = Next1(p) THEN content ELSE @[a]]]

KeepArtifact(p) ==
  /\ Copying(p) /\ Next1(p) \in DOMAIN Here(p) /\ Here(p)[Next1(p)] = Content(p)
  /\ Goes(p, [calls[p] EXCEPT !.todo = Tail(@)])
  /\ UNCHANGED storeVars
RefuseArtifact(p) ==
  /\ Copying(p) /\ Next1(p) \in DOMAIN Here(p) /\ Here(p)[Next1(p)] # Content(p)
  /\ Leaves(p, "close", "raised")
  /\ UNCHANGED storeVars
MissArtifact(p) ==
  /\ Copying(p) /\ Next1(p) \notin DOMAIN Here(p)
  /\ GoesTo(p, "open")
  /\ UNCHANGED storeVars
OpenArtifact(p) ==
  /\ calls[p].at = "open"
  /\ Writes(p, Torn) /\ GoesTo(p, "fill")
  /\ UNCHANGED <<lock, workspace, indexed, promotion>>
FillArtifact(p) ==
  /\ calls[p].at = "fill"
  /\ Writes(p, Content(p)) /\ Goes(p, [calls[p] EXCEPT !.at = "copy", !.todo = Tail(@)])
  /\ UNCHANGED <<lock, workspace, indexed, promotion>>

\* workspace.json names what this capture brought, and every source the finding ever had.
WriteWorkspace(p) ==
  /\ calls[p].at = "copy" /\ calls[p].todo = <<>>
  /\ LET c == calls[p].capture
     IN  workspace' = [workspace EXCEPT ![c.finding] =
                         [Brought(c) EXCEPT !.aliases = @ \union workspace[c.finding].aliases]]
  /\ Leaves(p, "index", "raised")
  /\ UNCHANGED <<lock, source, indexed, promotion>>

\* The index is built from a scan. An import does not mind if that fails, a rebuild does.
WriteIndex(p) ==
  /\ calls[p].at = "index"
  /\ indexed' = {f \in Finding : Imported(f)}
  /\ Leaves(p, "close", "done")
  /\ UNCHANGED <<lock, source, workspace, promotion>>
MissIndex(p) ==
  /\ calls[p].at = "index"
  /\ Leaves(p, "close", IF calls[p].work = "rebuild" THEN "raised" ELSE "done")
  /\ UNCHANGED storeVars

\* A file operation under the lock fails.
FailInside(p) ==
  /\ calls[p].at \in {"copy", "open", "fill"}
  /\ Leaves(p, "close", "raised")
  /\ UNCHANGED storeVars

\* The finally clause: the holder closes its file, and whoever comes here, also the caller that
\* found the lock held, unlinks the lock file.
CloseLock(p) ==
  /\ calls[p].at = "close"
  /\ lock' = IF lock = p THEN "left" ELSE lock
  /\ GoesTo(p, "unlock")
  /\ UNCHANGED <<source, workspace, indexed, promotion>>
Ends(p) ==
  IF calls[p].work = "promote" /\ calls[p].result = "done" THEN GoesTo(p, "receipt") ELSE Goes(p, Idle)
\* Mutant: the lock file goes, whoever holds it.
UnlinkHeldFile(p) ==
  /\ calls[p].at = "unlock"
  /\ lock' = "absent" /\ Ends(p)
  /\ UNCHANGED <<source, workspace, indexed, promotion>>

Unlink(p) ==
  /\ calls[p].at = "unlock" /\ (lock \in Process => ~HeldFilesStay)
  /\ lock' = "absent" /\ Ends(p)
  /\ UNCHANGED <<source, workspace, indexed, promotion>>
\* On Windows the unlink of a file another process has open raises, after a finished import too.
UnlinkDenied(p) ==
  /\ calls[p].at = "unlock" /\ lock \in Process /\ HeldFilesStay
  /\ Goes(p, Idle)
  /\ UNCHANGED storeVars

\* The receipt of a promotion is written last.
WriteReceipt(p) ==
  /\ calls[p].at = "receipt"
  /\ promotion' = "receipt" /\ Goes(p, Idle)
  /\ UNCHANGED <<lock, source, workspace, indexed>>

\* A process dies: its files stay as they are, and its lock file is open no more. (Elsewhere a
\* death leaves no more on the disk than a failure does.)
Die(p) ==
  /\ calls[p].at \in {"lock", "copy", "open", "fill", "index", "close", "unlock", "receipt"}
  /\ made.crashes < MaxCrashes
  /\ made' = [made EXCEPT !.crashes = @ + 1]
  /\ calls' = [calls EXCEPT ![p] = Idle]
  /\ lock' = IF lock = p THEN "left" ELSE lock
  /\ UNCHANGED <<source, workspace, indexed, promotion>>

StoreStep(p) ==
  \/ ImportCapture(p) \/ RebuildIndex(p) \/ Promote(p) \/ TakeLock(p) \/ LockIsHeld(p)
  \/ KeepArtifact(p) \/ RefuseArtifact(p) \/ MissArtifact(p) \/ OpenArtifact(p) \/ FillArtifact(p)
  \/ WriteWorkspace(p) \/ WriteIndex(p) \/ MissIndex(p) \/ FailInside(p)
  \/ CloseLock(p) \/ Unlink(p) \/ UnlinkDenied(p) \/ WriteReceipt(p) \/ Die(p)

-----------------------------------------------------------------------------

\* A finding that has its workspace.json, which every reader starts from, has whole files of
\* all it names there; the index names such findings only, and a promotion with a receipt has
\* its finding: although importers compete for a lock that a refused caller tries to unlink,
\* and die with a file half copied (_workspace_lock, import_capture).
FindingIsWhole ==
  /\ \A f \in Finding : \A a \in workspace[f].lists : a \in DOMAIN source[f] /\ source[f][a] # Torn
  /\ \A f \in indexed : Imported(f)
  /\ promotion = "receipt" =>
       \A a \in DOMAIN Derived.files :
         a \in DOMAIN source[Derived.finding] /\ source[Derived.finding][a] = Derived.files[a]

=============================================================================
