----------------------------- MODULE AgentBundle -----------------------------
(***************************************************************************)
(* What is built of a finding: packets (build_agent_bundle of                *)
(* agent_bundle.py) and analyses of a packet (FindingEnrichmentService and   *)
(* the active-model runtime client). Both read files and run the published   *)
(* runtime for a while, during which the runtime may be published anew, the  *)
(* operator may edit the field notes and another process may import.         *)
(***************************************************************************)
EXTENDS FindingStore

CONSTANT MaxEdits   \* bound: publications of the runtime and edits of notes

ASSUME BundleAssumption == MaxEdits \in Nat

VARIABLES
  runtime,   \* the published runtime: the version of the executable and of its schema files
  edits,     \* publications and edits so far
  packets,   \* the packet directories
  analyses   \* the analysis directories

bundleVars == <<runtime, edits, packets, analyses>>

BundleInit ==
  /\ runtime = [exe |-> 1, schema |-> 1] /\ edits = 0
  /\ packets = {} /\ analyses = {}

\* The runtime is published file by file; every version is new.
PublishRuntime(part) ==
  /\ edits < MaxEdits /\ edits' = edits + 1
  /\ runtime' = [runtime EXCEPT ![part] = @ + 1]
  /\ UNCHANGED <<calls, made, storeVars, packets, analyses>>

\* The operator writes field-notes.md of a finding.
EditNotes(f) ==
  /\ edits < MaxEdits /\ edits' = edits + 1
  /\ Imported(f)
  /\ source' = [source EXCEPT ![f] =
                  [a \in DOMAIN @ \union {"notes"} |-> IF a = "notes" THEN 100 + edits ELSE @[a]]]
  /\ UNCHANGED <<calls, made, lock, workspace, indexed, promotion, runtime, packets, analyses>>

-----------------------------------------------------------------------------
(* build_agent_bundle *)

\* The files a packet is made of: what workspace.json lists, and field notes that are there.
Sources(f) == workspace[f].lists \union (DOMAIN source[f] \intersect {"notes"})
InOrder(names) == SelectSeq(ArtifactOrder, LAMBDA a : a \in names)

\* workspace.json is read once, the runtime is identified, and a stage directory made.
BuildBundle(p) ==
  /\ \E f \in Finding :
       /\ Imported(f) /\ Sources(f) \subseteq DOMAIN source[f]
       /\ Makes(p, [at |-> "identify", finding |-> f, names |-> Sources(f), todo |-> InOrder(Sources(f)),
                    identity |-> <<>>, exports |-> 0, facts |-> 0, schema |-> 0, files |-> <<>>,
                    moment |-> <<>>])
  /\ UNCHANGED <<storeVars, bundleVars>>

Reads(p, call) == Goes(p, call) /\ UNCHANGED <<storeVars, bundleVars>>
Passes(p, from, to, ok) == calls[p].at = from /\ ok /\ Reads(p, [calls[p] EXCEPT !.at = to])
Disk(p) == source[calls[p].finding]

IdentifyRuntime(p) ==
  /\ calls[p].at = "identify"
  /\ Reads(p, [calls[p] EXCEPT !.at = "export", !.identity = runtime])

\* The parameter surface and the catalog are exported by the executable.
CaptureExports(p) ==
  /\ calls[p].at = "export"
  /\ Reads(p, [calls[p] EXCEPT !.at = "stage", !.exports = runtime.exe])

\* A file is copied as it is read. Half a state.json is no JSON, half a field-notes.md goes
\* unnoticed.
StageSource(p) ==
  /\ calls[p].at = "stage" /\ calls[p].todo # <<>>
  /\ LET a == Next1(p)
     IN  /\ a # "notes" => Disk(p)[a] # Torn
         /\ Reads(p, [calls[p] EXCEPT !.todo = Tail(@),
                        !.files = [n \in DOMAIN @ \union {a} |-> IF n = a THEN Disk(p)[a] ELSE @[n]]])

\* The deployed schema and contract are copied.
StageSchema(p) ==
  /\ calls[p].at = "stage" /\ calls[p].todo = <<>>
  /\ Reads(p, [calls[p] EXCEPT !.at = "facts", !.schema = runtime.schema])

\* The executable describes the viewport of the copied state: facts that came with the finding
\* have to be the same. The views, packet.md and manifest.json are made of what is staged now;
\* the moment is what the disk holds, with nothing left to read.
World(p) == [exe |-> runtime.exe, schema |-> runtime.schema, files |-> Disk(p)]
CaptureFacts(p) ==
  /\ calls[p].at = "facts"
  /\ "facts" \in calls[p].names => calls[p].files["facts"] = runtime.exe
  /\ Reads(p, [calls[p] EXCEPT !.at = "again", !.facts = runtime.exe, !.moment = World(p)])

\* Everything that was read is read again: the exports, the identity, the schema files and at
\* last the sources. A difference ends the build.
ExportsAgain(p) ==
  Passes(p, "again", "identity", runtime.exe = calls[p].exports /\ runtime.exe = calls[p].facts)
IdentityAgain(p) == Passes(p, "identity", "schema", runtime = calls[p].identity)
SchemaAgain(p) ==
  /\ calls[p].at = "schema" /\ runtime.schema = calls[p].schema
  /\ Reads(p, [calls[p] EXCEPT !.at = "sources", !.todo = InOrder(calls[p].names)])

\* Mutant: the sources of the finding are not looked at again.
SourceAgainTrusted(p) ==
  /\ calls[p].at = "sources" /\ calls[p].todo # <<>>
  /\ Reads(p, [calls[p] EXCEPT !.todo = Tail(@)])

SourceAgain(p) ==
  /\ calls[p].at = "sources" /\ calls[p].todo # <<>>
  /\ Disk(p)[Next1(p)] = calls[p].files[Next1(p)]
  /\ Reads(p, [calls[p] EXCEPT !.todo = Tail(@)])

\* The stage becomes the packet directory in one rename.
PublishBundle(p) ==
  /\ calls[p].at = "sources" /\ calls[p].todo = <<>>
  /\ packets' = packets \union
       {[finding |-> calls[p].finding, exe |-> calls[p].exports, facts |-> calls[p].facts,
         schema |-> calls[p].schema, files |-> calls[p].files, moment |-> calls[p].moment]}
  /\ Goes(p, Idle)
  /\ UNCHANGED <<storeVars, runtime, edits, analyses>>

-----------------------------------------------------------------------------
(* FindingEnrichmentService.analyze *)

\* A packet is loaded, which has not changed since its publication, and the executable hashed.
\* Under the strict mode it has to be the one of the packet.
Analyze(p, strict) ==
  /\ \E k \in packets :
       /\ strict => runtime.exe = k.exe
       /\ Makes(p, [at |-> "describe", packet |-> k, exe |-> runtime.exe, ran |-> {}])
  /\ UNCHANGED <<storeVars, bundleVars>>

Runs(p, from, to) ==
  /\ calls[p].at = from
  /\ Reads(p, [calls[p] EXCEPT !.at = to, !.ran = @ \union {runtime.exe}])
Name(p) == [packet |-> calls[p].packet, exe |-> calls[p].exe]
Analyzed(p) == \E a \in analyses : [packet |-> a.packet, exe |-> a.exe] = Name(p)

\* The executable describes the model of the state, and is hashed again.
DescribeModel(p) == Runs(p, "describe", "described")
KeepReceipt(p) == Passes(p, "described", "sample", runtime.exe = calls[p].exe /\ ~Analyzed(p))

\* An analysis of this packet by this executable is validated and returned.
FindAnalysis(p) ==
  /\ \/ calls[p].at = "described" /\ runtime.exe = calls[p].exe
     \/ calls[p].at = "save"
  /\ Analyzed(p)
  /\ Reads(p, Idle)

\* A registered provider has the executable sample its model; without one the analysis says so.
SampleModel(p) == Runs(p, "sample", "sampled")
WithoutProvider(p) == Passes(p, "sample", "save", TRUE)
KeepSamples(p) == Passes(p, "sampled", "save", runtime.exe = calls[p].exe)
StageAnalysis(p) == Passes(p, "save", "replace", ~Analyzed(p))

\* os.replace moves the stage to the name of the analysis. A directory with files in it is not
\* replaced: the call that comes second fails, with an OSError that is no FileExistsError, and
\* the validation that is meant for this case is not reached.
PublishAnalysis(p) ==
  /\ calls[p].at = "replace" /\ ~Analyzed(p)
  /\ analyses' = analyses \union {[packet |-> calls[p].packet, exe |-> calls[p].exe, ran |-> calls[p].ran]}
  /\ Goes(p, Idle)
  /\ UNCHANGED <<storeVars, runtime, edits, packets>>

\* A process fails, times out or is cancelled, or a check does not hold: the stage is removed.
WorkFails(p) ==
  /\ calls[p].at \in {"identify", "export", "stage", "facts", "again", "identity", "schema", "sources",
                      "describe", "described", "sample", "sampled", "save", "replace"}
  /\ Reads(p, Idle)

BundleStep(p) ==
  \/ StoreStep(p) /\ UNCHANGED bundleVars
  \/ BuildBundle(p) \/ IdentifyRuntime(p) \/ CaptureExports(p) \/ StageSource(p) \/ StageSchema(p)
  \/ CaptureFacts(p) \/ ExportsAgain(p) \/ IdentityAgain(p) \/ SchemaAgain(p)
  \/ SourceAgain(p) \/ PublishBundle(p) \/ WorkFails(p)
  \/ \E strict \in BOOLEAN : Analyze(p, strict)
  \/ DescribeModel(p) \/ KeepReceipt(p) \/ FindAnalysis(p) \/ SampleModel(p) \/ WithoutProvider(p)
  \/ KeepSamples(p) \/ StageAnalysis(p) \/ PublishAnalysis(p)

\* The world around the processes.
Outside ==
  \/ \E part \in {"exe", "schema"} : PublishRuntime(part)
  \/ \E f \in Finding : EditNotes(f)

-----------------------------------------------------------------------------

\* There was one moment at which the disk held everything a packet carries, its exports, schema,
\* facts and sources, although they are read one after the other; and all runs an analysis is
\* made of were runs of the one executable in its name ("one coherent immutable authority
\* snapshot" of user_workflow_app.py).
PublishedIsOfOneMoment ==
  /\ \A k \in packets :
       /\ k.exe = k.moment.exe /\ k.facts = k.moment.exe /\ k.schema = k.moment.schema
       /\ \A a \in DOMAIN k.files : k.files[a] = k.moment.files[a]
  /\ \A a \in analyses : a.ran = {a.exe}

=============================================================================
