------------------------------ MODULE Workspace ------------------------------
(***************************************************************************)
(* The cache of bounded previews (preview_service.py), and the composition    *)
(* of all that happens in a findings workspace.                              *)
(*                                                                          *)
(* A preview is an image and a metadata file under one key, the hash of the   *)
(* source frame and the policy. The model has one key.                       *)
(***************************************************************************)
EXTENDS AgentBundle

CONSTANT Renders   \* the images the worker may make of one source, by its version

ASSUME RenderAssumption == Renders # {} /\ Renders \subseteq Nat \ {0}

VARIABLES
  image,     \* the derivative in the cache: its content, 0 if there is none
  metadata   \* the preview_sha256 of its metadata file, 0 if there is none

cacheVars == <<image, metadata>>
vars == <<calls, made, storeVars, bundleVars, cacheVars>>

Init == StoreInit /\ BundleInit /\ image = 0 /\ metadata = 0

\* prepare() looks for both files, and reads the metadata if they are there. Half a pair is
\* removed.
PreparePreview(p) ==
  /\ image # 0 /\ metadata # 0
  /\ Makes(p, [at |-> "verify", metadata |-> metadata, image |-> 0])
  /\ UNCHANGED <<storeVars, bundleVars, cacheVars>>
PrepareWithoutPair(p) ==
  /\ image = 0 \/ metadata = 0
  /\ Makes(p, [at |-> "render", metadata |-> 0, image |-> 0])
  /\ image' = 0 /\ metadata' = 0
  /\ UNCHANGED <<storeVars, bundleVars>>

\* Mutant: a pair of files is a hit.
VerifyPairTrusted(p) ==
  /\ calls[p].at = "verify" /\ image # 0
  /\ Goes(p, [calls[p] EXCEPT !.at = "returned", !.image = image])
  /\ UNCHANGED <<storeVars, bundleVars, cacheVars>>

\* _result hashes the image: it is the one of the metadata, or the pair is removed.
VerifyPair(p) ==
  /\ calls[p].at = "verify" /\ image = calls[p].metadata
  /\ Goes(p, [calls[p] EXCEPT !.at = "returned", !.image = image])
  /\ UNCHANGED <<storeVars, bundleVars, cacheVars>>
RejectPair(p) ==
  /\ calls[p].at = "verify" /\ image # calls[p].metadata
  /\ Goes(p, [calls[p] EXCEPT !.at = "render", !.metadata = 0])
  /\ image' = 0 /\ metadata' = 0
  /\ UNCHANGED <<storeVars, bundleVars>>

\* The worker renders into a temporary file, whose hash goes into the metadata.
RenderPreview(p) ==
  /\ calls[p].at = "render"
  /\ \E r \in Renders : Goes(p, [calls[p] EXCEPT !.at = "replace_image", !.metadata = r])
  /\ UNCHANGED <<storeVars, bundleVars, cacheVars>>

\* The image is replaced, then the metadata.
ReplaceImage(p) ==
  /\ calls[p].at = "replace_image"
  /\ image' = calls[p].metadata /\ GoesTo(p, "replace_metadata")
  /\ UNCHANGED <<storeVars, bundleVars, metadata>>
ReplaceMetadata(p) ==
  /\ calls[p].at = "replace_metadata"
  /\ metadata' = calls[p].metadata /\ GoesTo(p, "check")
  /\ UNCHANGED <<storeVars, bundleVars, image>>

\* _result once more: what is at the path now is what this call has rendered.
CheckPreview(p) ==
  /\ calls[p].at = "check" /\ image = calls[p].metadata
  /\ Goes(p, [calls[p] EXCEPT !.at = "returned", !.image = image])
  /\ UNCHANGED <<storeVars, bundleVars, cacheVars>>

\* The worker fails, times out or is cancelled, a replace is denied, the last check finds
\* another image, or the process dies: the temporary files go, an image that was replaced stays.
PreviewFails(p) ==
  /\ calls[p].at \in {"render", "replace_image", "replace_metadata", "check"}
  /\ Goes(p, Idle)
  /\ UNCHANGED <<storeVars, bundleVars, cacheVars>>

PreviewStep(p) ==
  \/ PreparePreview(p) \/ PrepareWithoutPair(p) \/ VerifyPair(p) \/ RejectPair(p) \/ RenderPreview(p)
  \/ ReplaceImage(p) \/ ReplaceMetadata(p) \/ CheckPreview(p) \/ PreviewFails(p)

Next ==
  \/ \E p \in Process : BundleStep(p) /\ UNCHANGED cacheVars
  \/ \E p \in Process : PreviewStep(p)
  \/ Outside /\ UNCHANGED cacheVars

Spec == Init /\ [][Next]_vars

\* A preview that is returned is the image its metadata describes, although other calls remove
\* and replace the two files one after the other (prepare and _result): the window never gets
\* the image of one render with the hash and the sizes of another.
PreviewIsVerified ==
  \A p \in Process : calls[p].at = "returned" => calls[p].image # 0 /\ calls[p].image = calls[p].metadata

=============================================================================
