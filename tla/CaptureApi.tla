----------------------------- MODULE CaptureApi -----------------------------
(***************************************************************************)
(* The capture API as a phone sees it (showings service): the one visit of *)
(* a local showing, its media rows and objects, its voice tags, and how    *)
(* far it was processed.  Each request is one transaction.                 *)
(***************************************************************************)
EXTENDS Naturals, FiniteSets

CONSTANTS
  Media,      \* captures of the showing: audio segments, photos, videos
  Audio,      \* those that are audio
  Large,      \* those that may exceed what the server accepts
  Tags        \* voice tags

ASSUME CaptureAssumption == Audio \subseteq Media /\ Large \subseteq Media

VARIABLES
  oversized,  \* those that do: the server never accepts them
  visit,      \* "none", or visits.status
  received,   \* raw_media.status of each medium, "none" without a row
  stored,     \* media whose object is in the bucket
  marked,     \* tags with a row in visit_markers
  processing  \* visits.processing_status

apiVars == <<oversized, visit, received, stored, marked, processing>>

Running == {"queued", "running"}
Processing == Running \cup {"not_started", "ready", "failed"}

ApiTypeOK ==
  /\ oversized \subseteq Large
  /\ visit \in {"none", "draft", "confirmed"}
  /\ received \in [Media -> {"none", "pending", "uploaded"}]
  /\ stored \subseteq Media
  /\ marked \subseteq Tags
  /\ processing \in Processing

ApiInit ==
  /\ oversized \in SUBSET Large
  /\ visit = "none"
  /\ received = [m \in Media |-> "none"]
  /\ stored = {}
  /\ marked = {}
  /\ processing = "not_started"

\* create_showing: the capture id leads a repeated request to the same visit.
CreateShowing ==
  /\ visit' = IF visit = "none" THEN "draft" ELSE visit
  /\ UNCHANGED <<oversized, received, stored, marked, processing>>

\* presign_media: the client id leads to the same row and object.
PresignAccepts(m) == visit = "draft" /\ received[m] # "uploaded"
PresignMedia(m) ==
  /\ PresignAccepts(m)
  /\ received' = [received EXCEPT ![m] = "pending"]
  /\ UNCHANGED <<oversized, visit, stored, marked, processing>>

PutObject(m) ==
  /\ stored' = stored \cup {m}
  /\ UNCHANGED <<oversized, visit, received, marked, processing>>

\* complete_media: the object must be there, and of an acceptable size.
CompleteAccepts(m) ==
  visit = "draft" /\ received[m] # "none" /\ m \in stored /\ m \notin oversized
CompleteMedia(m) ==
  /\ CompleteAccepts(m)
  /\ received' = [received EXCEPT ![m] = "uploaded"]
  /\ UNCHANGED <<oversized, visit, stored, marked, processing>>

CreateMarker(t) ==
  /\ visit = "draft"
  /\ marked' = marked \cup {t}
  /\ UNCHANGED <<oversized, visit, received, stored, processing>>

FinishAccepts == visit = "draft" /\ \E a \in Audio : received[a] = "uploaded"
FinishShowing ==
  /\ FinishAccepts
  /\ processing' = "queued"
  /\ UNCHANGED <<oversized, visit, received, stored, marked>>

\* The pipeline, whose chains can overlap once finish is repeated, and the agent
\* who reprocesses a failed showing, behind the phone's back: PhoneSeesProcessing
\* in Pipeline.
Process ==
  /\ processing # "not_started"
  /\ \/ processing' \in {"running", "ready", "failed"}
     \/ processing = "failed" /\ visit = "draft" /\ processing' = "queued"
  /\ UNCHANGED <<oversized, visit, received, stored, marked>>

\* The agent confirms a report, whatever became of the processing since.
ConfirmShowing ==
  /\ visit = "draft" /\ processing # "not_started"
  /\ visit' = "confirmed"
  /\ UNCHANGED <<oversized, received, stored, marked, processing>>

=============================================================================
