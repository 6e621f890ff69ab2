-------------------------- MODULE ReportLifecycle --------------------------
(***************************************************************************)
(* The life of one showing's report before it is delivered: the showing's  *)
(* status, the reports the AI pipeline drafts for it, the observations     *)
(* behind them and the professional's review (backend review service, and  *)
(* the two pipeline steps that write what the review reads).               *)
(*                                                                         *)
(* Every review handler that touches a report runs in one transaction that *)
(* locks the visit row first and the report row second, so it is a single  *)
(* action here.  The pipeline takes no such lock: each of its steps checks  *)
(* that the showing is a draft when it starts and writes after a model     *)
(* call that can take minutes, so a step is two actions.  The chains here  *)
(* do all that those of Pipeline can, and more; Showing puts the two       *)
(* together.                                                               *)
(***************************************************************************)
EXTENDS Naturals, Sequences, FiniteSets

CONSTANTS
  Contents,      \* the report documents that can be drafted or typed
  Drafts,        \* those that processing may draft
  NoContent,     \* "no document": an absent report, a report not rendered
  Obs,           \* observations that may exist on the showing
  SensitiveObs,  \* those the extraction step flags as sensitive
  Chains,        \* processing chains that can be under way at once
  Refinish,      \* TRUE: finish_showing may come again (a retry of the app)
  MaxReports,    \* bound: reports of the showing at a time
  MaxRevisions   \* bound: edits of one report

ASSUME LifecycleAssumption ==
  /\ NoContent \notin Contents
  /\ Drafts \subseteq Contents
  /\ SensitiveObs \subseteq Obs
  /\ Refinish \in BOOLEAN
  /\ MaxReports \in Nat
  /\ MaxRevisions \in Nat

VARIABLES
  visit,      \* visits.status
  subject,    \* TRUE once visits.subject_id is set
  report,     \* the reports table, by order of creation
  last,       \* the newest report (ORDER BY created_at DESC LIMIT 1), 0 if none
  revisions,  \* report_revisions of each report, by revision_number
  obs,        \* source and review state of each observation
  chain,      \* where each processing chain is
  failed      \* visits.processing_status = "failed"

lifecycleVars == <<visit, subject, report, last, revisions, obs, chain, failed>>

ReportIds == 1..MaxReports
VisitStatus == {"draft", "confirmed", "sent_to_client"}
ReportStatus == {"absent", "pending_review", "confirmed"}

\* "assessed": confirmed or dismissed as the AI wrote it; "edited": the source
\* has become professional_edited.
ObsStatus == {"absent", "pending", "assessed", "edited"}
Reviewed == {"assessed", "edited"}
ChainStep == {"idle", "extracting", "extracted", "drafting"}

\* `shows` is the document rendered_html was rendered from.
Report == [status : ReportStatus,
           content : Contents \cup {NoContent},
           shows : Contents \cup {NoContent}]
Revision == [previous : Contents, new : Contents]

Absent == [status |-> "absent", content |-> NoContent, shows |-> NoContent]
Pending(c) == [status |-> "pending_review", content |-> c, shows |-> NoContent]
Confirmed(c) == [status |-> "confirmed", content |-> c, shows |-> c]

LifecycleTypeOK ==
  /\ visit \in VisitStatus
  /\ subject \in BOOLEAN
  /\ report \in [ReportIds -> Report]
  /\ last \in 0..MaxReports
  /\ revisions \in [ReportIds -> Seq(Revision)]
  /\ obs \in [Obs -> ObsStatus]
  /\ chain \in [Chains -> ChainStep]
  /\ failed \in BOOLEAN

LifecycleInit ==
  /\ visit = "draft"
  /\ subject = FALSE
  /\ report = [i \in ReportIds |-> Absent]
  /\ last = 0
  /\ revisions = [i \in ReportIds |-> <<>>]
  /\ obs = [o \in Obs |-> "absent"]
  /\ chain = [k \in Chains |-> "idle"]
  /\ failed = FALSE

-----------------------------------------------------------------------------
(* The processing chains, as far as the review can see them.               *)

\* Fault: the DELETE forgets the status condition.
DeleteEveryReport(i) == report[i].status # "absent"

\* Fault: earlier pending reports stay.
DeleteNothing(i) == FALSE

\* delete_pending_reports; the revisions go with the report (ON DELETE CASCADE).
DeletePending(i) == report[i].status = "pending_review"

RemainingRevisions == [i \in ReportIds |-> IF DeletePending(i) THEN <<>> ELSE revisions[i]]

\* The rows that a chain writes; each action adds where the chain is then.
DiscardReports ==
  /\ report' = [i \in ReportIds |-> IF DeletePending(i) THEN Absent ELSE report[i]]
  /\ last' = 0
  /\ revisions' = RemainingRevisions

\* delete_ai_observations; what the agent wrote stays.
ForgetObservations ==
  obs' = [o \in Obs |-> IF obs[o] = "edited" THEN "edited" ELSE "absent"]

StoreObservations ==
  \E new \in SUBSET {o \in Obs : obs[o] = "absent"} :
    obs' = [o \in Obs |-> IF o \in new THEN "pending" ELSE obs[o]]

\* Pending reports are deleted; the draft is added and becomes the newest.
StoreDraft ==
  /\ last < MaxReports
  /\ last' = last + 1
  /\ \E c \in Drafts :
       report' = [i \in ReportIds |->
                    IF i = last + 1 THEN Pending(c)
                    ELSE IF DeletePending(i) THEN Absent ELSE report[i]]
  /\ revisions' = RemainingRevisions

\* A chain starts only when none is under way, unless finish_showing is retried.
Startable(k) ==
  /\ visit = "draft"
  /\ chain[k] = "idle"
  /\ Refinish \/ \A j \in Chains : chain[j] = "idle"

\* finish_showing: a draft showing is queued, whatever earlier chains produced
\* or still do.
FinishShowing(k) ==
  /\ Startable(k)
  /\ Refinish \/ last = 0
  /\ chain' = [chain EXCEPT ![k] = "extracting"]
  /\ failed' = FALSE
  /\ UNCHANGED <<visit, subject, report, last, revisions, obs>>

\* reprocess_showing, after a failure: pending reports go (a draft showing has
\* no others), and the AI's observations too unless only the report failed.
ReprocessShowing(k) ==
  /\ Startable(k)
  /\ failed
  /\ DiscardReports
  /\ \/ /\ chain' = [chain EXCEPT ![k] = "extracting"]
        /\ ForgetObservations
     \/ /\ chain' = [chain EXCEPT ![k] = "extracted"]
        /\ UNCHANGED obs
  /\ failed' = FALSE
  /\ UNCHANGED <<visit, subject>>

\* An earlier step begins: the mark of an earlier failure is cleared.
ChainGoesOn(k) ==
  /\ chain[k] = "extracting"
  /\ failed' = FALSE
  /\ UNCHANGED <<visit, subject, report, last, revisions, obs, chain>>

\* extract_observations returns from the model call and commits new pending
\* observations; the draft check was made before the call.
ExtractObservations(k) ==
  /\ chain[k] = "extracting"
  /\ StoreObservations
  /\ chain' = [chain EXCEPT ![k] = "extracted"]
  /\ failed' = FALSE
  /\ UNCHANGED <<visit, subject, report, last, revisions>>

\* generate_report starts: _require_draft_visit, then the prompt is built.
BeginDraft(k) ==
  /\ chain[k] = "extracted"
  /\ visit = "draft"
  /\ chain' = [chain EXCEPT ![k] = "drafting"]
  /\ UNCHANGED <<visit, subject, report, last, revisions, obs, failed>>

\* generate_report commits.  visits.status is not read again.
CommitDraft(k) ==
  /\ chain[k] = "drafting"
  /\ StoreDraft
  /\ chain' = [chain EXCEPT ![k] = "idle"]
  /\ failed' = FALSE
  /\ UNCHANGED <<visit, subject, obs>>

\* A step raises (mark_failed), the last one finds the report made (which sets
\* the showing ready), or the worker dies: the rest of the chain does not run.
ChainStops(k) ==
  /\ chain[k] # "idle"
  /\ chain' = [chain EXCEPT ![k] = "idle"]
  /\ failed' \in BOOLEAN
  /\ UNCHANGED <<visit, subject, report, last, revisions, obs>>

-----------------------------------------------------------------------------
(* The professional's review.                                              *)

\* Fault: the check for a sent showing is dropped.
EditableAlways == TRUE

\* _require_editable_visit
Editable == visit # "sent_to_client"

\* confirm_observation, dismiss_observation
AssessObservation(o) ==
  /\ Editable
  /\ obs[o] # "absent"
  /\ obs' = [obs EXCEPT ![o] = IF @ = "edited" THEN "edited" ELSE "assessed"]
  /\ UNCHANGED <<visit, subject, report, last, revisions, chain, failed>>

\* update_observation
EditObservation(o) ==
  /\ Editable
  /\ obs[o] # "absent"
  /\ obs' = [obs EXCEPT ![o] = "edited"]
  /\ UNCHANGED <<visit, subject, report, last, revisions, chain, failed>>

\* add_observation: born "edited", with no flags.
AddObservation(o) ==
  /\ Editable
  /\ o \notin SensitiveObs
  /\ obs[o] = "absent"
  /\ obs' = [obs EXCEPT ![o] = "edited"]
  /\ UNCHANGED <<visit, subject, report, last, revisions, chain, failed>>

\* update_showing
AttachSubject ==
  /\ Editable
  /\ subject' = TRUE
  /\ UNCHANGED <<visit, report, last, revisions, obs, chain, failed>>

\* Fault: an edit always renders and confirms, also in a draft showing.
EditedConfirms(c) == Confirmed(c)

\* What an edit leaves in the report row: a confirmed showing is rendered again
\* in the same transaction, a draft one goes back to review.
Edited(c) == IF visit = "confirmed" THEN Confirmed(c) ELSE Pending(c)

\* Fault: edits of a confirmed showing leave no revision.
UpdateReportUnaudited(i, c) ==
  /\ Editable
  /\ report[i].status # "absent"
  /\ c # report[i].content
  /\ Len(revisions[i]) < MaxRevisions
  /\ report' = [report EXCEPT ![i] = Edited(c)]
  /\ revisions' = IF visit = "confirmed" THEN revisions
                  ELSE [revisions EXCEPT
                    ![i] = Append(@, [previous |-> report[i].content, new |-> c])]
  /\ UNCHANGED <<visit, subject, last, obs, chain, failed>>

\* update_report: any report of the showing can be edited, not just the newest;
\* an identical document is a no-op.
UpdateReport(i, c) ==
  /\ Editable
  /\ report[i].status # "absent"
  /\ c # report[i].content
  /\ Len(revisions[i]) < MaxRevisions
  /\ report' = [report EXCEPT ![i] = Edited(c)]
  /\ revisions' = [revisions EXCEPT
       ![i] = Append(@, [previous |-> report[i].content, new |-> c])]
  /\ UNCHANGED <<visit, subject, last, obs, chain, failed>>

\* Fault: any review at all is enough.
ReviewStarted == \E o \in Obs : obs[o] \in Reviewed

\* reviewed_observations is not empty and pending_sensitive_observations is.
ReviewComplete ==
  /\ \E o \in Obs : obs[o] \in Reviewed
  /\ \A o \in SensitiveObs : obs[o] # "pending"

\* confirm_showing: the newest report is rendered and confirmed.
ConfirmShowing ==
  /\ Editable
  /\ last # 0
  /\ subject
  /\ ReviewComplete
  /\ report' = [report EXCEPT ![last] = Confirmed(report[last].content)]
  /\ visit' = "confirmed"
  /\ UNCHANGED <<subject, last, revisions, obs, chain, failed>>

LifecycleNext ==
  \/ \E k \in Chains :
       \/ FinishShowing(k) \/ ReprocessShowing(k) \/ ChainGoesOn(k)
       \/ ExtractObservations(k) \/ BeginDraft(k) \/ CommitDraft(k) \/ ChainStops(k)
  \/ \E o \in Obs : AssessObservation(o) \/ EditObservation(o) \/ AddObservation(o)
  \/ AttachSubject
  \/ \E i \in ReportIds, c \in Contents : UpdateReport(i, c)
  \/ ConfirmShowing

=============================================================================
