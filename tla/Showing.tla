------------------------------ MODULE Showing ------------------------------
(***************************************************************************)
(* One showing in the backend as a whole: the tasks that process it        *)
(* (Pipeline) and the requests of the agent and the client (Delivery), on  *)
(* the rows they share.                                                    *)
(*                                                                         *)
(* Delivery stands alone with chains that do whatever those of Pipeline    *)
(* might.  Here they are those of Pipeline: what the agent sees of them is *)
(* a function of the tasks and of the visit row, and `Seen' is Delivery    *)
(* with that in the place of its own chains.                               *)
(***************************************************************************)
EXTENDS Pipeline, Sequences

CONSTANTS  \* as in ReportLifecycle and Delivery
  Contents, Drafts, NoContent, Obs, SensitiveObs, Refinish, MaxReports,
  MaxRevisions, Requests, MaxAttempts, MaxLinks

ASSUME ShowingAssumption ==
  /\ NoContent \notin Contents
  /\ Drafts \subseteq Contents
  /\ SensitiveObs \subseteq Obs
  /\ Refinish \in BOOLEAN
  /\ MaxReports \in Nat /\ MaxRevisions \in Nat
  /\ MaxAttempts \in Nat /\ MaxLinks \in Nat

VARIABLES  \* as in ReportLifecycle and Delivery
  visit, subject, report, last, revisions, obs,
  links, email, linkSent, attempts, request

reviewVars == <<visit, subject, report, last, revisions, obs>>
sendVars == <<links, email, linkSent, attempts, request>>
showingVars == <<vars, reviewVars, sendVars>>

\* Where the agent would say that a task is.
Phase(t) ==
  CASE t.step = "none" -> "idle"
    [] t.step = "report_generation" /\ t.phase = "working" -> "drafting"
    [] t.step = "report_generation" /\ t.phase # "working" -> "extracted"
    [] OTHER -> "extracting"

ChainSeen == [k \in Chains |-> Phase(task[k])]

FailureSeen == status = "failed"

Seen == INSTANCE Delivery WITH chain <- ChainSeen, failed <- FailureSeen

ShowingInit == Init /\ Seen!Init

-----------------------------------------------------------------------------
(* The pipeline's steps, with what they do to the agent's rows             *)

\* finish_showing; with ~Refinish the app does not repeat it.
Finish(k) ==
  /\ FinishShowing(k)
  /\ Refinish \/ FirstFinish
  /\ UNCHANGED <<reviewVars, sendVars>>

\* reprocess_showing
Reprocess(k) ==
  /\ ReprocessShowing(k)
  /\ Seen!DiscardReports
  /\ IF failedStep = "report_generation" THEN UNCHANGED obs ELSE Seen!ForgetObservations
  /\ UNCHANGED <<visit, subject, sendVars>>

\* extract_observations, at its end
Extract(k) ==
  /\ CommitExtraction(k)
  /\ Seen!StoreObservations
  /\ UNCHANGED <<visit, subject, report, last, revisions, sendVars>>

\* generate_report, at its end
Generate(k) ==
  /\ CommitReport(k)
  /\ Seen!StoreDraft
  /\ UNCHANGED <<visit, subject, obs, sendVars>>

PipelineStep ==
  \/ /\ \/ \E a \in Audio : UploadAudio(a)
        \/ \E k \in Chains : InnerStep(k) \/ ProcessDies(k)
     /\ UNCHANGED <<reviewVars, sendVars>>
  \/ \E k \in Chains : Finish(k) \/ Reprocess(k) \/ Extract(k) \/ Generate(k)

-----------------------------------------------------------------------------
(* The requests of the agent and the client                                *)

\* confirm_showing
Confirm ==
  /\ ConfirmShowing
  /\ Seen!ConfirmShowing
  /\ UNCHANGED sendVars

\* update_report: in a confirmed showing it ends the review of the report as well.
Edit(i, c) ==
  /\ reports' = IF visit = "confirmed" /\ report[i].status = "pending_review"
                THEN 0 ELSE reports
  /\ UNCHANGED <<visitVars, succeeded, transcripts, zones, findings, task, historyVars>>
  /\ Seen!UpdateReport(i, c)
  /\ UNCHANGED sendVars

\* The other review requests.
Review ==
  /\ UNCHANGED vars
  /\ \/ \E o \in Obs :
          Seen!AssessObservation(o) \/ Seen!EditObservation(o) \/ Seen!AddObservation(o)
     \/ Seen!AttachSubject
  /\ UNCHANGED sendVars

\* What Delivery does.
Deliver == UNCHANGED vars /\ Seen!DeliveryNext

ShowingNext ==
  \/ PipelineStep
  \/ Confirm
  \/ \E i \in 1..MaxReports, c \in Contents : Edit(i, c)
  \/ Review
  \/ Deliver

ShowingSpec == ShowingInit /\ [][ShowingNext]_showingVars

\* A live API process goes on with its e-mail request, time passes, and the
\* delivery panel is looked at (get_delivery).  Nothing is assumed of the provider.
ShowingFairness ==
  /\ \A r \in Requests :
       WF_showingVars(UNCHANGED vars /\ ( \/ Seen!RenderPdf(r) \/ Seen!CallProvider(r)
                                          \/ Seen!ProviderAnswers(r) \/ Seen!FinishEmail(r)))
  /\ WF_showingVars(UNCHANGED vars /\ Seen!LeaseExpires)
  /\ WF_showingVars(UNCHANGED vars /\ Seen!RecoverStalePending)

FairShowingSpec == ShowingSpec /\ ShowingFairness

-----------------------------------------------------------------------------
(* Properties                                                              *)

\* The showing does to the agent's rows nothing that Delivery does not: what
\* holds of Delivery, with the chains it assumes, holds of the tasks that run.
ChainsAreAsAssumed == Seen!Spec

\* The two views of the shared rows agree; a report that still waits for review
\* is the newest one, which is the one that confirm_showing confirms.
PendingIsNewest ==
  /\ draft <=> visit = "draft"
  /\ reports = Cardinality({i \in 1..MaxReports : report[i].status = "pending_review"})
  /\ \A i \in 1..MaxReports : report[i].status = "pending_review" => i = last

\* No sensitive observation is left unreviewed in a confirmed showing, unless
\* finish was accepted over earlier processing: no task adds one by then.
SensitiveFirst == retried \/ Seen!SensitiveReviewed

\* A report becomes confirmed only by confirm_showing, on the agent's review:
\* "AI output is never sendable without explicit agent confirmation"
\* (docs/Homean_Build_Plan_v1.md:60-61).
AgentConfirms(i) == Seen!ReviewComplete /\ i = last /\ visit' = "confirmed" /\ UNCHANGED revisions

Confirms(i) == report[i].status = "pending_review" /\ report'[i].status = "confirmed"

OnlyTheAgentConfirms ==
  [][\A i \in 1..MaxReports : Confirms(i) => AgentConfirms(i)]_showingVars

\* The same, until finish is accepted over earlier processing.
OnlyTheAgentUnlessRetried ==
  [][~retried => \A i \in 1..MaxReports : Confirms(i) => AgentConfirms(i)]_showingVars

\* A pending e-mail does not stay pending.
EmailSettles == Seen!PendingSettles

=============================================================================
