--------------------------- MODULE DeliveryProofs ---------------------------
(***************************************************************************)
(* Proofs about Delivery, for every number of requests, attempts, links,   *)
(* reports and edits.                                                      *)
(*                                                                         *)
(* The properties of Delivery are not inductive as they stand: each rests  *)
(* on facts about variables it does not name.  IInv collects them:         *)
(*   ReportFacts   how reports, showing and chain fit together             *)
(*   HistoryFacts  which reports can have revisions                        *)
(*   EmailInv      which attempt a request works on, and what its wire and *)
(*                 the recorded status can be                              *)
(*   LinkInv       what a link that was handed out leads to                *)
(*   ReviewInv     where processing is not started again: one chain at     *)
(*                 most, and none once there is a report                   *)
(***************************************************************************)
EXTENDS Delivery, TLAPS

\* A present report is no newer than the newest one, which is present and is the
\* only one that can be pending; and only a showing that left "draft" has
\* confirmed reports, each of them rendered from its current document.
ReportFacts ==
  /\ \A i \in ReportIds :
       /\ report[i].status # "absent" => i <= last /\ report[i].content \in Contents
       /\ report[i].status = "pending_review" => i = last
       /\ report[i].status = "confirmed" => report[i].shows = report[i].content
       /\ visit = "draft" => report[i].status # "confirmed"
  /\ last # 0 => report[last].status # "absent"

\* A report that is absent has no history.
HistoryFacts ==
  \A i \in ReportIds : report[i].status = "absent" => revisions[i] = <<>>

\* No attempt but the newest can have got through; a request that works on the
\* e-mail works on the newest attempt, alone, while the row is unsettled; what
\* it is about to record agrees with the wire.
EmailFacts ==
  /\ \A k \in DOMAIN attempts :
       k < Len(attempts) => attempts[k].wire \in {"none", "rejected"}
  /\ email.status = "none" => attempts = <<>>
  /\ email.status # "none" => attempts # <<>> /\ email.link \in DOMAIN links
  /\ email.status = "failed" =>
       attempts[Len(attempts)].wire \in {"none", "rejected"}
  /\ email.status = "sent" => attempts[Len(attempts)].wire = "accepted"

RequestFacts ==
  \A r \in Requests :
    request[r].step # "idle" =>
      /\ request[r].attempt = Len(attempts)
      /\ email.status \in {"pending", "outcome_unknown"}
      /\ \A q \in Requests : request[q].step # "idle" => q = r
      /\ request[r].step \in {"rendering", "calling"} =>
           attempts[Len(attempts)].wire = "none"
      /\ request[r].step = "finishing" =>
           /\ request[r].outcome = "failed" =>
                attempts[Len(attempts)].wire \in {"none", "rejected"}
           /\ request[r].outcome = "sent" =>
                attempts[Len(attempts)].wire = "accepted"

EmailInv == EmailFacts /\ RequestFacts

\* Links are made for a showing that is no longer a draft, and lead to
\* confirmed reports.
LinkInv ==
  \A l \in DOMAIN links :
    /\ visit # "draft"
    /\ report[links[l].report].status = "confirmed"

IInv ==
  /\ TypeOK
  /\ ReportFacts
  /\ HistoryFacts
  /\ RevisionsFormAChain
  /\ EmailInv
  /\ LinkInv
  /\ SentHasADelivery

-----------------------------------------------------------------------------
(* Types                                                                   *)

\* The initial state has the declared types: TypeOK's base case.
LEMMA InitTypes == Init => TypeOK
<1> SUFFICES ASSUME Init PROVE TypeOK
  OBVIOUS
<1> USE LifecycleAssumption, DeliveryAssumption DEF Init
<1>1. LifecycleTypeOK
  <2> USE DEF LifecycleInit, ReportIds
  <2>1. report \in [ReportIds -> Report]
    BY DEF Report, ReportStatus, Absent
  <2>2. revisions \in [ReportIds -> Seq(Revision)]
    OBVIOUS
  <2>3. obs \in [Obs -> ObsStatus] /\ last \in 0..MaxReports
    BY DEF ObsStatus
  <2> QED
    BY <2>1, <2>2, <2>3 DEF LifecycleTypeOK, VisitStatus, ChainStep
<1>2. links \in Seq(Link) /\ Len(links) <= MaxLinks
  OBVIOUS
<1>3. attempts \in Seq(Attempt) /\ Len(attempts) <= MaxAttempts
  OBVIOUS
<1>4. email \in Email
  BY DEF Email, SendStatus
<1>5. request \in [Requests -> Request]
  BY DEF Idle, Request, Step, Outcome
<1> QED
  BY <1>1, <1>2, <1>3, <1>4, <1>5 DEF TypeOK

\* Every step of the review and of the processing chain keeps the types of the
\* showing, its reports, their revisions and its observations.
LEMMA LifecycleTypes ==
  ASSUME LifecycleTypeOK, ReportFacts, LifecycleNext
  PROVE  LifecycleTypeOK'
<1> USE LifecycleAssumption DEF LifecycleTypeOK, ReportIds
<1>1. ASSUME NEW ch \in Chains, NEW s \in ChainStep,
             chain' = [chain EXCEPT ![ch] = s]
      PROVE  chain' \in [Chains -> ChainStep]
  BY <1>1
<1>2. ASSUME NEW ch \in Chains,
             FinishShowing(ch) \/ ChainGoesOn(ch) \/ BeginDraft(ch) \/ ChainStops(ch)
      PROVE  LifecycleTypeOK'
  BY <1>1, <1>2 DEF FinishShowing, ChainGoesOn, BeginDraft, ChainStops, ChainStep
<1>3. ASSUME NEW ch \in Chains, ReprocessShowing(ch)
      PROVE  LifecycleTypeOK'
  <2>1. report' \in [ReportIds -> Report] /\ last' \in 0..MaxReports
    BY <1>3 DEF ReprocessShowing, DiscardReports, Report, ReportStatus, Absent
  <2>2. revisions' \in [ReportIds -> Seq(Revision)]
    BY <1>3 DEF ReprocessShowing, DiscardReports, RemainingRevisions
  <2>3. obs' \in [Obs -> ObsStatus]
    BY <1>3 DEF ReprocessShowing, ForgetObservations, ObsStatus
  <2>4. chain' \in [Chains -> ChainStep]
    BY <1>1, <1>3 DEF ReprocessShowing, ChainStep
  <2> QED
    BY <1>3, <2>1, <2>2, <2>3, <2>4 DEF ReprocessShowing
<1>4. ASSUME NEW ch \in Chains, ExtractObservations(ch)
      PROVE  LifecycleTypeOK'
  <2>1. obs' \in [Obs -> ObsStatus]
    BY <1>4 DEF ExtractObservations, StoreObservations, ObsStatus
  <2>2. chain' \in [Chains -> ChainStep]
    BY <1>1, <1>4 DEF ExtractObservations, ChainStep
  <2> QED
    BY <1>4, <2>1, <2>2 DEF ExtractObservations
<1>5. ASSUME NEW ch \in Chains, CommitDraft(ch)
      PROVE  LifecycleTypeOK'
  <2>1. last + 1 \in ReportIds
    BY <1>5 DEF CommitDraft, StoreDraft
  <2>2. report' \in [ReportIds -> Report]
    BY <1>5 DEF CommitDraft, StoreDraft, Report, ReportStatus, Pending, Absent
  <2>3. revisions' \in [ReportIds -> Seq(Revision)]
    BY <1>5 DEF CommitDraft, StoreDraft, RemainingRevisions
  <2>4. chain' \in [Chains -> ChainStep]
    BY <1>1, <1>5 DEF CommitDraft, ChainStep
  <2>5. last' \in 0..MaxReports
    BY <1>5, <2>1 DEF CommitDraft, StoreDraft
  <2>6. failed' \in BOOLEAN /\ UNCHANGED <<visit, subject, obs>>
    BY <1>5 DEF CommitDraft
  <2> QED
    BY <2>2, <2>3, <2>4, <2>5, <2>6
<1>6. ASSUME NEW o \in Obs, AssessObservation(o) \/ EditObservation(o)
      PROVE  LifecycleTypeOK'
  BY <1>6 DEF AssessObservation, EditObservation, ObsStatus
<1>7. ASSUME NEW o \in Obs, AddObservation(o)
      PROVE  LifecycleTypeOK'
  BY <1>7 DEF AddObservation, ObsStatus
<1>8. CASE AttachSubject
  BY <1>8 DEF AttachSubject
<1>9. ASSUME NEW i \in ReportIds, NEW c \in Contents, UpdateReport(i, c)
      PROVE  LifecycleTypeOK'
  <2>1. Edited(c) \in Report
    BY DEF Edited, Report, ReportStatus, Pending, Confirmed
  <2>2. [previous |-> report[i].content, new |-> c] \in Revision
    BY <1>9 DEF UpdateReport, ReportFacts, Revision
  <2>3. Append(revisions[i], [previous |-> report[i].content, new |-> c])
          \in Seq(Revision)
    BY <2>2
  <2> QED
    BY <1>9, <2>1, <2>3 DEF UpdateReport
<1>10. CASE ConfirmShowing
  <2>1. last \in ReportIds /\ Confirmed(report[last].content) \in Report
    BY <1>10 DEF ConfirmShowing, Confirmed, Report, ReportStatus
  <2> QED
    BY <1>10, <2>1 DEF ConfirmShowing, VisitStatus
<1> QED
  BY <1>2, <1>3, <1>4, <1>5, <1>6, <1>7, <1>8, <1>9, <1>10 DEF LifecycleNext

\* Appending to a sequence, or replacing one of its elements, keeps the earlier
\* elements and the type.
LEMMA AppendFacts ==
  ASSUME NEW S, NEW s \in Seq(S), NEW e \in S
  PROVE  /\ Append(s, e) \in Seq(S)
         /\ Len(Append(s, e)) = Len(s) + 1
         /\ DOMAIN Append(s, e) = 1..(Len(s) + 1)
         /\ \A k \in DOMAIN s : Append(s, e)[k] = s[k]
         /\ Append(s, e)[Len(s) + 1] = e
  OBVIOUS

LEMMA ReplaceFacts ==
  ASSUME NEW S, NEW s \in Seq(S), NEW k \in DOMAIN s, NEW e \in S
  PROVE  /\ [s EXCEPT ![k] = e] \in Seq(S)
         /\ Len([s EXCEPT ![k] = e]) = Len(s)
         /\ DOMAIN [s EXCEPT ![k] = e] = DOMAIN s
  OBVIOUS

\* There is a newest report unless there is none.
LEMMA NewestReport ==
  ASSUME TypeOK, last # 0
  PROVE  last \in ReportIds /\ report[last] \in Report
<1>1. last \in 0..MaxReports /\ report \in [ReportIds -> Report] /\ MaxReports \in Nat
  BY LifecycleAssumption DEF TypeOK, LifecycleTypeOK
<1>2. last \in ReportIds
  BY <1>1 DEF ReportIds
<1> QED
  BY <1>1, <1>2

\* What the first transaction of an attempt writes has the declared types.
LEMMA BeginAttemptTypes ==
  ASSUME TypeOK, NEW r \in Requests, NEW link \in LinkIds, last # 0,
         BeginAttempt(r, link)
  PROVE  /\ email' \in Email
         /\ attempts' \in Seq(Attempt) /\ Len(attempts') <= MaxAttempts
         /\ request' \in [Requests -> Request]
<1> USE DeliveryAssumption DEF TypeOK, BeginAttempt
<1> DEFINE a == [pdf |-> report[last].shows, wire |-> "none"]
<1>1. email' \in Email
  BY DEF Email, SendStatus, LinkIds
<1>2. a \in Attempt
  <2>1. last \in ReportIds /\ report[last] \in Report
    BY NewestReport
  <2> QED
    BY <2>1 DEF Attempt, Report, Wire
<1>3. attempts' \in Seq(Attempt) /\ Len(attempts') <= MaxAttempts
  <2>1. attempts' = Append(attempts, a) /\ Len(attempts) < MaxAttempts
    OBVIOUS
  <2> HIDE DEF a
  <2> QED
    BY <1>2, <2>1, AppendFacts
<1>4. request' \in [Requests -> Request]
  BY DEF Request, Step, Outcome
<1> QED
  BY <1>1, <1>3, <1>4

\* Every step of the delivery keeps the types of links, e-mail row, attempts and
\* requests.
LEMMA DeliveryTypes ==
  ASSUME TypeOK, EmailFacts, RequestFacts, DeliveryNext
  PROVE  TypeOK'
<1> USE DeliveryAssumption DEF TypeOK
<1>1. ASSUME UNCHANGED lifecycleVars
      PROVE  LifecycleTypeOK'
  BY <1>1 DEF LifecycleTypeOK, lifecycleVars
<1>2. ASSUME UNCHANGED <<subject, report, last, revisions, obs, chain, failed>>,
             visit' \in VisitStatus
      PROVE  LifecycleTypeOK'
  BY <1>2 DEF LifecycleTypeOK
<1>3. ASSUME NewShareLink, last # 0
      PROVE  links' \in Seq(Link) /\ Len(links') <= MaxLinks
  <2>1. [report |-> last, live |-> TRUE] \in Link
    BY <1>3 DEF Link, LifecycleTypeOK, ReportIds
  <2> QED
    BY <1>3, <2>1, AppendFacts DEF NewShareLink
<1>4. CASE CreateShareLink
  BY <1>4, <1>1, <1>3 DEF CreateShareLink, Deliverable
<1>5. ASSUME NEW l \in DOMAIN links, RevokeShareLink(l)
      PROVE  TypeOK'
  <2>1. [links[l] EXCEPT !.live = FALSE] \in Link
    <3>1. links[l] \in Link
      OBVIOUS
    <3> QED
      BY <3>1 DEF Link
  <2>2. links' = [links EXCEPT ![l] = [links[l] EXCEPT !.live = FALSE]]
    BY <1>5 DEF RevokeShareLink
  <2>3. links' \in Seq(Link) /\ Len(links') = Len(links)
    BY <2>1, <2>2, ReplaceFacts
  <2> QED
    BY <1>5, <1>1, <2>3 DEF RevokeShareLink
<1>6. CASE SendLinkOnly
  BY <1>6, <1>2, <1>3 DEF SendLinkOnly, Deliverable, VisitStatus
<1>7. ASSUME NEW r \in Requests, SendEmail(r)
      PROVE  TypeOK'
  <2>1. Len(links) + 1 \in LinkIds
    BY <1>7 DEF SendEmail, NewShareLink, LinkIds
  <2> QED
    BY <1>7, <1>1, <1>3, <2>1, BeginAttemptTypes DEF SendEmail, Deliverable
<1>8. ASSUME NEW r \in Requests, RetryEmail(r)
      PROVE  TypeOK'
  <2>1. email.link \in LinkIds
    BY <1>8 DEF RetryEmail, Retryable, EmailFacts, LinkIds
  <2> QED
    BY <1>8, <1>1, <2>1, BeginAttemptTypes DEF RetryEmail, Deliverable
<1>9. ASSUME NEW r \in Requests, NEW s \in Step, NEW o \in Outcome, GoesTo(r, s, o)
      PROVE  request' \in [Requests -> Request]
  BY <1>9 DEF GoesTo, Request
<1>10. ASSUME NEW k \in DOMAIN attempts, NEW w \in Wire,
              attempts' = [attempts EXCEPT ![k].wire = w]
       PROVE  attempts' \in Seq(Attempt) /\ Len(attempts') <= MaxAttempts
  <2>1. [attempts[k] EXCEPT !.wire = w] \in Attempt
    <3>1. attempts[k] \in Attempt
      OBVIOUS
    <3> QED
      BY <3>1 DEF Attempt
  <2>2. attempts' = [attempts EXCEPT ![k] = [attempts[k] EXCEPT !.wire = w]]
    BY <1>10
  <2> QED
    BY <2>1, <2>2, ReplaceFacts
<1>11. ASSUME NEW r \in Requests, RenderPdf(r)
       PROVE  TypeOK'
  BY <1>11, <1>1, <1>9 DEF RenderPdf, Step, Outcome
<1>12. ASSUME NEW r \in Requests, CallProvider(r)
       PROVE  TypeOK'
  <2>1. request' \in [Requests -> Request]
    BY <1>12, <1>9 DEF CallProvider, Step, Outcome
  <2>2. attempts' \in Seq(Attempt) /\ Len(attempts') <= MaxAttempts
    <3>1. request[r].attempt \in DOMAIN attempts
      BY <1>12 DEF CallProvider, RequestFacts, EmailFacts
    <3> QED
      BY <1>12, <1>10, <3>1 DEF CallProvider, Wire
  <2> QED
    BY <1>12, <1>1, <2>1, <2>2 DEF CallProvider
<1>13. ASSUME NEW k \in DOMAIN attempts, ProviderDecides(k)
       PROVE  TypeOK'
  <2>1. attempts' \in Seq(Attempt) /\ Len(attempts') <= MaxAttempts
    BY <1>13, <1>10 DEF ProviderDecides, Wire
  <2> QED
    BY <1>13, <1>1, <2>1 DEF ProviderDecides
<1>14. ASSUME NEW r \in Requests, ProviderAnswers(r)
       PROVE  TypeOK'
  BY <1>14, <1>1, <1>9 DEF ProviderAnswers, Learned, Step, Outcome
<1>15. ASSUME NEW r \in Requests, FinishEmail(r)
       PROVE  TypeOK'
  <2>1. Recorded(r) \in Email
    BY DEF Recorded, Email, SendStatus, Request, Outcome
  <2>2. request' \in [Requests -> Request]
    BY <1>15 DEF FinishEmail, Idle, Request, Step, Outcome
  <2>3. LifecycleTypeOK'
    BY <1>15, <1>2 DEF FinishEmail, LifecycleTypeOK, VisitStatus
  <2> QED
    BY <1>15, <2>1, <2>2, <2>3 DEF FinishEmail
<1>16. ASSUME NEW r \in Requests, Crash(r)
       PROVE  TypeOK'
  BY <1>16, <1>1 DEF Crash, Idle, Request, Step, Outcome
<1>17. CASE LeaseExpires
  BY <1>17, <1>1 DEF LeaseExpires, Email
<1>18. CASE RecoverStalePending
  BY <1>18, <1>1 DEF RecoverStalePending, Email, SendStatus
<1> QED
  BY <1>4, <1>5, <1>6, <1>7, <1>8, <1>11, <1>12, <1>13, <1>14, <1>15, <1>16, <1>17,
     <1>18 DEF DeliveryNext

-----------------------------------------------------------------------------
(* Reports and links                                                       *)

\* Only four kinds of step write what the delivery reads.
LEMMA LifecycleCases ==
  ASSUME LifecycleNext
  PROVE  \/ UNCHANGED <<visit, report, last, revisions>>
         \/ \E ch \in Chains : CommitDraft(ch)
         \/ \E ch \in Chains : ReprocessShowing(ch)
         \/ \E i \in ReportIds, c \in Contents : UpdateReport(i, c)
         \/ ConfirmShowing
BY DEF LifecycleNext, FinishShowing, ChainGoesOn, ExtractObservations, BeginDraft,
       ChainStops,
       AssessObservation, EditObservation, AddObservation, AttachSubject

\* A report that is present is not newer than the newest one.
LEMMA PresentReport ==
  ASSUME LifecycleTypeOK, ReportFacts, NEW i \in ReportIds, report[i].status # "absent"
  PROVE  i <= last /\ i # last + 1
<1>1. last \in Nat /\ i \in Nat
  BY LifecycleAssumption DEF LifecycleTypeOK, ReportIds
<1>2. i <= last
  BY DEF ReportFacts
<1> QED
  BY <1>1, <1>2

\* How an edit, a confirmation or a new draft leaves the reports: present ones
\* were drafted, confirmed ones are rendered from their document, and a report
\* without a row has no history.
LEMMA LifecycleFacts ==
  ASSUME LifecycleTypeOK, ReportFacts, HistoryFacts, LifecycleNext
  PROVE  ReportFacts' /\ HistoryFacts'
<1> USE LifecycleAssumption DEF LifecycleTypeOK, ReportIds, ReportFacts, HistoryFacts
<1>1. CASE UNCHANGED <<visit, report, last, revisions>>
  BY <1>1
<1>2. ASSUME NEW ch \in Chains, CommitDraft(ch)
      PROVE  ReportFacts' /\ HistoryFacts'
  <2>1. last' = last + 1 /\ last' <= MaxReports /\ UNCHANGED visit
    BY <1>2 DEF CommitDraft, StoreDraft
  <2>2. ASSUME NEW i \in ReportIds
        PROVE  \/ i = last' /\ report'[i].status = "pending_review"
                            /\ report'[i].content \in Contents
               \/ i # last' /\ report[i].status = "pending_review"
                            /\ report'[i] = Absent /\ revisions'[i] = <<>>
               \/ i # last' /\ report[i].status # "pending_review"
                            /\ report'[i] = report[i] /\ revisions'[i] = revisions[i]
    BY <1>2 DEF CommitDraft, StoreDraft, Pending, DeletePending, RemainingRevisions
  <2>3. last' \in ReportIds
    BY <2>1
  <2>4. ASSUME NEW i \in ReportIds
        PROVE  /\ report'[i].status # "absent" =>
                    i <= last' /\ report'[i].content \in Contents
               /\ report'[i].status = "pending_review" => i = last'
               /\ report'[i].status = "confirmed" => report'[i].shows = report'[i].content
               /\ visit' = "draft" => report'[i].status # "confirmed"
    BY <2>1, <2>2 DEF Absent
  <2>5. report'[last'].status # "absent"
    BY <2>2, <2>3
  <2>6. HistoryFacts'
    BY <2>2 DEF Absent
  <2> QED
    BY <2>1, <2>4, <2>5, <2>6
<1>3. ASSUME NEW ch \in Chains, ReprocessShowing(ch)
      PROVE  ReportFacts' /\ HistoryFacts'
  <2>1. visit = "draft" /\ last' = 0
    BY <1>3 DEF ReprocessShowing, DiscardReports, Startable
  <2>2. ASSUME NEW i \in ReportIds
        PROVE  report'[i].status = "absent" /\ revisions'[i] = <<>>
    <3>1. report[i].status \in {"absent", "pending_review"}
      BY <2>1 DEF Report, ReportStatus
    <3>2. CASE report[i].status = "pending_review"
      BY <1>3, <3>2 DEF ReprocessShowing, DiscardReports, DeletePending, RemainingRevisions,
                    Absent
    <3>3. CASE report[i].status = "absent"
      BY <1>3, <3>3 DEF ReprocessShowing, DiscardReports, DeletePending, RemainingRevisions
    <3> QED
      BY <3>1, <3>2, <3>3
  <2> QED
    BY <2>1, <2>2
<1>4. ASSUME NEW i \in ReportIds, NEW c \in Contents, UpdateReport(i, c)
      PROVE  ReportFacts' /\ HistoryFacts'
  <2>1. /\ Edited(c).status # "absent" /\ Edited(c).content = c
        /\ Edited(c).status = "confirmed" =>
             Edited(c).shows = c /\ visit = "confirmed"
    BY DEF Edited, Confirmed, Pending
  <2>2. ASSUME NEW j \in ReportIds
        PROVE  report'[j] = IF j = i THEN Edited(c) ELSE report[j]
    BY <1>4 DEF UpdateReport
  <2>3. ASSUME NEW j \in ReportIds, j # i
        PROVE  revisions'[j] = revisions[j]
    <3>1. PICK v : revisions' = [revisions EXCEPT ![i] = v]
      BY <1>4 DEF UpdateReport
    <3> QED
      BY <2>3, <3>1
  <2>4. /\ report[i].status # "absent" /\ UNCHANGED <<visit, last>>
        /\ Edited(c).status = "pending_review" => i = last
    <3>1. report[i].status # "absent" /\ UNCHANGED <<visit, last>> /\ Editable
      BY <1>4 DEF UpdateReport
    <3>2. Edited(c).status = "pending_review" => visit = "draft"
      BY <3>1 DEF Edited, Confirmed, Editable, VisitStatus
    <3>3. visit = "draft" => report[i].status = "pending_review"
      BY <3>1 DEF Report, ReportStatus
    <3> QED
      BY <3>1, <3>2, <3>3
  <2>5. ASSUME NEW j \in ReportIds
        PROVE  /\ report'[j].status # "absent" =>
                    j <= last' /\ report'[j].content \in Contents
               /\ report'[j].status = "pending_review" => j = last'
               /\ report'[j].status = "confirmed" => report'[j].shows = report'[j].content
               /\ visit' = "draft" => report'[j].status # "confirmed"
               /\ report'[j].status = "absent" => revisions'[j] = <<>>
               /\ report[j].status # "absent" => report'[j].status # "absent"
    <3>1. CASE j = i
      BY <2>1, <2>2, <2>4, <3>1
    <3>2. CASE j # i
      BY <2>2, <2>3, <2>4, <3>2
    <3> QED
      BY <3>1, <3>2
  <2>6. last' # 0 => report'[last'].status # "absent"
    BY <2>4, <2>5
  <2>7. HistoryFacts'
    BY <2>5
  <2> QED
    BY <2>5, <2>6, <2>7
<1>5. CASE ConfirmShowing
  <2>1. last \in ReportIds
    BY <1>5 DEF ConfirmShowing
  <2> QED
    BY <1>5, <2>1 DEF ConfirmShowing, Confirmed
<1> QED
  BY <1>1, <1>2, <1>3, <1>4, <1>5, LifecycleCases

\* No step of the delivery touches a report, and none makes a showing a draft
\* again.
LEMMA DeliveryFrame ==
  ASSUME DeliveryNext
  PROVE  /\ UNCHANGED <<subject, report, last, revisions, obs, chain, failed>>
         /\ visit' \in {visit, "sent_to_client"}
BY DEF DeliveryNext, CreateShareLink, RevokeShareLink, SendLinkOnly, SendEmail,
       RetryEmail, RenderPdf, CallProvider, ProviderDecides, ProviderAnswers,
       FinishEmail, Crash, LeaseExpires, RecoverStalePending, lifecycleVars

\* A new draft deletes no confirmed report, an edit after confirmation leaves
\* the report confirmed: what a link leads to stays confirmed.
LEMMA LifecycleLinks ==
  ASSUME TypeOK, ReportFacts, LinkInv, LifecycleNext, UNCHANGED deliveryVars
  PROVE  LinkInv'
<1> USE LifecycleAssumption DEF TypeOK, LifecycleTypeOK, LinkInv, deliveryVars, ReportIds
<1>1. ASSUME NEW l \in DOMAIN links
      PROVE  links[l].report \in ReportIds
  <2>1. links[l] \in Link
    OBVIOUS
  <2> QED
    BY <2>1 DEF Link
<1>2. CASE UNCHANGED <<visit, report>>
  BY <1>2
<1>3. ASSUME NEW ch \in Chains, CommitDraft(ch)
      PROVE  LinkInv'
  <2>1. ASSUME NEW i \in ReportIds, report[i].status = "confirmed"
        PROVE  report'[i] = report[i]
    <3>1. i # last + 1
      BY <2>1, PresentReport
    <3> QED
      BY <1>3, <2>1, <3>1 DEF CommitDraft, StoreDraft, DeletePending
  <2>2. UNCHANGED <<visit, links>>
    BY <1>3 DEF CommitDraft, StoreDraft
  <2> QED
    BY <1>1, <2>1, <2>2
<1>4. ASSUME NEW i \in ReportIds, NEW c \in Contents, UpdateReport(i, c)
      PROVE  LinkInv'
  BY <1>1, <1>4 DEF UpdateReport, Edited, Editable, Confirmed, VisitStatus
<1>5. CASE ConfirmShowing
  BY <1>1, <1>5 DEF ConfirmShowing, Confirmed
<1>6. ASSUME NEW ch \in Chains, ReprocessShowing(ch)
      PROVE  LinkInv'
  <2>1. visit = "draft" /\ UNCHANGED links
    BY <1>6 DEF ReprocessShowing, DiscardReports, Startable
  <2> QED
    BY <2>1
<1> QED
  BY <1>2, <1>3, <1>4, <1>5, <1>6, LifecycleCases

\* Every new link leads to the newest report, which is confirmed.
LEMMA DeliveryLinks ==
  ASSUME TypeOK, ReportFacts, EmailFacts, LinkInv, DeliveryNext
  PROVE  LinkInv'
<1> USE DEF TypeOK, LinkInv
<1>1. UNCHANGED report /\ visit' \in {visit, "sent_to_client"}
  BY DeliveryFrame
<1>2. CASE UNCHANGED links
  BY <1>1, <1>2
<1>3. ASSUME Deliverable({"confirmed", "sent_to_client"}), NewShareLink
      PROVE  LinkInv'
  <2> DEFINE new == [report |-> last, live |-> TRUE]
  <2>1. new \in Link /\ links' = Append(links, new)
    BY <1>3 DEF NewShareLink, Deliverable, Link, LifecycleTypeOK, ReportIds
  <2>2. visit' # "draft" /\ report'[new.report].status = "confirmed"
    BY <1>1, <1>3 DEF Deliverable
  <2> HIDE DEF new
  <2>3. ASSUME NEW l \in DOMAIN links'
        PROVE  \/ l \in DOMAIN links /\ links'[l] = links[l]
               \/ links'[l] = new
    BY <2>1, AppendFacts
  <2> QED
    BY <1>1, <2>2, <2>3
<1>4. ASSUME NEW l \in DOMAIN links, RevokeShareLink(l)
      PROVE  LinkInv'
  BY <1>1, <1>4 DEF RevokeShareLink
<1> QED
  BY <1>2, <1>3, <1>4
  DEF DeliveryNext, CreateShareLink, SendLinkOnly, SendEmail, Deliverable,
      RetryEmail, RenderPdf, CallProvider, ProviderDecides, ProviderAnswers,
      FinishEmail, Crash, LeaseExpires, RecoverStalePending

-----------------------------------------------------------------------------
(* The e-mail                                                              *)

\* The row, the attempts and the requests agree (EmailInv) after the first
\* transaction of an attempt: it only starts when no other request is at work
\* and no earlier attempt got through or still can.
LEMMA BeginAttemptEmail ==
  ASSUME TypeOK, EmailInv, NEW r \in Requests, NEW link \in LinkIds, last # 0,
         BeginAttempt(r, link), email.status \in {"none", "failed"},
         link \in DOMAIN links'
  PROVE  EmailInv'
<1> USE DEF TypeOK, EmailInv, EmailFacts, RequestFacts
<1> DEFINE a == [pdf |-> report[last].shows, wire |-> "none"]
<1>1. /\ \A k \in DOMAIN attempts : attempts'[k] = attempts[k]
      /\ attempts'[Len(attempts)+1].wire = "none"
      /\ Len(attempts') = Len(attempts) + 1
      /\ DOMAIN attempts' = 1..(Len(attempts) + 1)
  <2>1. a \in Attempt
    <3>1. last \in ReportIds /\ report[last] \in Report
      BY NewestReport
    <3> QED
      BY <3>1 DEF Attempt, Report, Wire
  <2>2. a.wire = "none" /\ attempts' = Append(attempts, a)
    BY DEF BeginAttempt
  <2> HIDE DEF a
  <2> QED
    BY <2>1, <2>2, AppendFacts
<1>2. \A k \in DOMAIN attempts : attempts[k].wire \in {"none", "rejected"}
  OBVIOUS
<1>3. email'.status = "pending" /\ email'.link = link
  BY DEF BeginAttempt
<1>4. EmailFacts'
  BY <1>1, <1>2, <1>3
<1>5. \A q \in Requests :
        request'[q] = IF q = r THEN [step |-> "rendering", attempt |-> Len(attempts) + 1,
                                     outcome |-> "outcome_unknown"]
                      ELSE request[q]
  BY DEF BeginAttempt
<1>6. \A q \in Requests : request[q].step = "idle"
  OBVIOUS
<1>7. RequestFacts'
  BY <1>1, <1>3, <1>5, <1>6
<1> QED
  BY <1>4, <1>7

\* One step of a request or of the provider on the newest attempt's wire.
LEMMA WireStep ==
  ASSUME TypeOK, EmailFacts, NEW k \in DOMAIN attempts, NEW w \in Wire,
         attempts' = [attempts EXCEPT ![k].wire = w]
  PROVE  /\ Len(attempts') = Len(attempts) /\ DOMAIN attempts' = DOMAIN attempts
         /\ attempts'[k].wire = w
         /\ \A j \in DOMAIN attempts : j # k => attempts'[j] = attempts[j]
<1>1. attempts[k] \in Attempt
  BY DEF TypeOK
<1> QED
  BY <1>1 DEF TypeOK, Attempt

\* A request's own step touches no other request and not its attempt.
LEMMA RequestStep ==
  ASSUME TypeOK, NEW r \in Requests, NEW s \in Step, NEW o \in Outcome, GoesTo(r, s, o)
  PROVE  /\ request'[r] = [step |-> s, attempt |-> request[r].attempt, outcome |-> o]
         /\ \A q \in Requests : q # r => request'[q] = request[q]
  BY DEF TypeOK, GoesTo

\* A new link is one more, and active.
LEMMA NewLinkFacts ==
  ASSUME TypeOK, last # 0, NewShareLink
  PROVE  /\ Len(links) + 1 \in LinkIds
         /\ DOMAIN links' = 1..(Len(links) + 1)
<1> DEFINE new == [report |-> last, live |-> TRUE]
<1>1. new \in Link /\ links \in Seq(Link)
  BY DEF TypeOK, Link, LifecycleTypeOK, ReportIds
<1>2. links' = Append(links, new) /\ Len(links) < MaxLinks
  BY DEF NewShareLink
<1> HIDE DEF new
<1> QED
  BY <1>1, <1>2, AppendFacts, DeliveryAssumption DEF LinkIds

\* Every step of the delivery keeps the row, the attempts and the requests in
\* agreement.
LEMMA DeliveryEmail ==
  ASSUME TypeOK, EmailInv, DeliveryNext
  PROVE  EmailInv'
<1> USE DEF TypeOK, EmailInv, EmailFacts, RequestFacts
<1>1. CASE CreateShareLink \/ SendLinkOnly
  <2>1. UNCHANGED <<email, attempts, request>> /\ DOMAIN links \subseteq DOMAIN links'
    BY <1>1 DEF CreateShareLink, SendLinkOnly, NewShareLink
  <2> QED
    BY <2>1
<1>2. ASSUME NEW l \in DOMAIN links, RevokeShareLink(l)
      PROVE  EmailInv'
  BY <1>2 DEF RevokeShareLink
<1>3. ASSUME NEW r \in Requests, SendEmail(r)
      PROVE  EmailInv'
  <2>1. last # 0 /\ BeginAttempt(r, Len(links) + 1) /\ email.status = "none"
    BY <1>3 DEF SendEmail, Deliverable
  <2>2. Len(links) + 1 \in LinkIds /\ Len(links) + 1 \in DOMAIN links'
    BY <1>3, <2>1, NewLinkFacts DEF SendEmail
  <2> QED
    BY <2>1, <2>2, BeginAttemptEmail
<1>4. ASSUME NEW r \in Requests, RetryEmail(r)
      PROVE  EmailInv'
  <2>1. /\ email.link \in LinkIds /\ email.link \in DOMAIN links'
        /\ last # 0 /\ BeginAttempt(r, email.link) /\ email.status = "failed"
    BY <1>4, DeliveryAssumption DEF RetryEmail, Retryable, LinkIds, Deliverable
  <2> QED
    BY <2>1, BeginAttemptEmail
<1>5. ASSUME NEW r \in Requests, RenderPdf(r)
      PROVE  EmailInv'
  <2>1. PICK s \in Step, o \in Outcome :
          /\ GoesTo(r, s, o)
          /\ s \in {"calling", "finishing"} /\ o # "sent"
    BY <1>5 DEF RenderPdf, Step, Outcome
  <2>2. request[r].step = "rendering" /\ UNCHANGED <<links, email, attempts>>
    BY <1>5 DEF RenderPdf
  <2>3. /\ request'[r] = [step |-> s, attempt |-> request[r].attempt, outcome |-> o]
        /\ \A q \in Requests : q # r => request'[q] = request[q]
    BY <2>1, RequestStep
  <2> QED
    BY <2>1, <2>2, <2>3
<1>6. ASSUME NEW r \in Requests, CallProvider(r)
      PROVE  EmailInv'
  <2>1. /\ request[r].step = "calling" /\ UNCHANGED <<links, email>>
        /\ request[r].attempt = Len(attempts) /\ Len(attempts) \in DOMAIN attempts
    BY <1>6 DEF CallProvider
  <2>2. CASE GoesTo(r, "finishing", "failed") /\ UNCHANGED attempts
    <3>1. /\ request'[r] = [step |-> "finishing", attempt |-> request[r].attempt,
                             outcome |-> "failed"]
          /\ \A q \in Requests : q # r => request'[q] = request[q]
      BY <2>2, RequestStep DEF Step, Outcome
    <3> QED
      BY <2>1, <2>2, <3>1
  <2>3. CASE /\ GoesTo(r, "answering", "outcome_unknown")
             /\ attempts' = [attempts EXCEPT ![request[r].attempt].wire = "offered"]
    <3>1. /\ request'[r] = [step |-> "answering", attempt |-> request[r].attempt,
                             outcome |-> "outcome_unknown"]
          /\ \A q \in Requests : q # r => request'[q] = request[q]
      BY <2>1, <2>3, RequestStep DEF Step, Outcome
    <3>2. /\ Len(attempts') = Len(attempts) /\ DOMAIN attempts' = DOMAIN attempts
          /\ \A j \in DOMAIN attempts : j # Len(attempts) => attempts'[j] = attempts[j]
      BY <2>1, <2>3, WireStep DEF Wire
    <3>3. email.status \in {"pending", "outcome_unknown"}
          /\ \A q \in Requests : q # r => request[q].step = "idle"
      BY <2>1
    <3> QED
      BY <2>1, <3>1, <3>2, <3>3
  <2> QED
    BY <1>6, <2>2, <2>3 DEF CallProvider
<1>7. ASSUME NEW k \in DOMAIN attempts, ProviderDecides(k)
      PROVE  EmailInv'
  <2>1. PICK w \in {"accepted", "rejected"} : attempts' = [attempts EXCEPT ![k].wire = w]
    BY <1>7 DEF ProviderDecides
  <2>2. k = Len(attempts) /\ attempts[k].wire = "offered"
    BY <1>7 DEF ProviderDecides
  <2>3. /\ Len(attempts') = Len(attempts) /\ DOMAIN attempts' = DOMAIN attempts
        /\ \A j \in DOMAIN attempts : j # k => attempts'[j] = attempts[j]
    BY <2>1, WireStep DEF Wire
  <2> QED
    BY <1>7, <2>2, <2>3 DEF ProviderDecides
<1>8. ASSUME NEW r \in Requests, ProviderAnswers(r)
      PROVE  EmailInv'
  <2>1. PICK o \in {Learned(attempts[request[r].attempt].wire), "outcome_unknown"} :
          GoesTo(r, "finishing", o)
    BY <1>8 DEF ProviderAnswers
  <2>2. request[r].step = "answering" /\ UNCHANGED <<links, email, attempts>>
    BY <1>8 DEF ProviderAnswers
  <2>3. /\ o \in Outcome
        /\ o = "failed" => attempts[Len(attempts)].wire = "rejected"
        /\ o = "sent" => attempts[Len(attempts)].wire = "accepted"
    BY <2>2 DEF Learned, Outcome
  <2>4. /\ request'[r] = [step |-> "finishing", attempt |-> request[r].attempt, outcome |-> o]
        /\ \A q \in Requests : q # r => request'[q] = request[q]
    BY <2>1, <2>3, RequestStep DEF Step
  <2> QED
    BY <2>2, <2>3, <2>4
<1>9. ASSUME NEW r \in Requests, FinishEmail(r)
      PROVE  EmailInv'
  <2>1. /\ request[r].step = "finishing" /\ UNCHANGED <<links, attempts>>
        /\ email' = [email EXCEPT !.status = request[r].outcome, !.leaseOver = FALSE]
    BY <1>9 DEF FinishEmail, Recorded
  <2>2. /\ request[r].outcome \in Outcome
        /\ email'.status = request[r].outcome /\ email'.link = email.link
    BY <2>1 DEF Request, Email
  <2>3. \A q \in Requests : request'[q].step = "idle"
    BY <1>9 DEF FinishEmail, Idle
  <2> QED
    BY <2>1, <2>2, <2>3 DEF Outcome
<1>10. ASSUME NEW r \in Requests, Crash(r)
       PROVE  EmailInv'
  BY <1>10 DEF Crash, Idle
<1>11. CASE LeaseExpires
  BY <1>11 DEF LeaseExpires
<1>12. CASE RecoverStalePending
  BY <1>12 DEF RecoverStalePending
<1> QED
  BY <1>1, <1>2, <1>3, <1>4, <1>5, <1>6, <1>7, <1>8, <1>9, <1>10, <1>11, <1>12
  DEF DeliveryNext


-----------------------------------------------------------------------------
(* Revisions, and what a sent showing rests on                             *)

\* An edit adds the link of the chain that its document needs; a deleted report
\* takes its chain with it.
LEMMA LifecycleRevisions ==
  ASSUME LifecycleTypeOK, ReportFacts, HistoryFacts, RevisionsFormAChain, LifecycleNext
  PROVE  RevisionsFormAChain'
<1> USE LifecycleAssumption DEF LifecycleTypeOK, ReportIds, RevisionsFormAChain
<1>1. CASE UNCHANGED <<report, revisions>>
  BY <1>1
<1>2. ASSUME NEW ch \in Chains, CommitDraft(ch) \/ ReprocessShowing(ch)
      PROVE  RevisionsFormAChain'
  <2>1. ASSUME NEW i \in ReportIds
        PROVE  \/ revisions'[i] = <<>>
               \/ revisions'[i] = revisions[i] /\ report'[i] = report[i]
    <3>1. CASE report[i].status = "pending_review"
      BY <1>2, <3>1 DEF CommitDraft, StoreDraft, ReprocessShowing, DiscardReports,
                    DeletePending, RemainingRevisions
    <3>2. CASE report[i].status # "pending_review"
      <4>1. revisions'[i] = revisions[i]
        BY <1>2, <3>2 DEF CommitDraft, StoreDraft, ReprocessShowing, DiscardReports,
                      DeletePending, RemainingRevisions
      <4>2. CASE i = last + 1
        <5>1. report[i].status = "absent"
          BY <4>2, PresentReport
        <5> QED
          BY <4>1, <5>1 DEF HistoryFacts
      <4>3. CASE i # last + 1
        BY <1>2, <3>2, <4>1, <4>3 DEF CommitDraft, StoreDraft, ReprocessShowing,
                      DiscardReports, DeletePending
      <4> QED
        BY <4>2, <4>3
    <3> QED
      BY <3>1, <3>2
  <2>2. ASSUME NEW i \in ReportIds
        PROVE  LET n == Len(revisions'[i]) IN
                 /\ \A k \in 1..(n - 1) : revisions'[i][k].new = revisions'[i][k + 1].previous
                 /\ n > 0 => revisions'[i][n].new = report'[i].content
    <3>1. CASE revisions'[i] = <<>>
      BY <3>1
    <3>2. CASE revisions'[i] = revisions[i] /\ report'[i] = report[i]
      BY <3>2
    <3> QED
      BY <2>1, <3>1, <3>2
  <2> QED
    BY <2>2
<1>3. ASSUME NEW i \in ReportIds, NEW c \in Contents, UpdateReport(i, c)
      PROVE  RevisionsFormAChain'
  <2> DEFINE rev == [previous |-> report[i].content, new |-> c]
             s == revisions[i]
  <2>1. /\ rev \in Revision /\ s \in Seq(Revision)
        /\ Edited(c).content = c
    BY <1>3 DEF UpdateReport, ReportFacts, Revision, Edited, Confirmed, Pending
  <2>2. /\ report' = [report EXCEPT ![i] = Edited(c)]
        /\ revisions' = [revisions EXCEPT ![i] = Append(s, rev)]
    BY <1>3 DEF UpdateReport
  <2>3. /\ rev.previous = report[i].content /\ rev.new = c
    OBVIOUS
  <2>4. /\ \A k \in 1..(Len(s) - 1) : s[k].new = s[k + 1].previous
        /\ Len(s) > 0 => s[Len(s)].new = report[i].content
    OBVIOUS
  <2> DEFINE t == Append(s, rev)
  <2> HIDE DEF rev, s
  <2>5. /\ Len(t) = Len(s) + 1 /\ Len(s) \in Nat
        /\ \A k \in 1..Len(s) : t[k] = s[k]
        /\ t[Len(s) + 1] = rev
    BY <2>1, AppendFacts
  <2>6. revisions'[i] = t /\ report'[i].content = c
    BY <2>1, <2>2
  <2> HIDE DEF t
  <2>7. /\ \A k \in 1..(Len(t) - 1) : t[k].new = t[k + 1].previous
        /\ t[Len(t)].new = c
    <3>1. ASSUME NEW k \in 1..Len(s)
          PROVE  t[k].new = t[k + 1].previous
      <4>1. CASE k = Len(s)
        BY <2>3, <2>4, <2>5, <4>1
      <4>2. CASE k # Len(s)
        <5>1. k \in 1..(Len(s) - 1) /\ k + 1 \in 1..Len(s)
          BY <2>5, <4>2
        <5>2. t[k] = s[k] /\ t[k + 1] = s[k + 1]
          BY <2>5, <5>1
        <5> QED
          BY <2>4, <5>1, <5>2
      <4> QED
        BY <4>1, <4>2
    <3> QED
      BY <2>3, <2>5, <3>1
  <2>8. ASSUME NEW j \in ReportIds, j # i
        PROVE  revisions'[j] = revisions[j] /\ report'[j] = report[j]
    BY <2>2, <2>8
  <2>9. ASSUME NEW j \in ReportIds
        PROVE  LET n == Len(revisions'[j]) IN
                 /\ \A k \in 1..(n - 1) : revisions'[j][k].new = revisions'[j][k + 1].previous
                 /\ n > 0 => revisions'[j][n].new = report'[j].content
    <3>1. CASE j = i
      BY <2>6, <2>7, <3>1
    <3>2. CASE j # i
      <4>1. revisions'[j] = revisions[j] /\ report'[j] = report[j]
        BY <2>8, <3>2
      <4> QED
        BY <4>1
    <3> QED
      BY <3>1, <3>2
  <2> QED
    BY <2>9
<1>4. CASE ConfirmShowing
  <2>1. ASSUME NEW j \in ReportIds
        PROVE  report'[j].content = report[j].content
    BY <1>4 DEF ConfirmShowing, Confirmed
  <2> QED
    BY <1>4, <2>1 DEF ConfirmShowing
<1> QED
  BY <1>1, <1>2, <1>3, <1>4, LifecycleCases

\* A showing becomes sent together with a link-only row or an accepted e-mail,
\* and neither of the two is ever taken back.
LEMMA SentStep ==
  ASSUME TypeOK, EmailInv, SentHasADelivery, Next
  PROVE  SentHasADelivery'
<1> USE DEF SentHasADelivery
<1>1. CASE LifecycleNext /\ UNCHANGED deliveryVars
  BY <1>1, LifecycleCases
  DEF deliveryVars, CommitDraft, StoreDraft, ReprocessShowing, DiscardReports, UpdateReport,
      ConfirmShowing
<1>2. CASE UNCHANGED <<visit, linkSent, email>>
  BY <1>2
<1>3. CASE SendLinkOnly
  BY <1>3 DEF SendLinkOnly
<1>4. ASSUME NEW r \in Requests, SendEmail(r) \/ RetryEmail(r)
      PROVE  SentHasADelivery'
  BY <1>4 DEF SendEmail, RetryEmail, Deliverable, lifecycleVars
<1>5. ASSUME NEW r \in Requests, FinishEmail(r)
      PROVE  SentHasADelivery'
  <2>1. /\ email.status # "sent" /\ UNCHANGED linkSent
        /\ email'.status = request[r].outcome
        /\ visit' = IF request[r].outcome = "sent" THEN "sent_to_client" ELSE visit
    BY <1>5 DEF FinishEmail, Recorded, EmailInv, RequestFacts, TypeOK, Email
  <2> QED
    BY <2>1
<1>6. CASE LeaseExpires \/ RecoverStalePending
  BY <1>6 DEF LeaseExpires, RecoverStalePending, lifecycleVars
<1> QED
  BY <1>1, <1>2, <1>3, <1>4, <1>5, <1>6
  DEF Next, DeliveryNext, CreateShareLink, RevokeShareLink, RenderPdf, CallProvider,
      ProviderDecides, ProviderAnswers, Crash, lifecycleVars

-----------------------------------------------------------------------------
(* The inductive invariant and what follows from it                        *)

\* IInv holds initially.
LEMMA InitIInv == Init => IInv
<1> SUFFICES ASSUME Init PROVE IInv
  OBVIOUS
<1>1. TypeOK
  BY InitTypes
<1>2. ReportFacts /\ HistoryFacts /\ RevisionsFormAChain
  BY LifecycleAssumption
  DEF Init, LifecycleInit, ReportFacts, HistoryFacts, RevisionsFormAChain, Absent
<1>3. EmailInv /\ LinkInv /\ SentHasADelivery
  BY DEF Init, LifecycleInit, EmailInv, EmailFacts, RequestFacts, LinkInv,
         SentHasADelivery, Idle
<1> QED
  BY <1>1, <1>2, <1>3 DEF IInv

\* Every step keeps it.
LEMMA StepIInv == IInv /\ [Next]_vars => IInv'
<1> SUFFICES ASSUME IInv, [Next]_vars PROVE IInv'
  OBVIOUS
<1> USE DEF IInv
<1>1. CASE LifecycleNext /\ UNCHANGED deliveryVars
  <2>1. LifecycleTypeOK
    BY DEF TypeOK
  <2>2. TypeOK'
    BY <1>1, <2>1, LifecycleTypes DEF TypeOK, deliveryVars
  <2>3. ReportFacts' /\ HistoryFacts' /\ RevisionsFormAChain'
    BY <1>1, <2>1, LifecycleFacts, LifecycleRevisions
  <2>4. EmailInv'
    BY <1>1 DEF EmailInv, EmailFacts, RequestFacts, deliveryVars
  <2>5. LinkInv' /\ SentHasADelivery'
    BY <1>1, LifecycleLinks, SentStep DEF Next
  <2> QED
    BY <2>2, <2>3, <2>4, <2>5
<1>2. CASE DeliveryNext
  <2>1. TypeOK' /\ EmailInv'
    BY <1>2, DeliveryTypes, DeliveryEmail DEF EmailInv
  <2>2. ReportFacts' /\ HistoryFacts' /\ RevisionsFormAChain'
    BY <1>2, DeliveryFrame DEF ReportFacts, HistoryFacts, RevisionsFormAChain
  <2>3. LinkInv' /\ SentHasADelivery'
    BY <1>2, DeliveryLinks, SentStep DEF Next, EmailInv
  <2> QED
    BY <2>1, <2>2, <2>3
<1>3. CASE UNCHANGED vars
  BY <1>3 DEF vars, lifecycleVars, deliveryVars, TypeOK, LifecycleTypeOK, ReportFacts,
              HistoryFacts, RevisionsFormAChain, EmailInv, EmailFacts, RequestFacts,
              LinkInv, SentHasADelivery
<1> QED
  BY <1>1, <1>2, <1>3 DEF Next

THEOREM Invariance == Spec => []IInv
  BY InitIInv, StepIInv, PTL DEF Spec

\* Every reachable state has the declared types.
THEOREM TypeCorrectness == Spec => []TypeOK
<1>1. IInv => TypeOK
  BY DEF IInv
<1> QED
  BY <1>1, Invariance, PTL

\* The provider accepts at most one e-mail for a showing.
THEOREM NoSecondEmail == Spec => []AtMostOneEmail
<1>1. IInv => AtMostOneEmail
  BY DEF IInv, TypeOK, EmailInv, EmailFacts, AtMostOneEmail
<1> QED
  BY <1>1, Invariance, PTL

\* "sent" and "failed", once recorded, are true and stay true.
THEOREM TruthfulOutcome == Spec => []RecordedOutcomeIsTrue
<1>1. IInv => RecordedOutcomeIsTrue
  BY DEF IInv, TypeOK, EmailInv, EmailFacts, RecordedOutcomeIsTrue
<1> QED
  BY <1>1, Invariance, PTL

\* Requests work on the e-mail one at a time and on its newest attempt, so a
\* late outcome cannot overwrite that of a newer attempt.
THEOREM OneAttempt == Spec => []OneAttemptInFlight
<1>1. IInv => OneAttemptInFlight
  BY DEF IInv, EmailInv, RequestFacts, OneAttemptInFlight
<1> QED
  BY <1>1, Invariance, PTL

\* The revisions of a report form one chain that ends in its document.
THEOREM LinearHistory == Spec => []RevisionsFormAChain
<1>1. IInv => RevisionsFormAChain
  BY DEF IInv
<1> QED
  BY <1>1, Invariance, PTL

\* Every link leads to a confirmed report rendered from its current document.
THEOREM LinksAreCurrent == Spec => []LinksLeadToCurrentReports
<1>1. ASSUME IInv, NEW l \in DOMAIN links
      PROVE  links[l].report \in ReportIds
  <2>1. links \in Seq(Link)
    BY <1>1 DEF IInv, TypeOK
  <2>2. links[l] \in Link
    BY <2>1
  <2> QED
    BY <2>2 DEF Link
<1>2. IInv => LinksLeadToCurrentReports
  BY <1>1 DEF IInv, LinkInv, ReportFacts, LinksLeadToCurrentReports
<1> QED
  BY <1>2, Invariance, PTL

\* A sent showing has a link-only delivery or an e-mail recorded as sent.
THEOREM SentIsDelivered == Spec => []SentHasADelivery
<1>1. IInv => SentHasADelivery
  BY DEF IInv
<1> QED
  BY <1>1, Invariance, PTL

\* What a link of a sent showing leads to is frozen: no edit, confirmation or
\* processing run that is still under way changes it.
THEOREM SentIsFrozen == Spec => SentReportsAreFrozen
<1> DEFINE Frozen ==
      visit = "sent_to_client" =>
        /\ visit' = "sent_to_client"
        /\ \A l \in DOMAIN links :
             /\ report'[links[l].report] = report[links[l].report]
             /\ revisions'[links[l].report] = revisions[links[l].report]
<1>1. ASSUME IInv, [Next]_vars, visit = "sent_to_client"
      PROVE  Frozen
  <2>1. CASE UNCHANGED <<report, revisions, visit>>
    BY <2>1
  <2>2. ASSUME NEW ch \in Chains, CommitDraft(ch)
        PROVE  Frozen
    <3>1. links \in Seq(Link) /\ LifecycleTypeOK /\ LinkInv /\ ReportFacts
      BY <1>1 DEF IInv, TypeOK
    <3>2. ASSUME NEW l \in DOMAIN links
          PROVE  /\ links[l].report \in ReportIds /\ links[l].report # last + 1
                 /\ report[links[l].report].status = "confirmed"
      <4>1. links[l] \in Link
        BY <3>1
      <4>2. links[l].report \in ReportIds
        BY <4>1 DEF Link
      <4>3. report[links[l].report].status = "confirmed"
        BY <3>1 DEF LinkInv
      <4> QED
        BY <3>1, <4>2, <4>3, PresentReport
    <3> QED
      BY <1>1, <2>2, <3>1, <3>2
      DEF CommitDraft, StoreDraft, DeletePending, RemainingRevisions, LifecycleTypeOK
  <2>3. CASE DeliveryNext
    BY <1>1, <2>3, DeliveryFrame
  <2> QED
    BY <1>1, <2>1, <2>2, <2>3, LifecycleCases
    DEF Next, ReprocessShowing, DiscardReports, Startable, UpdateReport, ConfirmShowing,
        Editable, vars,
        lifecycleVars
<1>2. IInv /\ [Next]_vars => [Frozen]_vars
  BY <1>1
<1> QED
  BY <1>2, Invariance, PTL DEF Spec, SentReportsAreFrozen

-----------------------------------------------------------------------------
(* The service implements the one-e-mail promise                           *)

Arrived == {k \in DOMAIN attempts : attempts[k].wire = "accepted"}

\* The first transaction of an attempt is a Try: nothing has arrived, and the
\* new attempt is not on the wire.
LEMMA BeginAttemptIsTry ==
  ASSUME TypeOK, EmailInv, NEW r \in Requests, NEW link \in LinkIds, last # 0,
         BeginAttempt(r, link), email.status \in {"none", "failed"}
  PROVE  Promise!Try
<1> USE DEF TypeOK, EmailInv, EmailFacts
<1> DEFINE a == [pdf |-> report[last].shows, wire |-> "none"]
<1>1. a \in Attempt
  <2>1. last \in ReportIds /\ report[last] \in Report
    BY NewestReport
  <2> QED
    BY <2>1 DEF Attempt, Report, Wire
<1>2. a.wire = "none" /\ attempts' = Append(attempts, a)
  BY DEF BeginAttempt
<1> HIDE DEF a
<1>3. \A k \in DOMAIN attempts : attempts[k].wire \in {"none", "rejected"}
  OBVIOUS
<1>4. Arrived = {} /\ Arrived' = {}
  BY <1>1, <1>2, <1>3, AppendFacts DEF Arrived
<1>5. email'.status = "pending"
  BY DEF BeginAttempt
<1> QED
  BY <1>4, <1>5 DEF Promise!Try, Arrived

\* Every step of the service is a step of the promise or leaves it alone.
LEMMA StepIsPromised == IInv /\ [Next]_vars => [Promise!Next]_(Promise!outcomeVars)
<1> SUFFICES ASSUME IInv, [Next]_vars
             PROVE  Promise!Next \/ UNCHANGED <<email.status, Arrived>>
  BY DEF Promise!outcomeVars, Arrived
<1> USE DEF IInv, TypeOK
<1>1. CASE UNCHANGED <<email.status, attempts>>
  BY <1>1 DEF Arrived
<1>2. ASSUME NEW r \in Requests, SendEmail(r)
      PROVE  Promise!Next
  <2>1. Len(links) + 1 \in LinkIds /\ last # 0
    BY <1>2, NewLinkFacts DEF SendEmail, Deliverable
  <2> QED
    BY <1>2, <2>1, BeginAttemptIsTry DEF SendEmail, Promise!Next
<1>3. ASSUME NEW r \in Requests, RetryEmail(r)
      PROVE  Promise!Next
  <2>1. email.link \in LinkIds /\ last # 0
    BY <1>3, DeliveryAssumption
    DEF RetryEmail, Retryable, Deliverable, EmailInv, EmailFacts, LinkIds
  <2> QED
    BY <1>3, <2>1, BeginAttemptIsTry DEF RetryEmail, Retryable, Promise!Next
<1>4. ASSUME NEW k \in DOMAIN attempts, ProviderDecides(k)
      PROVE  Promise!Next \/ UNCHANGED <<email.status, Arrived>>
  <2>1. PICK w \in {"accepted", "rejected"} : attempts' = [attempts EXCEPT ![k].wire = w]
    BY <1>4 DEF ProviderDecides
  <2>2. /\ Len(attempts') = Len(attempts) /\ DOMAIN attempts' = DOMAIN attempts
        /\ attempts'[k].wire = w
        /\ \A j \in DOMAIN attempts : j # k => attempts'[j] = attempts[j]
    BY <2>1, WireStep DEF Wire, EmailInv
  <2>3. /\ k = Len(attempts) /\ attempts[k].wire = "offered" /\ UNCHANGED email
        /\ email.status \in {"pending", "outcome_unknown"}
    BY <1>4 DEF ProviderDecides, EmailInv, EmailFacts, Email, SendStatus
  <2>4. Arrived = {}
    BY <2>3 DEF Arrived, EmailInv, EmailFacts
  <2>5. CASE w = "accepted"
    <3>1. Arrived' = {k}
      BY <2>2, <2>4, <2>5 DEF Arrived
    <3> QED
      BY <2>3, <2>4, <3>1 DEF Promise!Next, Promise!Arrive, Arrived
  <2>6. CASE w = "rejected"
    <3>1. Arrived' = {}
      BY <2>2, <2>4, <2>6 DEF Arrived
    <3> QED
      BY <2>3, <2>4, <3>1
  <2> QED
    BY <2>5, <2>6
<1>5. ASSUME NEW r \in Requests, FinishEmail(r)
      PROVE  Promise!Next
  <2>1. /\ request[r].outcome \in Outcome /\ UNCHANGED attempts
        /\ email'.status = request[r].outcome
        /\ email.status \in {"pending", "outcome_unknown"}
    BY <1>5 DEF FinishEmail, Recorded, Request, Email, EmailInv, RequestFacts
  <2>2. /\ request[r].outcome = "failed" =>
             \A k \in DOMAIN attempts : attempts[k].wire # "accepted"
        /\ request[r].outcome = "sent" =>
             Len(attempts) \in DOMAIN attempts /\ attempts[Len(attempts)].wire = "accepted"
    BY <1>5, <2>1 DEF FinishEmail, EmailInv, EmailFacts, RequestFacts
  <2> QED
    BY <2>1, <2>2 DEF Promise!Next, Promise!Settle, Outcome
<1>6. CASE LeaseExpires
  BY <1>6 DEF LeaseExpires, Email, Arrived
<1>7. CASE RecoverStalePending
  BY <1>7 DEF RecoverStalePending, Email, Promise!Next, Promise!Settle
<1>8. ASSUME NEW r \in Requests, CallProvider(r)
      PROVE  UNCHANGED <<email.status, Arrived>>
  <2>1. CASE UNCHANGED attempts
    BY <1>8, <2>1 DEF CallProvider, Arrived
  <2>2. CASE attempts' = [attempts EXCEPT ![request[r].attempt].wire = "offered"]
    <3>1. /\ request[r].attempt = Len(attempts) /\ Len(attempts) \in DOMAIN attempts
          /\ attempts[Len(attempts)].wire = "none"
      BY <1>8 DEF CallProvider, EmailInv, EmailFacts, RequestFacts
    <3>2. /\ Len(attempts') = Len(attempts) /\ DOMAIN attempts' = DOMAIN attempts
          /\ attempts'[Len(attempts)].wire = "offered"
          /\ \A j \in DOMAIN attempts : j # Len(attempts) => attempts'[j] = attempts[j]
      BY <2>2, <3>1, WireStep DEF Wire, EmailInv
    <3> QED
      BY <1>8, <3>1, <3>2 DEF CallProvider, Arrived
  <2> QED
    BY <1>8, <2>1, <2>2 DEF CallProvider
<1> QED
  BY <1>1, <1>2, <1>3, <1>4, <1>5, <1>6, <1>7, <1>8
  DEF Next, DeliveryNext, CreateShareLink, RevokeShareLink, SendLinkOnly, RenderPdf,
      ProviderAnswers, Crash, vars, deliveryVars

\* The delivery service, with its retries, leases, crashes and overlapping
\* requests, implements EmailOutcome.
THEOREM KeepsTheEmailPromise == Spec => OneEmailPromise
<1>1. Init => Promise!Init
  BY DEF Init, Promise!Init
<1> QED
  BY <1>1, StepIsPromised, Invariance, PTL DEF Spec, OneEmailPromise, Promise!Spec

-----------------------------------------------------------------------------
(* The agent's review, when processing is not started again                *)

\* At most one chain is under way, and none once there is a report, so that nothing
\* arrives behind the review: a showing that left "draft" has a report, no
\* sensitive observation to review and no report that waits for confirmation.
ReviewInv ==
  /\ \A j, k \in Chains : chain[j] # "idle" /\ chain[k] # "idle" => j = k
  /\ last # 0 => \A k \in Chains : chain[k] = "idle"
  /\ visit # "draft" => last # 0 /\ \A i \in ReportIds : report[i].status # "pending_review"
  /\ \A i \in ReportIds : report[i].status = "pending_review" => i = last
  /\ SensitiveReviewed

\* The steps of the review and of the chain keep it.
LEMMA LifecycleReview ==
  ASSUME ~Refinish, LifecycleTypeOK, ReportFacts, ReviewInv, LifecycleNext PROVE ReviewInv'
<1> USE LifecycleAssumption DEF LifecycleTypeOK, ReviewInv, SensitiveReviewed
<1>1. ASSUME NEW k \in Chains, FinishShowing(k) PROVE ReviewInv'
  BY <1>1 DEF FinishShowing, Startable
<1>2. ASSUME NEW k \in Chains, ReprocessShowing(k) PROVE ReviewInv'
  <2>1. /\ visit = "draft" /\ visit' = "draft" /\ last' = 0
        /\ \A j \in Chains : chain[j] = "idle"
        /\ \A j \in Chains : j # k => chain'[j] = "idle"
    BY <1>2 DEF ReprocessShowing, DiscardReports, Startable
  <2>2. \A i \in ReportIds : report'[i].status # "pending_review"
    BY <1>2 DEF ReprocessShowing, DiscardReports, DeletePending, Absent
  <2> QED
    BY <2>1, <2>2
<1>3. ASSUME NEW k \in Chains, ExtractObservations(k) PROVE ReviewInv'
  <2>1. /\ UNCHANGED <<visit, report, last>> /\ chain[k] = "extracting"
        /\ chain' = [chain EXCEPT ![k] = "extracted"]
    BY <1>3 DEF ExtractObservations, StoreObservations
  <2> QED
    BY <2>1
<1>4. ASSUME NEW k \in Chains, BeginDraft(k) PROVE ReviewInv'
  BY <1>4 DEF BeginDraft
<1>5. ASSUME NEW k \in Chains, CommitDraft(k) PROVE ReviewInv'
  <2>1. /\ chain[k] = "drafting" /\ last' = last + 1 /\ UNCHANGED <<visit, obs>>
        /\ chain' = [chain EXCEPT ![k] = "idle"]
    BY <1>5 DEF CommitDraft, StoreDraft
  <2>2. \A i \in ReportIds : report'[i].status = "pending_review" => i = last'
    BY <1>5 DEF CommitDraft, StoreDraft, DeletePending, Absent
  <2>3. last = 0 /\ visit = "draft" /\ \A j \in Chains : chain'[j] = "idle"
    BY <2>1
  <2> QED
    BY <2>1, <2>2, <2>3
<1>6. ASSUME NEW k \in Chains, ChainGoesOn(k) \/ ChainStops(k) PROVE ReviewInv'
  BY <1>6 DEF ChainGoesOn, ChainStops
<1>7. ASSUME NEW o \in Obs, AssessObservation(o) \/ EditObservation(o) \/ AddObservation(o)
      PROVE  ReviewInv'
  BY <1>7 DEF AssessObservation, EditObservation, AddObservation
<1>8. CASE AttachSubject
  BY <1>8 DEF AttachSubject
<1>9. ASSUME NEW i \in ReportIds, NEW c \in Contents, UpdateReport(i, c) PROVE ReviewInv'
  <2>1. /\ UNCHANGED <<visit, last, obs, chain>> /\ report' = [report EXCEPT ![i] = Edited(c)]
        /\ report[i].status # "absent" /\ visit # "sent_to_client"
    BY <1>9 DEF UpdateReport, Editable
  <2>2. visit # "draft" => visit = "confirmed"
    BY <2>1 DEF VisitStatus
  <2>3. visit = "draft" => report[i].status = "pending_review"
    BY <2>1 DEF ReportFacts, Report, ReportStatus
  <2> QED
    BY <2>1, <2>2, <2>3 DEF Edited, Pending, Confirmed
<1>10. CASE ConfirmShowing
  <2>1. /\ UNCHANGED <<last, obs, chain>> /\ last # 0 /\ ReviewComplete
        /\ report' = [report EXCEPT ![last] = Confirmed(report[last].content)]
    BY <1>10 DEF ConfirmShowing
  <2>2. \A i \in ReportIds : report'[i].status # "pending_review"
    BY <2>1 DEF Confirmed
  <2> QED
    BY <2>1, <2>2 DEF ReviewComplete
<1> QED
  BY <1>1, <1>2, <1>3, <1>4, <1>5, <1>6, <1>7, <1>8, <1>9, <1>10 DEF LifecycleNext

\* A delivery leaves reports, observations and chains alone, and sends no draft.
LEMMA DeliveryReview ==
  ASSUME IInv, ReviewInv, DeliveryNext PROVE ReviewInv'
<1>1. UNCHANGED <<report, last, obs, chain>> /\ (visit = "draft" => visit' = "draft")
  <2>1. CASE SendLinkOnly
    BY <2>1 DEF SendLinkOnly, Deliverable
  <2>2. ASSUME NEW r \in Requests, FinishEmail(r)
        PROVE  UNCHANGED <<report, last, obs, chain>> /\ visit # "draft"
    BY <2>2 DEF FinishEmail, IInv, EmailInv, RequestFacts, EmailFacts, LinkInv
  <2>3. CASE UNCHANGED lifecycleVars
    BY <2>3 DEF lifecycleVars
  <2>4. ASSUME NEW r \in Requests,
               SendEmail(r) \/ RetryEmail(r) \/ RenderPdf(r) \/ CallProvider(r)
                 \/ ProviderAnswers(r) \/ Crash(r)
        PROVE  UNCHANGED lifecycleVars
    BY <2>4 DEF SendEmail, RetryEmail, RenderPdf, CallProvider, ProviderAnswers, Crash
  <2> QED
    BY <2>1, <2>2, <2>3, <2>4
    DEF DeliveryNext, CreateShareLink, RevokeShareLink, ProviderDecides, LeaseExpires,
        RecoverStalePending
<1> QED
  BY <1>1 DEF ReviewInv, SensitiveReviewed

LEMMA StepReview == ASSUME ~Refinish, IInv, ReviewInv, [Next]_vars PROVE ReviewInv'
<1>1. CASE UNCHANGED vars
  BY <1>1 DEF vars, lifecycleVars, ReviewInv, SensitiveReviewed
<1>2. CASE LifecycleNext
  BY <1>2, LifecycleReview DEF IInv, TypeOK
<1>3. CASE DeliveryNext
  BY <1>3, DeliveryReview
<1> QED
  BY <1>1, <1>2, <1>3 DEF Next

LEMMA ReviewInvariance == ASSUME ~Refinish PROVE Spec => []ReviewInv
<1>1. Init => ReviewInv
  BY DEF Init, LifecycleInit, Absent, ReviewInv, SensitiveReviewed
<1>2. IInv /\ ReviewInv /\ [Next]_vars => ReviewInv'
  BY StepReview
<1> QED
  BY <1>1, <1>2, Invariance, PTL DEF Spec

\* As long as processing is not started again over a report, a confirmed showing
\* has no sensitive observation that the agent did not review (confirm_showing).
THEOREM SensitiveAreReviewed == ~Refinish => (Spec => []SensitiveReviewed)
<1> SUFFICES ASSUME ~Refinish PROVE Spec => []SensitiveReviewed
  OBVIOUS
<1>1. ReviewInv => SensitiveReviewed
  BY DEF ReviewInv
<1> QED
  BY <1>1, ReviewInvariance, PTL

\* And a report becomes confirmed by that confirmation alone, never by an edit
\* (confirm_showing, update_report).
THEOREM AgentConfirms == ~Refinish => (Spec => OnlyTheAgentConfirms)
<1> SUFFICES ASSUME ~Refinish PROVE Spec => OnlyTheAgentConfirms
  OBVIOUS
<1> DEFINE ByTheAgent ==
      \A i \in ReportIds :
        report[i].status = "pending_review" /\ report'[i].status = "confirmed"
          => ReviewComplete /\ i = last /\ visit' = "confirmed" /\ UNCHANGED revisions
<1>1. ASSUME IInv, ReviewInv, [Next]_vars PROVE [ByTheAgent]_vars
  <2> SUFFICES ASSUME NEW i \in ReportIds, report[i].status = "pending_review",
                      report'[i].status = "confirmed"
               PROVE  ReviewComplete /\ i = last /\ visit' = "confirmed"
                      /\ UNCHANGED revisions
    OBVIOUS
  <2> USE <1>1
  <2>1. report \in [ReportIds -> Report] /\ report' # report
    BY DEF IInv, TypeOK, LifecycleTypeOK
  <2>2. i = last /\ visit = "draft"
    BY DEF ReviewInv
  <2>3. LifecycleNext
    <3>1. CASE DeliveryNext
      BY <2>1, <3>1 DEF DeliveryNext, CreateShareLink, RevokeShareLink, SendLinkOnly,
        SendEmail, RetryEmail, RenderPdf, CallProvider, ProviderAnswers, FinishEmail, Crash,
        ProviderDecides, LeaseExpires, RecoverStalePending, lifecycleVars
    <3> QED
      BY <2>1, <3>1 DEF Next, vars, lifecycleVars
  <2>4. ASSUME NEW k \in Chains, CommitDraft(k) \/ ReprocessShowing(k) PROVE FALSE
    BY <2>1, <2>4 DEF CommitDraft, StoreDraft, ReprocessShowing, DiscardReports, Pending,
                  DeletePending, Absent
  <2>5. ASSUME NEW j \in ReportIds, NEW c \in Contents, UpdateReport(j, c) PROVE FALSE
    BY <2>1, <2>2, <2>5 DEF UpdateReport, Edited, Pending
  <2>6. CASE ConfirmShowing
    BY <2>2, <2>6 DEF ConfirmShowing
  <2> QED
    BY <2>1, <2>3, <2>4, <2>5, <2>6, LifecycleCases
<1> QED
  BY <1>1, Invariance, ReviewInvariance, PTL DEF Spec, OnlyTheAgentConfirms

=============================================================================
