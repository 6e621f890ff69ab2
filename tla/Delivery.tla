------------------------------ MODULE Delivery ------------------------------
(***************************************************************************)
(* Delivering a confirmed report (backend delivery service): private share  *)
(* links, the link-only send, and the e-mail send, which commits a pending  *)
(* row, renders the PDF and calls the provider outside any transaction,     *)
(* and records the outcome in a second one.  Requests overlap, workers die  *)
(* at any point, the provider may accept a message whose answer is lost,    *)
(* and an attempt that outlives its lease is quarantined.                  *)
(***************************************************************************)
EXTENDS ReportLifecycle

CONSTANTS
  Requests,     \* concurrent POST .../send (e-mail) requests
  MaxAttempts,  \* bound: e-mail attempts, over all retries
  MaxLinks      \* bound: share links

ASSUME DeliveryAssumption ==
  /\ MaxAttempts \in Nat
  /\ MaxLinks \in Nat

VARIABLES
  links,      \* report_share_links, in order of creation
  email,      \* status, link and lease of the showing's e-mail report_sends row
  linkSent,   \* TRUE once a link_only report_sends row exists
  attempts,   \* every attempt: the PDF rendered for it, what became of it
  request     \* each request: its step, its attempt, the outcome it will record

deliveryVars == <<links, email, linkSent, attempts, request>>
vars == <<lifecycleVars, deliveryVars>>

SendStatus == {"none", "pending", "sent", "failed", "outcome_unknown"}
Outcome == {"sent", "failed", "outcome_unknown"}

\* "none": not handed over (yet); "offered": the provider may still decide.
Wire == {"none", "offered", "accepted", "rejected"}

\* idle -> rendering -> calling -> answering -> finishing -> idle
Step == {"idle", "rendering", "calling", "answering", "finishing"}

LinkIds == 1..MaxLinks
AttemptIds == 1..MaxAttempts
Link == [report : ReportIds, live : BOOLEAN]
Email == [status : SendStatus, link : 0..MaxLinks, leaseOver : BOOLEAN]
Attempt == [pdf : Contents \cup {NoContent}, wire : Wire]
Request == [step : Step, attempt : 0..MaxAttempts, outcome : Outcome]

Idle == [step |-> "idle", attempt |-> 0, outcome |-> "outcome_unknown"]

TypeOK ==
  /\ LifecycleTypeOK
  /\ links \in Seq(Link) /\ Len(links) <= MaxLinks
  /\ email \in Email
  /\ linkSent \in BOOLEAN
  /\ attempts \in Seq(Attempt) /\ Len(attempts) <= MaxAttempts
  /\ request \in [Requests -> Request]

Init ==
  /\ LifecycleInit
  /\ links = <<>>
  /\ email = [status |-> "none", link |-> 0, leaseOver |-> FALSE]
  /\ linkSent = FALSE
  /\ attempts = <<>>
  /\ request = [r \in Requests |-> Idle]

-----------------------------------------------------------------------------
(* Links                                                                   *)

\* _require_confirmed_report, for a showing in one of the allowed states.
Deliverable(allowed) ==
  /\ last # 0
  /\ visit \in allowed
  /\ report[last].status = "confirmed"

\* _new_share_link
NewShareLink ==
  /\ Len(links) < MaxLinks
  /\ links' = Append(links, [report |-> last, live |-> TRUE])

CreateShareLink ==
  /\ Deliverable({"confirmed", "sent_to_client"})
  /\ NewShareLink
  /\ UNCHANGED <<lifecycleVars, email, linkSent, attempts, request>>

\* revoke_share_link takes no lock and never looks at the sends.
RevokeShareLink(l) ==
  /\ links[l].live
  /\ links' = [links EXCEPT ![l].live = FALSE]
  /\ UNCHANGED <<lifecycleVars, email, linkSent, attempts, request>>

\* get_public_report serves the link.
Served(l) ==
  /\ links[l].live
  /\ report[links[l].report].status = "confirmed"
  /\ report[links[l].report].shows # NoContent

\* _send_link_only: a new link, a "sent" row and the end of the showing's
\* editable life, whatever an e-mail attempt is doing meanwhile.
SendLinkOnly ==
  /\ Deliverable({"confirmed"})
  /\ NewShareLink
  /\ linkSent' = TRUE
  /\ visit' = "sent_to_client"
  /\ UNCHANGED <<subject, report, last, revisions, obs, chain, failed,
                 email, attempts, request>>

-----------------------------------------------------------------------------
(* The e-mail attempt                                                      *)

\* The first transaction of _send_email gives the request a pending row.  The
\* report stays loaded in the session: the PDF is rendered from this snapshot.
BeginAttempt(r, link) ==
  /\ Len(attempts) < MaxAttempts
  /\ email' = [status |-> "pending", link |-> link, leaseOver |-> FALSE]
  /\ attempts' = Append(attempts, [pdf |-> report[last].shows, wire |-> "none"])
  /\ request' = [request EXCEPT ![r] =
       [step |-> "rendering", attempt |-> Len(attempts) + 1,
        outcome |-> "outcome_unknown"]]

\* No e-mail row yet: a link and a row are created.
SendEmail(r) ==
  /\ request[r].step = "idle"
  /\ Deliverable({"confirmed"})
  /\ email.status = "none"
  /\ NewShareLink
  /\ BeginAttempt(r, Len(links) + 1)
  /\ UNCHANGED <<lifecycleVars, linkSent>>

\* Fault: an unknown outcome can be retried.
RetryableUnknown == email.status \in {"failed", "outcome_unknown"}

\* Fault: a pending attempt does not block another one.
RetryablePending == email.status \in {"failed", "pending"}

\* A row exists: "sent", "pending" and "outcome_unknown" refuse.
Retryable == email.status = "failed"

\* The retry reuses the row and its link, which must still be active.
RetryEmail(r) ==
  /\ request[r].step = "idle"
  /\ Deliverable({"confirmed"})
  /\ Retryable
  /\ links[email.link].live
  /\ BeginAttempt(r, email.link)
  /\ UNCHANGED <<lifecycleVars, links, linkSent>>

\* Request r moves to another step, with the outcome it would record.
GoesTo(r, step, outcome) ==
  request' = [request EXCEPT
    ![r] = [step |-> step, attempt |-> @.attempt, outcome |-> outcome]]

\* render_pdf of the snapshot; if it raises, "failed" is recorded.
RenderPdf(r) ==
  /\ request[r].step = "rendering"
  /\ \/ GoesTo(r, "calling", "outcome_unknown")
     \/ GoesTo(r, "finishing", "failed")
  /\ UNCHANGED <<lifecycleVars, links, email, linkSent, attempts>>

\* EmailProvider.send: no connection is a definitive failure; otherwise the
\* message is on the wire.
CallProvider(r) ==
  /\ request[r].step = "calling"
  /\ \/ /\ GoesTo(r, "finishing", "failed")
        /\ UNCHANGED attempts
     \/ /\ GoesTo(r, "answering", "outcome_unknown")
        /\ attempts' = [attempts EXCEPT ![request[r].attempt].wire = "offered"]
  /\ UNCHANGED <<lifecycleVars, links, email, linkSent>>

\* The provider decides, at any time, whether or not anyone still waits.
ProviderDecides(k) ==
  /\ attempts[k].wire = "offered"
  /\ \E w \in {"accepted", "rejected"} : attempts' = [attempts EXCEPT ![k].wire = w]
  /\ UNCHANGED <<lifecycleVars, links, email, linkSent, request>>

\* Fault: a timeout counts as a failure.
LearnedTimeoutIsFailure(w) == IF w = "accepted" THEN "sent" ELSE "failed"

\* What an answer tells the caller; a timeout or a lost answer tells nothing.
Learned(w) == CASE w = "accepted" -> "sent"
                [] w = "rejected" -> "failed"
                [] OTHER -> "outcome_unknown"

\* send returns, raises a classified EmailDeliveryError, or times out.
ProviderAnswers(r) ==
  /\ request[r].step = "answering"
  /\ \E o \in {Learned(attempts[request[r].attempt].wire), "outcome_unknown"} :
       GoesTo(r, "finishing", o)
  /\ UNCHANGED <<lifecycleVars, links, email, linkSent, attempts>>

\* The row's status is set without looking at it again.  (The lease is read
\* only while a row is pending; it is cleared with that status.)
Recorded(r) == [email EXCEPT !.status = request[r].outcome, !.leaseOver = FALSE]

\* Fault: the showing is closed whatever the outcome.
FinishEmailAlwaysSent(r) ==
  /\ request[r].step = "finishing"
  /\ email' = Recorded(r)
  /\ visit' = "sent_to_client"
  /\ request' = [request EXCEPT ![r] = Idle]
  /\ UNCHANGED <<subject, report, last, revisions, obs, chain, failed,
                 links, linkSent, attempts>>

\* _finish_email
FinishEmail(r) ==
  /\ request[r].step = "finishing"
  /\ email' = Recorded(r)
  /\ visit' = IF request[r].outcome = "sent" THEN "sent_to_client" ELSE visit
  /\ request' = [request EXCEPT ![r] = Idle]
  /\ UNCHANGED <<subject, report, last, revisions, obs, chain, failed,
                 links, linkSent, attempts>>

\* The API process dies: the request is gone, what it committed stays.
Crash(r) ==
  /\ request[r].step # "idle"
  /\ request' = [request EXCEPT ![r] = Idle]
  /\ UNCHANGED <<lifecycleVars, links, email, linkSent, attempts>>

\* email_pending_lease_seconds pass.  Nothing bounds an attempt by its lease.
LeaseExpires ==
  /\ email.status = "pending"
  /\ ~email.leaseOver
  /\ email' = [email EXCEPT !.leaseOver = TRUE]
  /\ UNCHANGED <<lifecycleVars, links, linkSent, attempts, request>>

\* Fault: a stale attempt is released for a retry.
RecoverAsFailed ==
  /\ email.status = "pending"
  /\ email.leaseOver
  /\ email' = [email EXCEPT !.status = "failed", !.leaseOver = FALSE]
  /\ UNCHANGED <<lifecycleVars, links, linkSent, attempts, request>>

\* Fault: only another send request recovers a stale attempt.
RecoverOnSendOnly ==
  /\ Deliverable({"confirmed"})
  /\ email.status = "pending"
  /\ email.leaseOver
  /\ email' = [email EXCEPT !.status = "outcome_unknown", !.leaseOver = FALSE]
  /\ UNCHANGED <<lifecycleVars, links, linkSent, attempts, request>>

\* _recover_stale_pending, from get_delivery or from another send request.
RecoverStalePending ==
  /\ email.status = "pending"
  /\ email.leaseOver
  /\ email' = [email EXCEPT !.status = "outcome_unknown", !.leaseOver = FALSE]
  /\ UNCHANGED <<lifecycleVars, links, linkSent, attempts, request>>

DeliveryNext ==
  \/ CreateShareLink
  \/ \E l \in DOMAIN links : RevokeShareLink(l)
  \/ SendLinkOnly
  \/ \E r \in Requests :
       \/ SendEmail(r) \/ RetryEmail(r) \/ RenderPdf(r) \/ CallProvider(r)
       \/ ProviderAnswers(r) \/ FinishEmail(r) \/ Crash(r)
  \/ \E k \in DOMAIN attempts : ProviderDecides(k)
  \/ LeaseExpires
  \/ RecoverStalePending

Next ==
  \/ LifecycleNext /\ UNCHANGED deliveryVars
  \/ DeliveryNext

Spec == Init /\ [][Next]_vars

-----------------------------------------------------------------------------
(* Properties                                                              *)

\* Whatever is lost, retried or quarantined, the client gets the e-mail once
\* (delivery.py: "cannot create a second email or link").
AtMostOneEmail ==
  \A j, k \in DOMAIN attempts :
    attempts[j].wire = "accepted" /\ attempts[k].wire = "accepted" => j = k

\* A recorded certainty is true for good: "sent" was accepted; after "failed"
\* no attempt was accepted and none can still be (so a retry is safe).
RecordedOutcomeIsTrue ==
  /\ email.status = "sent" => \E k \in DOMAIN attempts : attempts[k].wire = "accepted"
  /\ email.status = "failed" =>
       \A k \in DOMAIN attempts : attempts[k].wire \in {"none", "rejected"}

\* Two requests never work on the e-mail at once, and the one that does works
\* on the newest attempt: a late outcome never overwrites a newer attempt's.
OneAttemptInFlight ==
  \A r \in Requests :
    request[r].step # "idle" =>
      /\ request[r].attempt = Len(attempts)
      /\ email.status \in {"pending", "outcome_unknown"}
      /\ \A q \in Requests \ {r} : request[q].step = "idle"

\* The edits of a report form one chain from each document to the next, and
\* end in the document the row holds.
RevisionsFormAChain ==
  \A i \in ReportIds :
    LET n == Len(revisions[i]) IN
      /\ \A k \in 1..(n - 1) : revisions[i][k].new = revisions[i][k + 1].previous
      /\ n > 0 => revisions[i][n].new = report[i].content

\* A link, once handed out, leads to a confirmed report rendered from its
\* current document, through every later edit and processing run.
LinksLeadToCurrentReports ==
  \A l \in DOMAIN links :
    LET rep == report[links[l].report] IN
      rep.status = "confirmed" /\ rep.shows = rep.content

\* A showing is sent to the client only with a delivery to show for it.
SentHasADelivery == visit = "sent_to_client" => linkSent \/ email.status = "sent"

\* No sensitive observation is left unreviewed in a confirmed showing.
SensitiveReviewed ==
  visit # "draft" => \A o \in SensitiveObs : obs[o] # "pending"

\* A report that a link of a sent showing leads to never changes again.
SentReportsAreFrozen ==
  [][visit = "sent_to_client" =>
       /\ visit' = "sent_to_client"
       /\ \A l \in DOMAIN links :
            /\ report'[links[l].report] = report[links[l].report]
            /\ revisions'[links[l].report] = revisions[links[l].report]]_vars

\* A report becomes confirmed only by confirm_showing, on the agent's review:
\* "AI output is never sendable without explicit agent confirmation"
\* (docs/Homean_Build_Plan_v1.md:60-61).
OnlyTheAgentConfirms ==
  [][\A i \in ReportIds :
       report[i].status = "pending_review" /\ report'[i].status = "confirmed"
         => ReviewComplete /\ i = last /\ visit' = "confirmed" /\ UNCHANGED revisions]_vars

\* The PDF that was mailed is the report as it stands once the showing is sent:
\* "rendering/sending always uses the latest committed content"
\* (backend/app/services/delivery.py:463-464).
SentPdfIsTheReport ==
  email.status = "sent" =>
    \A k \in DOMAIN attempts :
      attempts[k].wire = "accepted" => attempts[k].pdf = report[last].content

\* A pending e-mail does not stay pending, even if the worker died and the
\* showing was meanwhile sent by link.
PendingSettles == email.status = "pending" ~> email.status # "pending"

\* The service implements the one-e-mail promise.
Promise == INSTANCE EmailOutcome WITH
  row <- email.status,
  arrived <- {k \in DOMAIN attempts : attempts[k].wire = "accepted"}

OneEmailPromise == Promise!Spec

=============================================================================
