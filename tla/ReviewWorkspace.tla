--------------------------- MODULE ReviewWorkspace ---------------------------
(***************************************************************************)
(* The dashboard's showing page as the place of the review: the cached     *)
(* showing, the observation cards with their optimistic review, the        *)
(* transcript, the property panel, the processing banner and the guard of  *)
(* the confirm button (showing-workspace.tsx).  The document itself is in  *)
(* ReportWorkspace.                                                        *)
(*                                                                         *)
(* A request is carried out in one step and answered in another; it or its *)
(* answer may be lost.                                                     *)
(***************************************************************************)
EXTENDS Naturals, FiniteSets

CONSTANTS
  NoRows,     \* no answer, nothing kept
  Obs,        \* observations the showing may have
  Sensitive,  \* those that must be reviewed
  MaxPressed  \* bound: requests the agent makes

VARIABLES
  db,       \* the rows of the showing
  own,      \* its observations that the agent wrote (source_type)
  view,     \* the state of the page
  net,      \* its requests under way
  pressed,  \* how many it has made
  want,     \* history: what the last button pressed on a card asks for
  loose     \* history: cards whose requests may overtake each other

reviewVars == <<db, own, view, net, pressed, want, loose>>

\* The processing that failed had written no observations ("failed"), or only
\* its report was missing ("unwritten").
Processing == {"extracting", "generating", "failed", "unwritten", "ready"}

Status == {"absent", "pending", "confirmed", "edited", "dismissed", "deleted"}
ShowingRows == [property : BOOLEAN, processing : Processing, report : BOOLEAN,
                confirmed : BOOLEAN, obs : [Obs -> Status]]

Drawn(rows) == {o \in Obs : rows.obs[o] \notin {"absent", "deleted"}}
Failed(rows) == rows.processing \in {"failed", "unwritten"}

CardOps == {"confirmed", "dismissed", "edited"}  \* named for what they leave
ReviewOps == CardOps \cup {"get", "add", "correct", "attach", "reprocess", "confirm"}
NoObs == "none"

\* `attached`: the component that made the request is still mounted.  A review
\* and a confirmation remember the cache they were made from (`before`), a fetch
\* and a refused confirmation the rows that were found.
ReviewRequests == [op : ReviewOps, o : Obs \cup {NoObs}, attached : BOOLEAN,
                   before : ShowingRows \cup {NoRows},
                   answer : {"none", "ok", "invalid", "refused"},
                   found : ShowingRows \cup {NoRows}]

ReviewTypeOK ==
  /\ db \in ShowingRows
  /\ own \subseteq Obs
  /\ view \in [cache : ShowingRows, failed : BOOLEAN, confirmError : BOOLEAN,
               tab : {"report", "observations", "transcript"}, editing : SUBSET Obs]
  /\ net \subseteq ReviewRequests
  /\ pressed \in 0..MaxPressed
  /\ want \in [Obs -> CardOps \cup {NoObs}]
  /\ loose \subseteq Obs

\* The page opens on a draft that was processed or whose processing failed, the
\* first time or again.
ReviewInit ==
  /\ \E located \in BOOLEAN, p \in {"failed", "ready"}, s \in {"absent", "pending", "edited"} :
       /\ p = "ready" => s = "pending"
       /\ db = [property |-> located, processing |-> p, report |-> s # "absent",
                confirmed |-> FALSE, obs |-> [o \in Obs |-> s]]
       /\ own = IF s = "edited" THEN Obs ELSE {}
  /\ view = [cache |-> db, failed |-> FALSE, confirmError |-> FALSE,
             tab |-> "report", editing |-> {}]
  /\ net = {}
  /\ pressed = 0
  /\ want = [o \in Obs |-> NoObs]
  /\ loose = {}

AskFor(op, o) ==
  [op |-> op, o |-> o, attached |-> TRUE,
   before |-> IF op \in {"confirmed", "dismissed", "confirm"} THEN view.cache ELSE NoRows,
   answer |-> "none", found |-> NoRows]

UnderWay(op, o) == \E r \in net : r.op = op /\ r.o = o /\ r.attached
Reviewing(o) == UnderWay("confirmed", o) \/ UnderWay("dismissed", o)

Shown(t) == ~view.failed /\ view.tab = t
Draft == ~view.cache.confirmed

PressButton(requests) ==
  /\ pressed < MaxPressed
  /\ pressed' = pressed + 1
  /\ net' = requests
  /\ UNCHANGED <<db, own>>

Forgotten == {o \in Obs : \E r \in net : r.o = o /\ ~r.attached}

\* Cards that are not drawn any more and what else is unmounted (ops): their open
\* editors are closed, the pending flags of their requests forgotten.
Redraw(v, requests, gone, ops) ==
  /\ view' = [v EXCEPT !.editing = @ \ gone]
  /\ net' = {IF r.o \in gone \/ r.op \in ops THEN [r EXCEPT !.attached = FALSE] ELSE r :
               r \in requests}

\* The page after a change of its cache; the error page takes the place of all but
\* the confirmation, a property that of its panel.
Draw(v, requests) ==
  IF v.failed THEN Redraw(v, requests, Obs, {"add", "correct", "attach", "reprocess"})
  ELSE Redraw(v, requests, Obs \ Drawn(v.cache), IF v.cache.property THEN {"attach"} ELSE {})

-----------------------------------------------------------------------------
(* What the agent does.                                                    *)

\* The query runs on focus, every 3 s while processing, from the error page.
FetchShowing ==
  /\ ~UnderWay("get", NoObs)
  /\ PressButton(net \cup {AskFor("get", NoObs)})
  /\ UNCHANGED <<view, want, loose>>

\* Another tab, or the evidence of a card or bullet.
SwitchTab(t) ==
  /\ ~view.failed /\ t # view.tab
  /\ Redraw([view EXCEPT !.tab = t], net, Obs, {"add", "correct"})
  /\ loose' = loose \cup Forgotten'
  /\ UNCHANGED <<db, own, pressed, want>>

\* ObservationCard, not being edited, of a draft, not dismissed.
CardOpen(o) ==
  /\ Shown("observations") /\ Draft
  /\ o \notin view.editing
  /\ o \in Drawn(view.cache) /\ view.cache.obs[o] # "dismissed"

\* A review and an edit of one card are not held back by each other.
Beside(o, ops) ==
  loose' = IF \E r \in net : r.o = o /\ r.op \in ops THEN loose \cup {o} ELSE loose

\* Fault: the cache takes the name of the action, not of its outcome.
OptimisticAction(o, status) ==
  [view EXCEPT !.cache.obs[o] = IF status = "confirmed" THEN "confirm" ELSE "dismiss"]

Optimistic(o, status) == [view EXCEPT !.cache.obs[o] = status]

\* Fault: the buttons stay enabled while a review of the card is under way.
ReviewAnyTime(o, status) ==
  /\ CardOpen(o)
  /\ status = "confirmed" => view.cache.obs[o] \in {"pending", "confirmed"}
  /\ PressButton({r \in net : r.op # "get"} \cup {AskFor(status, o)})
  /\ view' = Optimistic(o, status)
  /\ want' = [want EXCEPT ![o] = status]
  /\ Beside(o, {"edited"})

\* review: a fetch under way is cancelled, the cache shows the outcome at once.
ReviewCard(o, status) ==
  /\ CardOpen(o)
  /\ ~Reviewing(o)
  /\ status = "confirmed" => view.cache.obs[o] = "pending"
  /\ PressButton({r \in net : r.op # "get"} \cup {AskFor(status, o)})
  /\ view' = Optimistic(o, status)
  /\ want' = [want EXCEPT ![o] = status]
  /\ Beside(o, {"edited"})

EditCard(o) ==
  /\ CardOpen(o)
  /\ view' = [view EXCEPT !.editing = @ \cup {o}]
  /\ UNCHANGED <<db, own, net, pressed, want, loose>>

CancelEdit(o) ==
  /\ Shown("observations") /\ o \in view.editing
  /\ view' = [view EXCEPT !.editing = @ \ {o}]
  /\ UNCHANGED <<db, own, net, pressed, want, loose>>

\* update, from the open editor; applyRewrite, from a bullet of the report, which
\* no rewrite under way holds back.
SaveCard(o) ==
  /\ \/ Shown("observations") /\ o \in view.editing /\ ~UnderWay("edited", o)
     \/ Shown("report") /\ view.cache.report /\ Draft /\ o \in Sensitive \cap Drawn(view.cache)
  /\ PressButton(net \cup {AskFor("edited", o)})
  /\ want' = [want EXCEPT ![o] = "edited"]
  /\ Beside(o, CardOps)
  /\ UNCHANGED view

\* The other buttons; each is disabled while its request is under way.
PressOther(op) ==
  /\ ~UnderWay(op, NoObs)
  /\ PressButton(net \cup {AskFor(op, NoObs)})
  /\ UNCHANGED <<view, want, loose>>

AddObservation == Shown("observations") /\ Draft /\ PressOther("add")

CorrectTranscript == Shown("transcript") /\ Draft /\ PressOther("correct")

AttachProperty == ~view.failed /\ ~view.cache.property /\ PressOther("attach")

ReprocessShowing == ~view.failed /\ Failed(view.cache) /\ PressOther("reprocess")

SomeReviewed(r) == \E o \in Obs : r.obs[o] \in {"confirmed", "edited"}
NoneSensitivePending(r) == \A o \in Sensitive : r.obs[o] # "pending"

\* Fault: as the phone's canConfirm, a dismissed observation is a reviewed one.
ReadyWhenDismissed(r) ==
  /\ r.property
  /\ \E o \in Obs : r.obs[o] \in {"confirmed", "edited", "dismissed"}
  /\ NoneSensitivePending(r)

\* confirmReasons, apart from an earlier refusal.
ReadyToConfirm(r) == r.property /\ SomeReviewed(r) /\ NoneSensitivePending(r)

ConfirmReport ==
  /\ Shown("report") /\ view.cache.report /\ Draft
  /\ ~UnderWay("confirm", NoObs)
  /\ ReadyToConfirm(view.cache) /\ ~view.confirmError
  /\ PressButton(net \cup {AskFor("confirm", NoObs)})
  /\ UNCHANGED <<view, want, loose>>

-----------------------------------------------------------------------------
(* The server carries a request out.                                       *)

\* A run that failed before its observations were written starts with none of an
\* earlier one but those that the agent wrote.
Reprocessed ==
  IF db.processing = "unwritten"
  THEN [db EXCEPT !.processing = "generating", !.report = FALSE]
  ELSE [db EXCEPT !.processing = "extracting", !.report = FALSE,
                  !.obs = [o \in Obs |-> IF o \in Drawn(db) \ own THEN "deleted" ELSE @[o]]]

\* The confirmation checks for itself.
Accepts(rows) ==
  rows.report /\ rows.property /\ SomeReviewed(rows) /\ NoneSensitivePending(rows)

\* What each handler leaves.  The document that a confirmation saves first is in
\* ReportWorkspace.
After(r) ==
  CASE r.op \in CardOps /\ r.o \in Drawn(db) -> {[db EXCEPT !.obs[r.o] = r.op]}
    [] r.op = "add" -> {[db EXCEPT !.obs[o] = "edited"] :
                          o \in {x \in Obs \ Sensitive : db.obs[x] = "absent"}} \cup {db}
    [] r.op = "attach" -> {[db EXCEPT !.property = TRUE]}
    [] r.op = "reprocess" /\ Failed(db) /\ ~db.confirmed -> {Reprocessed}
    [] r.op = "confirm" /\ Accepts(db) -> {[db EXCEPT !.confirmed = TRUE]}
    [] OTHER -> {db}

Wrote(r) == {o \in Obs : \/ r.op = "edited" /\ r.o = o /\ o \in Drawn(db)
                         \/ r.op = "add" /\ db'.obs[o] # db.obs[o]}

ReviewAnswer(r) ==
  CASE \/ r.op \in CardOps /\ r.o \notin Drawn(db)
       \/ r.op = "reprocess" /\ (db.confirmed \/ db.processing = "ready")
       \/ r.op = "confirm" /\ ~db.report -> "refused"
    [] r.op = "confirm" /\ db.report /\ ~Accepts(db) -> "invalid"
    [] OTHER -> "ok"

ServeReview(r) ==
  /\ r.answer = "none"
  /\ db' \in After(r)
  /\ own' = own \cup Wrote(r)
  /\ net' = (net \ {r}) \cup {[r EXCEPT !.answer = ReviewAnswer(r),
                       !.found = IF r.op \in {"get", "confirm"} THEN db ELSE NoRows]}
  /\ UNCHANGED <<view, pressed, want, loose>>

\* The processing (Pipeline), one run after another: it finds observations or
\* none, then writes the report, or it fails.
Process(rows) ==
  /\ db' = rows
  /\ UNCHANGED <<own, view, net, pressed, want, loose>>

ExtractObservations ==
  /\ db.processing = "extracting"
  /\ \E new \in SUBSET {o \in Obs : db.obs[o] = "absent"} :
       Process([db EXCEPT !.processing = "generating",
                          !.obs = [o \in Obs |-> IF o \in new THEN "pending" ELSE @[o]]])

WriteReport ==
  /\ db.processing = "generating"
  /\ Process([db EXCEPT !.processing = "ready", !.report = TRUE])

RunFails ==
  /\ db.processing \in {"extracting", "generating"}
  /\ Process([db EXCEPT !.processing = IF @ = "extracting" THEN "failed" ELSE "unwritten"])

\* The phone ends the showing again: another run, beside what the earlier one left.
FinishAgain ==
  /\ ~db.confirmed
  /\ Process([db EXCEPT !.processing = "extracting"])

-----------------------------------------------------------------------------
(* The page is answered.                                                   *)

Invalidates == {"add", "correct", "reprocess", "confirm"}

\* onSuccess: a card puts its observation in the cache, a fetch replaces it, the
\* panel merges the property, the others fetch again.
Shows(r) ==
  CASE r.op = "get" -> [view EXCEPT !.cache = r.found, !.failed = FALSE]
    [] r.op \in CardOps ->
         [view EXCEPT !.cache.obs[r.o] = IF r.o \in Drawn(view.cache) THEN r.op ELSE @,
                      !.editing = IF r.op = "edited" /\ r.attached THEN @ \ {r.o} ELSE @]
    [] r.op = "attach" -> [view EXCEPT !.cache.property = TRUE, !.confirmError = FALSE]
    [] r.op = "confirm" -> [view EXCEPT !.confirmError = FALSE]
    [] OTHER -> view

Succeeds(r) ==
  /\ r.answer = "ok"
  /\ Draw(Shows(r), IF r.op \in Invalidates
                    THEN {q \in net \ {r} : q.op # "get"} \cup {AskFor("get", NoObs)}
                    ELSE net \ {r})
  /\ loose' = loose \cup Forgotten'
  /\ UNCHANGED <<db, own, pressed, want>>

\* onError, also when the request or its answer is lost: a review puts the whole
\* cache back as it was, a failed fetch shows the error page, and only a 422 of
\* the confirmation stays on the page.
Fails(r) ==
  /\ Draw(IF r.op \in {"confirmed", "dismissed"}
          THEN [view EXCEPT !.cache = r.before]
          ELSE [view EXCEPT !.failed = @ \/ r.op = "get",
                            !.confirmError = @ \/ r.answer = "invalid"],
          net \ {r})
  /\ loose' = loose \cup Forgotten' \cup ({r.o} \ {NoObs})
  /\ UNCHANGED <<db, own, pressed, want>>

ReviewNext ==
  \/ FetchShowing \/ ConfirmReport
  \/ ExtractObservations \/ WriteReport \/ RunFails \/ FinishAgain
  \/ \E t \in {"report", "observations", "transcript"} : SwitchTab(t)
  \/ \E o \in Obs : \/ EditCard(o) \/ CancelEdit(o) \/ SaveCard(o)
                    \/ \E s \in {"confirmed", "dismissed"} : ReviewCard(o, s)
  \/ AddObservation \/ CorrectTranscript \/ AttachProperty \/ ReprocessShowing
  \/ \E r \in net : ServeReview(r) \/ Succeeds(r) \/ Fails(r)

ReviewSpec == ReviewInit /\ [][ReviewNext]_reviewVars

-----------------------------------------------------------------------------
\* The last button pressed on a card is what the server keeps once the card's
\* requests are answered, unless reprocessing deleted the observation, which it never
\* does to one that the agent wrote.  Requests of one card overtake each other only
\* if the card was unmounted meanwhile, an edit was saved beside a review, or one
\* failed.
LastReviewWins ==
  \A o \in Obs \ loose :
    want[o] # NoObs /\ (\A r \in net : r.o # o)
    => \/ db.obs[o] = want[o]
       \/ db.obs[o] = "deleted" /\ want[o] # "edited"

\* The page offers a confirmation exactly under the conditions the server checks: a
\* refusal means that the rows had changed since the page fetched them.
RefusedOnlyWhenStale ==
  \A r \in net :
    r.op = "confirm" /\ r.answer \in {"invalid", "refused"} => r.before # r.found

=============================================================================
