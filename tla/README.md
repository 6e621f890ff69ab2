# Homean: formal models

TLA+ modules, TLC configurations and TLAPS proofs about the Homean backend and
its clients: a real-estate agent records a showing on a phone, an AI pipeline
turns the recording into observations and a draft report, the agent reviews and
confirms it, and the client receives it by link or e-mail.

## The system

| Part | State it keeps | Operations | Hard behaviour |
|---|---|---|---|
| Capture API (`services/showings.py`) | `visits`, `raw_media`, `visit_markers` | create, update, presign, complete, marker, finish, reprocess | retries of lost calls, a finish repeated while a chain runs |
| Mobile store and sync (`mobile/src/storage`, `mobile/src/sync`, `App.tsx`) | SQLite rows of showings, media, voice tags; a generation counter | capture, sync, refresh | offline queue, lost answers, two sync runs, screens that write while a run is under way |
| Recording (`RecordingScreen.tsx`, `mobile/src/recording`) | recorder, recording session row, audio files | start/close segment, pause, resume, camera, end, recover | the app dies between file and row; buttons that overlap awaits |
| Phone session (`mobile/src/api/client.ts`, `mobile/src/auth`, `App.tsx`) | stored tokens and account, session generation, the screen | sign in, cold start, calls with a shared refresh, sign out, account deletion | answers that outlive the session they were asked in |
| Phone report screen (`ReportScreen.tsx`) | the detail it was drawn with | edit a bullet, dismiss, confirm | saves of an older copy of the whole document |
| Dashboard showing page (`showing-workspace.tsx`, `report-editor.tsx`, `lib/api.ts`) | query cache, copy under edit, optimistic reviews, links on offer | edit, save, confirm, review, share, revoke, send | refetches under an edit, answers out of order |
| Dashboard forms and lists (`new-showing-form.tsx`, `showings-dashboard.tsx`) | files and choices; pages and cursors | submit in a loop of requests; read pages | failure half-way; rows that come and go between pages |
| Dashboard session (`api/auth`, `api/backend`, `middleware.ts`) | two cookies | sign in, sign out, proxied calls with a refresh | an answer's cookies that come after another sign-in |
| AI pipeline (`services/pipeline.py`, `pipeline/tasks.py`) | `processing_status`, `processing_run_id`, `pipeline_runs`, transcripts, zones, observations, reports | four chained Celery steps, mark_failed | model calls of minutes between check and write, worker death, overlapping chains |
| Review (`services/review.py`) | observations, `reports`, `report_revisions`, `visits.status` | confirm/dismiss/edit/add observation, edit report, confirm showing | overlap with the pipeline and with delivery |
| Delivery (`services/delivery.py`, `email/provider.py`) | `report_share_links`, `report_sends` | links, link-only send, e-mail send, recovery | an e-mail provider outside any transaction, leases, crashes |
| Billing (`services/billing.py`) | the workspace's subscription row, processed Stripe events | checkout, webhooks | late, repeated, reordered and overlapping events; several subscriptions |
| Authentication (`services/auth.py`) | sessions and their refresh tokens | login, refresh, revoke | modelled as its two clients meet it |
| Rendering, prompts, other pages | none of their own | | layout and wording: not modelled |

`PROJECT.json` lists every component with its status, and every hazard at its
line with the properties that cover it.

## Modules

* `ReportLifecycle`: one showing's status, reports, revisions, observations and
  processing chains. Each review handler that touches a report locks the visit
  row, then the report row, in one transaction: one action each. Pipeline steps
  take no such lock and write after a model call, so drafting is `BeginDraft`
  (the check) and `CommitDraft` (the write). `failed` is
  `processing_status = "failed"`, the condition of `reprocess_showing`.
* `Delivery` extends it with links, the one e-mail row, the attempts and the
  requests working on them. A request goes through the steps of `_send_email`:
  `SendEmail`/`RetryEmail` (first transaction, commit at delivery.py:311),
  `RenderPdf`, `CallProvider`, `ProviderAnswers`, `FinishEmail` (second
  transaction); it can crash between any two. `ProviderDecides` is the provider,
  at any time after the message was offered, also when nobody waits any more.
* `EmailOutcome` is the promise without mechanism: one logical e-mail, at most
  one copy accepted, no false certainty recorded. `Delivery!Promise` maps the
  row's status and the set of accepted attempts to it.
* `Pipeline` is the processing of one showing in detail: `finish_showing` and
  `reprocess_showing` commit the row, then send the chain, which may be refused
  or lost (phase "committed"); a worker takes a task ("queued"), reads the row and
  looks up what is done, then works through its step ("working"), transcription
  medium by medium. Every step can fail (`StepFails` is `mark_failed`), be skipped
  as done, or die with its process (`ProcessDies`). A step's uncommitted UPDATE
  of the visit row would make other requests wait; here they commit first.
  `retried` (history) says that finish was accepted over earlier processing.
* `Showing` puts `Pipeline` and `Delivery` on the rows they share. The agent sees a
  task as one of the four places of a chain (`Phase`, `ChainSeen`), and `Seen` is
  `Delivery` with that in the place of its own chains; a step of the pipeline that
  writes reports or observations is the conjunction of both modules' views of it
  (`Reprocess`, `Extract`, `Generate`), and so is a confirmation.
* `CaptureApi` is the capture side of the showings service as a phone sees it,
  one transaction a request. `CaptureSync` extends it with the phone: the rows of
  SQLite (`showing`, `media`, `tags`) and refreshes that run the sync engine await
  by await and then copy the server's status (`App.tsx`). The answer of a
  request and the local write after it are one step: a death between them looks
  like a lost answer (`CreateLost`, `ItemLost`, `MarkLost`, `FinishLost`). The
  generation counter is the bit `fresh` of each refresh. Backoff is the bit
  `tried`: an attempt that failed may be deferred. `masked` (history) marks that a
  copied status hid queued work. Captures end with `Finish`: the recording
  screen is closed then (`Recording` has the exception).
* `ReportServer` is what the backend keeps of a showing's report as its two editors
  see it; a document is the set of edits in it, an edit knows the report it was typed
  for. `ReportWorkspace` is the dashboard as an editor (query cache, copy under
  edit, save, the two requests of a confirmation), `PhoneReport` the phone's report
  screen. `ReportEditing` puts both beside processing that replaces the draft.
* `ReviewWorkspace` is the same dashboard page as the place of the review: cards with
  an optimistic answer and a rollback, property, transcript, the processing banner,
  the guard of the confirm button, beside processing that may fail, be started again
  and delete what it found. `DeliveryPanel` is its panel of links and sends:
  the list last read, the box of a link just created, expiry on screen.
* `NewShowing` is the form for a recording made elsewhere; `SubmitForm` begins the
  coroutine `submit`, whose requests follow one by one. `ShowingsList` is the paged
  lists, and the page that reads all pages of a client's showings.
* `WebSession` is the browser's cookies, the auth routes and the proxy. A route works
  with the cookies of its request; what it sets arrives with its answer.
  `PhoneSession` is the phone's client await by await: sign-ins, cold start, calls,
  shared refreshes, sign-out, deletion. `current` and `loading` hold the callbacks
  whose captured generation is still the present one.
* `Recording` is the recording screen: `startSegment` and `finishShowing` as processes
  that may overlap, the recorder, the session row, recovery, the camera.
* `Billing` is one workspace's subscription: checkouts, the subscriptions they lead to
  at Stripe, and webhooks that ask Stripe, read the row and write it in turn.
* `Clients` puts the nine programs of the dashboard, the phone and billing side by side.
* `DeliveryProofs`, `ShowingProofs` (the pipeline and the whole showing),
  `CaptureSyncProofs`, `ReportEditingProofs`, `PhoneProofs`, `BillingProofs`,
  `DashboardProofs` and `ClientsProofs` hold the proofs; `MCDelivery`, `MCPipeline`, `MCShowing`,
  `MCCaptureSync` and `MCClients` the instances for TLC.

How they meet: `ReportLifecycle` sees the pipeline as chains that draft reports,
`CaptureApi` as a status that moves behind the phone's back; `Pipeline` is that
process itself, with media uploads and the confirmation as its surroundings. That the
two views allow everything the process does is not assumed but a property of the
composition: `ChainsAreAsAssumed` (`Showing` implements `Delivery`) and
`PhoneSeesProcessing` (a step of `Pipeline` is a step of `CaptureApi`, or none). The
clients' modules see the backend's handlers as single steps (their detail is in the
modules above), separate from the step in which the client hears of it.

What the client modules assume: a request whose failure the client was told is not
carried out later; the page or screen is not left and mounted again in between
(`ReportEditing` is one visit to each); operations on the phone's token store are
carried out in the order they were started; the clocks of client and server agree;
what is typed again after it was saved is another edit. Stripe's answer to a request
is the truth at that moment.

## Runs

| Run | Question | Result |
|---|---|---|
| `delivery` | With two overlapping requests, two attempts, two links, two reports and repeated processing: at most one e-mail, true outcomes, linear history, links to current and finally frozen reports, and the refinement | holds |
| `showing` | The pipeline's tasks and the agent's requests on the same rows: do they together do only what `Delivery` alone does, do their views agree, does only the agent's review confirm a report, does a pending e-mail settle? | holds, the parts about the agent's review unless finish was accepted over earlier work |
| `stale_pdf` | Does the mailed PDF show the report as sent? | violated: the PDF comes from the snapshot of the first transaction |
| `unconfirmed` | Is a report sendable only after confirm_showing? | violated: a chain overlapping the confirmation adds a draft, an edit makes it "confirmed" |
| `pipeline` | Two overlapping chains, failures everywhere, late media: is a ready showing complete, does a failed one resume without duplicates, does processing settle, does the phone see no more than `CaptureApi` says? | holds, the parts about one set of evidence unless finish was accepted again, settling unless a process died |
| `pipeline_duplicates` | Is evidence stored once? | violated: finish again after processing starts a run that knows nothing of the first |
| `pipeline_stuck` | Does processing end as ready or failed, if the agent insists? | violated: a death between commit and send, or between acknowledgement and work, leaves "queued", which finish and reprocess leave alone |
| `capture` | A recording, a photo that may be too large, a tag; lost requests and answers, expiring URLs, deaths: does processing begin with everything, does the end of the showing arrive? | holds; the end does not arrive if all audio counts as rejected |
| `capture_overlap` | Two engine runs under way: does work stay queued? | holds, unless a copied status hid the work |
| `capture_masked` | Is a showing with unsent work always in the sync queue? | violated: `App.tsx` writes a status from an earlier listing, without the generation |
| `clients` | Nine programs against the server's rows, with lost and late answers, restarts and deaths: does what is on a screen agree with what was stored? | holds, with the exceptions below |
| `capture_rejected` | Is a rejected capture absent from what the server processes? | violated: a lost `complete` answer, an expired URL, a 409 |

Delivery bounds: two requests are needed for overlap and two attempts for a retry;
two links for a link-only send next to an e-mail; two reports for a chain that
overlaps a confirmation; two edits for a chain of revisions; two documents to
tell an edit from its predecessor. `Refinish` says whether `finish_showing` may be
repeated: the mobile app retries it when its answer is lost.

Showing bounds: one medium, one task at a time and two runs are a first processing and a
repeated finish or a reprocessing; every draft is the same document (`Drafts`), and
edits make it another; one e-mail attempt beside two links. Two tasks that
overlap are in `pipeline` and `delivery`, and in the theorems for any number.

Pipeline bounds: two chains overlap; three runs (`MaxRuns`) are a first one, a
repeated finish and a reprocessing; two media show a partial transcription and a
medium uploaded after finish.

Capture bounds: one showing, since the engine handles them one after another and
they share no row. Two kinds of media and one tag exercise every loop; a second
refresh is what the overlap needs. `capture` has one refresh at a time, which
repeats for ever.

Clients bounds. The nine programs of `clients` share no state, so a behaviour is of
one of them (`program`) and the others stay as they began: the run is the union of
nine state spaces, not their product. Two reports tell an edit from the report it was
typed for; three requests are a save, another made meanwhile and a confirmation; one
edit of the dashboard and two of the phone, whose saves can overtake each other. Two
observations, one sensitive, and two buttons on a page that opens after processing
succeeded or failed, the first time or again: a card is changed twice, or reviewed or
confirmed beside a reprocessing. An audio file and another, and two showings: a submit, its failure and its
retry. Two links and three presses: create, revoke, create again. Three showings in
pages of one, two filters and four reads: a page in the middle, a change of filter
and back. Two proxied calls and two web sessions: an answer that overtakes a sign-in.
Two accounts, two sign-ins, one call, two refreshes, two sessions on the phone: a call
of the first account answered in the second's session, with one cold start. One
shot, two segments and one death at any await. Three subscriptions, four events and
two seconds: a subscription, its replacement and one more, with events that arrive in
reverse. Larger instances of single programs (three sessions, four presses, three
files, three buttons) were explored too.

What the properties of `clients` except, each a behaviour of the code that the model
has and the exception names:

* a bullet saved on the phone sends the whole document it was drawn with, and drops
  what the dashboard, or another save of the phone, stored meanwhile
  (`ReportScreen.tsx` 64);
* requests of one observation card may overtake each other when the card was unmounted
  meanwhile (another tab, the error page, a cache without it), an edit was saved beside
  a review, or one failed and the page put its snapshot back (`loose`);
* reprocessing a showing whose second processing failed deletes the observations that
  the agent confirmed or dismissed, and keeps those that the agent wrote;
* the box of a created link may outlive its revocation when the answer of the
  revocation was lost, or that of the creation came after it (`excused`);
* a file added to the form while submit runs is not in that showing, and a retry begins
  another showing;
* the cookies of a refresh the proxy made may arrive after another sign-in or a
  sign-out, and replace what it set (`overtaken`);
* two submits of the phone's sign-in form that overlap may store the account of one
  with the tokens of the other (`doubled`); and when the phone's database is slow to be
  erased after an account was deleted, the next account's screens close
  (`evicted`, `App.tsx` 120);
* End confirmed while a segment starts, or Resume while the showing ends, may lose
  a segment or queue it twice, and so may a start or an end that failed half-way
  (`rough`); a camera opened or cancelled at the wrong moment adds a photo to a
  showing that is ended (`rough.hurried`);
* events of one subscription in the same second are ordered by their names only
  (`Tied`); an `incomplete_expired` row is not replaced; and nothing is said after a
  checkout that was opened for an earlier state of the row was paid beside a live
  subscription, or a checkout took the row over while a webhook held an outdated
  status (`astray`).

Fairness. `Showing!FairShowingSpec`: a live process takes the next step of each request,
time passes (`LeaseExpires`), and the delivery panel is looked at again
(`RecoverStalePending`, from `get_delivery`). Nothing is assumed of the provider.
`Pipeline!FairSpec`: workers take and end the tasks that are queued, by success or
failure (model calls have timeouts); `InsistentSpec` adds an agent who calls finish
and reprocess as long as they do something. `CaptureSync!FairSpec`: the App's
15-second timer keeps refreshing, and some day nothing disturbs a refresh any more
(`Disturbs`: no network, lost requests, running backoff, expired URLs, deaths):
without such a day no phone can promise anything. `FinishArrives` is checked for
refreshes that do not overlap; two engine runs in lockstep can invalidate each
other's generation for ever.

The runs of Delivery, Pipeline, Showing and the clients set `CHECK_DEADLOCK FALSE`: a showing
that was sent (or confirmed), with all requests answered and all bounds used, has
nothing left to do, and so have a form that was left and a session that ended. A
phone that syncs always has: CaptureSync is checked for deadlock.

## Proofs

Each proof module states an inductive invariant for each specification it is about (`IInv`,
or named after the specification: `RecordingInv`), proves that it holds at the
beginning and that each action keeps it (one lemma per action or group of actions,
one step per conjunct it can disturb), and concludes the properties.

*Delivery.* Every safety property of the `delivery` run and the refinement, type
correctness, and for showings whose finish is not repeated that no sensitive
observation is passed over and only the agent confirms, are theorems for any number of requests,
attempts, links, chains, reports and edits. `IInv` adds the facts they rest on: no
attempt but the newest can have got through, a request that works on the e-mail works
alone and on the newest attempt while the row is unsettled, what it is about to
record agrees with the wire (`EmailInv`); confirmed reports are rendered from their
document and exist only once the showing left "draft" (`ReportFacts`); links lead to
confirmed reports (`LinkInv`). The refinement is a step simulation under `IInv`.
`ReviewInv` speaks only of showings whose processing is not started again: there is at
most one chain, and none once there is a report. Without it a chain may draft behind a
confirmation, as the run `unconfirmed` shows.

*Pipeline.* Every safety property of the `pipeline` run, for any media, any number of
chains and runs. `ReadyHasReport` rests on `ReportKept`: while the showing is a draft,
a successful report step of the current run means a report. The other four speak of
showings whose finish was not accepted again; for them `OnlyChain` is the invariant:
there is at most one task, it belongs to the row's run, what the steps before it
stored is there exactly once, what it and the later ones store is not (`Stored`), and
nothing later is recorded as done for this run. Without it, "failed" says nothing about
what reprocessing will find. `StartIsKnown` and `ReviewFollows` carry this beyond the
confirmation: a confirmed showing was processed once, and completely.
`PhoneSeesNoMore` goes through the actions one by one and says which step of
`CaptureApi` each is.

*Showing.* `SInv` joins the two inductive invariants by what ties the shared rows: the
pipeline's count of pending reports is the number of the agent's, all others are
confirmed, and a showing with a report that nobody retried has no task left.
`ShowingIsPipeline` and `ChainsAre` are two refinements, step by step: with the agent's
rows forgotten the composition is `Pipeline`, with the tasks mapped to chains it is
`Delivery`. So every theorem of either holds of the whole (`PipelineHolds`,
`DeliveryHolds`), and what neither can say alone follows: a pending report is the
newest (`PendingIsTheNewest`), and the agent's review is never passed over unless
finish was accepted over earlier processing (`SensitiveAreFirst`, `OnlyTheAgent`) -
for any number of chains, where `Delivery` had to exclude the repetition by a constant.

The refinements were false at first, and corrected the model: a chain that stops may
leave the showing failed or, if its report is found made, ready (`ChainStops`); a chain
that goes on clears an earlier failure (`ChainGoesOn`); a showing can be confirmed
again, and an edit can end a review as well, after a chain added a report to it
(`Pipeline!ConfirmShowing`, `Showing!Edit`); and what the phone sees can move
between running, ready and failed in any order once finish was repeated
(`CaptureApi!Process`).

*CaptureSync.* `TypeOK`, `WorkIsQueuedUnlessMasked` and `ProcessingHasEverything`, for
any captures, tags and number of refreshes that overlap. `RowFacts` is what a row lets
the phone conclude about the server, `ApiFacts` what is there once processing began,
and `Good` what a refresh knows at each await: the rows it listed (`Listed`), how far
its loops have come (`Reached`), whether its generation bit still speaks for the
row. Facts of one refresh survive the steps of others because everything but that bit
only grows (`Grows`). The exception `masked` cannot be left out: `capture_masked`.

*ReportEditing.* The three properties about the two editors, for every set of edits,
reports and requests. The page shows one report, never newer than the server's
(`PageFacts`); a fetch never goes back to an older report and a mutation carries what
is under edit (`WireFacts`); where acknowledged edits are is said separately for the
dashboard (`DeskFacts`), which is always right about its own, and for the phone,
which is right only while its saves are alone under way (`QuietFacts`).

*WebSession* (`DashboardProofs`). The cookies rest on their types: every answer that sets them is of the
last sign-in or says that it overtook it. A call takes effect once because only a
refused one is sent again (`Unsettled`).

*PhoneSession* (`PhoneProofs`). `Generations` is the heart: a sign-in can be in the present generation
only while no account is active, a call or a refresh only while one is. So a callback
that passes its assertion asks with the active account's token (`JobFacts`,
`RenewalFacts`), and a sign-in being stored finds its own tokens, or none
(`SignFacts`), unless another overlapped. The proof is what turned up the exception
`evicted`, which needs more sessions than the run has.

*Recording* (`PhoneProofs`). The two processes that close a segment meet in the session
row. Unless they overlap, it names the file the recorder writes to, and no process
clears it before that file is queued (`SessionFacts`); the row, the screen and the
process agree on the segment's offset, by which a second queueing is recognized
(`OffsetFacts`); while the segment of a life before is looked for, neither process runs
(`Recovering`). `ShotFacts` says that, unless hurried, the end begins after the last
shot. For any number of segments, shots and deaths. The types need bounds of their own
(`RecordingBounds`): no offset or elapsed time runs ahead of the files that were opened
(`Counted`), because a file is opened before its only tick (`Ticking`).

*Billing.* The newest event of a subscription is the one that counts: who handles it
asks Stripe after it and learns the final status. `Followed` says the row has its
subscription's status or the newest event is still to come (or tied); `Informed`, that
once the newest was passed over every webhook under way holds the final status;
`OneLive`, `Superseded` and `Coming`, that a live subscription other than the row's is
on its way to it. Two of the exceptions need five events, one more than the run
has, and were found by this proof. The types add that the row never takes a status from
an event that did not ask Stripe for it (`Limits`).

*NewShowing* (`DashboardProofs`). While submit runs, the list it closed over is the beginning of the list on
the screen (`SameList`), so the entry its index marks done is the file it has just
completed; `LoopInv` is the loop's invariant across its awaits.

*ShowingsList* (`DashboardProofs`). Pages that were read one after the other are
`Sound`: each is followed by a page below its cursor, so no cursor comes back, and what
matched when the first was read and has not moved since is in them, down to the last
cursor. Appending a page keeps this (`FurtherPage`), and a change of what matches only
lessens what is required. For any number of showings, page sizes and changes.

*DeliveryPanel* (`DashboardProofs`). What the panel read of a link is never ahead of the
server (`Behind`), requests are about links there are (`LinkFacts`), and a revoked link
in the box is excused or about to be emptied by the request that revoked it
(`BoxFacts`). It is the last that fails when the box survives a settled revocation.

*ReviewWorkspace* (`DashboardProofs`). A card that is not `loose` has at most one request
under way, which is what its last button asked for; once it was carried out nothing
older can follow (`CardFacts`), and only reprocessing undoes it, of an observation that
the agent did not write (`Done`). A confirmation was offered from rows that were ready,
so the server's refusal means other rows (`Proper`).

*Clients.* What the run `clients` assumes, that these programs can be checked side by
side, is `ClientsAreEach`: a step of one leaves the others' variables alone, so that a
behaviour of `Clients` is a behaviour of each of the nine specifications. Their
invariants then hold of the whole: its types (`ClientsAreTyped`, from the type
invariants within each inductive one) and its fourteen safety properties
(`ClientsAreSafe`), for every value of the constants.

The theorems assume the named assumptions of the modules (TLC evaluates them in each
run), or, for the clients' modules, the named conditions on constants in their
hypotheses (`SessionConstants`, `FormConstants`, `ListConstants`, `PanelConstants`,
`ReviewConstants`, that bounds are natural numbers, and all of them together in
`ClientsConstants`).

Model-checked only: liveness (`EmailSettles`, `SettlesUnlessWorkIsLost`,
`FinishArrives`), since fairness and ENABLED are out of the prover's reach, and the
violations. Every safety property of the passing runs is stated by a
theorem.

## Not modelled

* The evidence algorithms (`pipeline/marker_links.py`, `pipeline/photo_zones.py`):
  pure functions of timestamps, with unit tests; no other state depends on what they
  choose.
* Rendering, prompts, wording and layout. A rendering is the document it shows.
* The other pages of the dashboard (settings, clients, properties, comparison's view)
  and the marketing site: a form or a list over one request each. Branding, contacts
  and properties: single-row reads and writes in one transaction each.
* Passwords, token formats and their signatures; legacy cookie names; a query cache
  lost by a reload.
* Row locks one by one. A handler that locks the visit row and then the report row is
  one action; that the pipeline's DELETE takes them in the other order can deadlock,
  which the database resolves by failing one of them, as a failing step does here.
  For the same reason the two hazards about unlocked reads of the showing
  (`review.py` 40, `showings.py` 249) have no property: the rows they change are in no
  document of the model.
* In `Delivery`: recipients, expiry dates, view counts. In `ReportLifecycle`:
  transcript corrections and the checks of references in a document. In `CaptureApi`:
  payload conflicts and media without a client id. In `Pipeline`: usage metering,
  records of failed calls, and the placement of markers and photos.
* On the phone: the read-through cache and the stored copy of a report that the screen
  paints first, both read-only. In `Billing`: billing periods, the end of a trial, the
  portal's redirect, the count of drafted reports, and a subscription Stripe does not
  know.
