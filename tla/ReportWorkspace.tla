--------------------------- MODULE ReportWorkspace ---------------------------
(***************************************************************************)
(* The dashboard's showing page as an editor of the report document: the   *)
(* query that caches the showing, the copy under edit, and the save and    *)
(* confirm mutations (showing-workspace.tsx, report-editor.tsx, and their  *)
(* requests in api.ts).                                                    *)
(*                                                                         *)
(* A request is carried out by the server in one step and answered in      *)
(* another, so answers arrive in any order; it may be lost, or its answer  *)
(* may be.  A request the page was told has failed is not carried out      *)
(* later.                                                                  *)
(***************************************************************************)
EXTENDS ReportServer

VARIABLES
  page,   \* the state of the page
  wire,   \* its requests under way
  asShown \* history: the page's own confirmation was of the document it shows

workspaceVars == <<page, wire, asShown>>

\* "saveAndConfirm" is the first of the two requests of a confirmation.
Ops == {"get", "save", "saveAndConfirm", "confirm"}
Requests == [op : Ops, rid : 0..MaxReports, body : Documents,
             answer : {"none", "ok", "refused"}, got : Rows \cup {NoDetail}]

WorkspaceTypeOK ==
  /\ page \in [cache : Rows,
               loaded : 1..MaxReports,   \* loadedReportId
               document : Documents,     \* reportContent
               failed : BOOLEAN]         \* detail.isError
  /\ wire \subseteq Requests
  /\ asShown \in BOOLEAN

\* The page has been loaded.
WorkspaceInit ==
  /\ page = [cache |-> srv, loaded |-> srv.id, document |-> srv.content,
             failed |-> FALSE]
  /\ wire = {}
  /\ asShown = FALSE

Request(op, rid, body) ==
  [op |-> op, rid |-> rid, body |-> body, answer |-> "none", got |-> NoDetail]
Get == Request("get", 0, {})

Pending(op) == \E r \in wire : r.op = op
Saving == Pending("save") \/ Pending("saveAndConfirm") \/ Pending("confirm")

\* The error page has no controls, a report that is not a draft is read-only.
Editable == ~page.failed /\ page.cache.status = "draft"

\* Fault: the first report is the only one loaded.
LoadedOnce(p) == p

\* Fault: any other copy in the cache replaces the document under edit.
Reloaded(p) ==
  IF p.cache.id # p.loaded \/ p.cache.content # page.cache.content
  THEN [p EXCEPT !.loaded = p.cache.id, !.document = p.cache.content]
  ELSE p

\* The effect that runs whenever the cached report changes: a report with
\* another id replaces the document, a newer copy of the same one does not.
Loaded(p) ==
  IF p.cache.id # p.loaded
  THEN [p EXCEPT !.loaded = p.cache.id, !.document = p.cache.content]
  ELSE p

WithCache(c) == Loaded([page EXCEPT !.cache = c])

-----------------------------------------------------------------------------
(* What the agent does.                                                    *)

Send(r) ==
  /\ Ask
  /\ wire' = wire \cup {r}
  /\ UNCHANGED <<page, serverVars, asShown>>

\* The query runs on focus, every 3 s while processing, and from the error
\* page; one at a time.
Fetch ==
  /\ ~Pending("get")
  /\ Send(Get)

\* Summary and bullets: what is typed, moved, added or removed is an edit.  The
\* fields stay open while a save or a confirmation is under way.
Type(e) ==
  /\ Editable
  /\ <<page.loaded, e>> \notin page.document
  /\ page' = [page EXCEPT !.document = @ \cup {<<page.loaded, e>>}]
  /\ asShown' = FALSE
  /\ UNCHANGED <<wire, asked, serverVars>>

\* saveReport
Save ==
  /\ Editable /\ ~Saving
  /\ Send(Request("save", page.cache.id, page.document))

\* Fault: what is on the screen is not saved first.
ConfirmUnsaved ==
  /\ Editable /\ ~Saving
  /\ Send(Request("confirm", page.cache.id, page.document))

\* confirm: the document is saved first.
Confirm ==
  /\ Editable /\ ~Saving
  /\ Send(Request("saveAndConfirm", page.cache.id, page.document))

-----------------------------------------------------------------------------
(* The server carries a request out.                                       *)

Answered(r, verdict) ==
  wire' = (wire \ {r}) \cup
            {[r EXCEPT !.answer = verdict,
                       !.got = IF r.op = "get" THEN srv ELSE NoDetail]}

Serve(r) ==
  /\ r.answer = "none"
  /\ \/ /\ r.op = "get" \/ (r.op \in {"save", "saveAndConfirm"} /\ ~AcceptsDocument(r.rid))
        /\ UNCHANGED serverVars
        /\ Answered(r, IF r.op = "get" THEN "ok" ELSE "refused")
     \/ /\ r.op \in {"save", "saveAndConfirm"} /\ AcceptsDocument(r.rid)
        /\ SaveDocument(r.body, DeskEdits, FALSE)
        /\ Answered(r, "ok")
     \/ /\ r.op = "confirm"
        /\ ConfirmOrRefuse
        /\ Answered(r, IF srv'.status = "confirmed" THEN "ok" ELSE "refused")
  /\ UNCHANGED <<asked, page, asShown>>

-----------------------------------------------------------------------------
(* The page is answered.                                                   *)

FetchAnswered(r) ==
  /\ r.op = "get"
  /\ page' = [WithCache(r.got) EXCEPT !.failed = FALSE]
  /\ wire' = wire \ {r}
  /\ UNCHANGED <<serverVars, asShown>>

\* saveReport.onSuccess puts the answer in the cache.
SaveAnswered(r) ==
  /\ r.op = "save"
  /\ page' = WithCache([page.cache EXCEPT !.id = r.rid, !.content = r.body])
  /\ wire' = wire \ {r}
  /\ Acknowledge(r.body, DeskEdits)
  /\ UNCHANGED <<srv, lost, asShown>>

\* The second request of confirm.
SaveThenConfirm(r) ==
  /\ r.op = "saveAndConfirm"
  /\ wire' = (wire \ {r}) \cup {Request("confirm", r.rid, r.body)}
  /\ UNCHANGED <<page, serverVars, asShown>>

\* confirm.onSuccess: the fetch under way is cancelled and another starts.
ConfirmAnswered(r) ==
  /\ r.op = "confirm"
  /\ wire' = {q \in wire \ {r} : q.op # "get"} \cup {Get}
  /\ Acknowledge(r.body, DeskEdits)
  /\ asShown' = (r.rid = srv.id /\ r.body = page.document)
  /\ UNCHANGED <<page, srv, lost>>

Answer(r) ==
  /\ r.answer = "ok"
  /\ FetchAnswered(r) \/ SaveAnswered(r) \/ SaveThenConfirm(r) \/ ConfirmAnswered(r)
  /\ UNCHANGED asked

\* An error, or a request or answer that is lost; a failed fetch shows the error
\* page.
Fail(r) ==
  /\ page' = [page EXCEPT !.failed = @ \/ r.op = "get"]
  /\ wire' = wire \ {r}
  /\ UNCHANGED <<asked, asShown, serverVars>>

WorkspaceNext ==
  \/ Fetch \/ Save \/ Confirm
  \/ \E e \in DeskEdits : Type(e)
  \/ \E r \in wire : Serve(r) \/ Answer(r) \/ Fail(r)

=============================================================================
