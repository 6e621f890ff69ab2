------------------------ MODULE ReportEditingProofs ------------------------
(***************************************************************************)
(* Proofs about ReportEditing, for every set of edits and every number of  *)
(* reports and requests.                                                   *)
(*                                                                         *)
(* What keeps the edits together is spread over the page, the screen and   *)
(* the requests under way, and EditingInv collects it:                     *)
(*   PageFacts   the page shows one report, no newer than the server's     *)
(*   WireFacts   one fetch and one mutation at a time; a fetch never goes  *)
(*               back to an older report, and a mutation carries what is   *)
(*               under edit                                                *)
(*   DeskFacts   where the dashboard's acknowledged edits are              *)
(*   PhoneFacts  each request of the phone is about one report             *)
(*   QuietFacts  where the phone's acknowledged edits are, as long as its  *)
(*               saves are alone under way                                 *)
(*   ShownFacts  what a confirmation that was of the shown document means  *)
(***************************************************************************)
EXTENDS ReportEditing, TLAPS

OneReport(c) == \A e \in c.content : e[1] = c.id

Gets == {r \in wire : r.op = "get"}
Mutations == {r \in wire : r.op # "get"}

PageFacts ==
  /\ page.loaded = page.cache.id
  /\ page.loaded <= srv.id
  /\ OneReport(page.cache)
  /\ \A e \in page.document : e[1] = page.loaded

WireFacts ==
  /\ \A r, q \in Gets : r = q
  /\ \A r, q \in Mutations : r = q
  /\ \A r \in Gets : r.answer = "ok" =>
       /\ r.got \in Rows /\ OneReport(r.got)
       /\ page.loaded <= r.got.id /\ r.got.id <= srv.id
  /\ \A r \in Mutations :
       /\ r.rid \in 1..page.loaded
       /\ \A e \in r.body : e[1] = r.rid
       /\ r.rid = page.loaded =>
            /\ r.body \subseteq page.document
            /\ \A e \in page.document : e[2] \in PhoneEdits => e \in r.body
       /\ r.op = "confirm" /\ r.answer = "ok" => srv.status = "confirmed"

\* The document of r has reached the server.
IsSaved(r) == r.op = "confirm" \/ r.answer = "ok"

DeskFacts ==
  /\ \A e \in acked : e[2] \in DeskEdits =>
       /\ page.loaded = srv.id /\ e \in page.document
       /\ \A r \in Mutations : r.rid = srv.id /\ e \in r.body
  /\ \A r \in Mutations : IsSaved(r) /\ r.rid = srv.id =>
       \A e \in r.body : e[2] \in DeskEdits => e \in srv.content \cup lost

PhoneFacts ==
  /\ phone.detail # NoDetail => OneReport(phone.detail) /\ phone.detail.id <= srv.id
  /\ \A c \in calls :
       /\ c.op = "load" /\ c.answer = "ok" =>
            c.got \in Rows /\ OneReport(c.got) /\ c.got.id <= srv.id
       /\ c.op = "save" =>
            /\ c.base \in Rows /\ OneReport(c.base) /\ c.base.id <= srv.id
            /\ \A e \in c.body : e[1] = c.base.id
            /\ c.answer = "ok" /\ c.base.id = srv.id =>
                 \A e \in c.body : e[2] \in PhoneEdits => e \in srv.content \cup lost

Stored(c) == c.op = "save" /\ c.answer = "ok" /\ c.base.id = srv.id

\* An edit of the phone's that was stored and is not in the report any more.
Gone(e) ==
  /\ e[2] \in PhoneEdits
  /\ e \notin srv.content
  /\ e \in acked \/ \E c \in calls : Stored(c) /\ e \in c.body

\* A document of the current report has what the phone knows to be saved and is.
HasDocument(id, document) ==
  id = srv.id =>
    \A e \in acked : e[2] \in PhoneEdits /\ e \in srv.content => e \in document

Alone == \A c, d \in calls : c.op = "save" => d = c

\* Only a save from the page drops an edit of the phone's, and the page never
\* brings it back.
GoneForGood ==
  \A e \in Edits : Gone(e) =>
    /\ page.loaded = srv.id /\ e \notin page.document
    /\ \A r \in Mutations : r.rid = srv.id

UpToDate ==
  /\ phone.detail # NoDetail => HasDocument(phone.detail.id, phone.detail.content)
  /\ \A c \in calls :
       /\ c.op = "save" =>
            /\ HasDocument(c.base.id, c.body)
            /\ phone.detail = c.base
            /\ \A e \in c.body : e[2] \in PhoneEdits /\ e \in acked => e \in c.base.content
       /\ c.op = "load" /\ c.answer = "ok" => HasDocument(c.got.id, c.got.content)

QuietFacts == ~overlapped => Alone /\ GoneForGood /\ UpToDate

ShownFacts ==
  asShown =>
    /\ page.loaded = srv.id /\ srv.status = "confirmed"
    /\ \A e \in page.document : e[2] \in DeskEdits => e \in srv.content \cup lost
    /\ \A r \in Mutations : r.rid = srv.id /\ r.body = page.document

EditingInv ==
  /\ EditingTypeOK
  /\ EditsStayInTheirReport
  /\ SavedEditsAreLostOnlyToOlderCopies
  /\ PageFacts /\ WireFacts /\ DeskFacts /\ PhoneFacts /\ QuietFacts /\ ShownFacts

-----------------------------------------------------------------------------
(* The pieces of the steps                                                 *)

\* A request that is sent has its parts as given.
LEMMA RequestParts ==
  ASSUME NEW op, NEW rid, NEW body
  PROVE LET r == Request(op, rid, body)
        IN r.op = op /\ r.rid = rid /\ r.body = body /\ r.answer = "none"
BY DEF Request

\* A call that is started has its parts as given.
LEMMA CallParts ==
  ASSUME NEW op, NEW base, NEW body
  PROVE LET c == Call(op, base, body)
        IN c.op = op /\ c.base = base /\ c.body = body /\ c.answer = "none"
BY DEF Call

\* A report in the cache is loaded if it is another one.
LEMMA WithCacheParts ==
  ASSUME EditingTypeOK, NEW c \in Rows
  PROVE LET p == WithCache(c)
        IN /\ p \in [cache : Rows, loaded : 1..MaxReports, document : Documents,
                     failed : BOOLEAN]
           /\ p.cache = c /\ p.loaded = (IF c.id # page.loaded THEN c.id ELSE page.loaded)
           /\ p.document = (IF c.id # page.loaded THEN c.content ELSE page.document)
<1> SUFFICES ASSUME page \in [cache : Rows, loaded : 1..MaxReports, document : Documents,
                              failed : BOOLEAN]
             PROVE LET p == WithCache(c)
        IN /\ p \in [cache : Rows, loaded : 1..MaxReports, document : Documents,
                     failed : BOOLEAN]
           /\ p.cache = c /\ p.loaded = (IF c.id # page.loaded THEN c.id ELSE page.loaded)
           /\ p.document = (IF c.id # page.loaded THEN c.content ELSE page.document)
  BY DEF EditingTypeOK, WorkspaceTypeOK
<1>1. c.id \in 1..MaxReports /\ c.content \in Documents
  BY DEF Rows
<1>2. CASE c.id # page.loaded
  BY <1>1, <1>2 DEF WithCache, Loaded
<1>3. CASE c.id = page.loaded
  BY <1>1, <1>3 DEF WithCache, Loaded
<1> QED
  BY <1>2, <1>3

\* A row that gets another report's parts.
LEMMA Overwritten ==
  ASSUME NEW row, row \in Rows, NEW id \in 1..MaxReports, NEW content \in Documents,
         NEW new, new = [row EXCEPT !.id = id, !.content = content]
  PROVE new = [status |-> row.status, id |-> id, content |-> content]
BY DEF Rows

\* A mutation that was carried out or refused is the one it was, with an answer.
LEMMA AnsweredParts ==
  ASSUME EditingTypeOK, NEW r \in wire, NEW verdict \in {"ok", "refused"}, Answered(r, verdict)
  PROVE /\ wire' \subseteq Requests
        /\ \A q \in wire' :
             \/ q \in wire /\ q # r
             \/ /\ q.op = r.op /\ q.rid = r.rid /\ q.body = r.body /\ q.answer = verdict
                /\ r.op = "get" => q.got = srv
<1> DEFINE a == [r EXCEPT !.answer = verdict,
                          !.got = IF r.op = "get" THEN srv ELSE NoDetail]
<1>1. r \in Requests /\ srv \in Rows
  BY DEF EditingTypeOK, WorkspaceTypeOK, ServerTypeOK
<1>2. /\ a \in Requests
      /\ a.op = r.op /\ a.rid = r.rid /\ a.body = r.body /\ a.answer = verdict
      /\ r.op = "get" => a.got = srv
  BY <1>1 DEF Requests
<1>3. wire' = (wire \ {r}) \cup {a}
  BY DEF Answered
<1>4. wire \subseteq Requests
  BY DEF EditingTypeOK, WorkspaceTypeOK
<1> HIDE DEF a
<1> QED
  BY <1>2, <1>3, <1>4

\* And so is a call.
LEMMA VerdictParts ==
  ASSUME EditingTypeOK, NEW c \in calls, NEW verdict \in {"ok", "refused"}, Verdict(c, verdict)
  PROVE /\ calls' \subseteq PhoneCalls
        /\ \A d \in calls' :
             \/ d \in calls /\ d # c
             \/ /\ d.op = c.op /\ d.base = c.base /\ d.body = c.body /\ d.answer = verdict
                /\ c.op = "load" => d.got = srv
<1> DEFINE a == [c EXCEPT !.answer = verdict,
                          !.got = IF c.op = "load" THEN srv ELSE NoDetail]
<1>1. c \in PhoneCalls /\ srv \in Rows
  BY DEF EditingTypeOK, PhoneTypeOK, ServerTypeOK
<1>2. /\ a \in PhoneCalls
      /\ a.op = c.op /\ a.base = c.base /\ a.body = c.body /\ a.answer = verdict
      /\ c.op = "load" => a.got = srv
  BY <1>1 DEF PhoneCalls
<1>3. calls' = (calls \ {c}) \cup {a}
  BY DEF Verdict
<1>4. calls \subseteq PhoneCalls
  BY DEF EditingTypeOK, PhoneTypeOK
<1> HIDE DEF a
<1> QED
  BY <1>2, <1>3, <1>4

\* A save leaves the body as the report, and what it drops of others' is lost.
LEMMA SaveParts ==
  ASSUME EditingTypeOK, NEW body \in Documents, NEW mine, NEW excused \in BOOLEAN,
         SaveDocument(body, mine, excused)
  PROVE /\ srv' \in Rows /\ srv'.status = srv.status /\ srv'.id = srv.id /\ srv'.content = body
        /\ lost' \in Documents /\ acked' = acked
        /\ \A e \in srv.content \cup lost :
             e \in body \/ e \in lost' \/ (e \in srv.content /\ e[2] \in mine /\ ~excused)
<1>1. srv \in Rows /\ lost \in Documents
  BY DEF EditingTypeOK, ServerTypeOK
<1>2. srv' \in Rows /\ srv'.status = srv.status /\ srv'.id = srv.id /\ srv'.content = body
  BY <1>1 DEF SaveDocument, Rows
<1>3. srv.content \subseteq Edits
  BY <1>1 DEF Rows, Documents
<1>4. lost' = (lost \ body) \cup {e \in srv.content \ body : e[2] \notin mine \/ excused}
  BY DEF SaveDocument
<1>5. lost' \in Documents
  BY <1>1, <1>3, <1>4 DEF Documents
<1> QED
  BY <1>2, <1>4, <1>5 DEF SaveDocument

-----------------------------------------------------------------------------
(* The report is drafted again: no document under way is of the new one.   *)

\* EditingInv holds at the beginning.
LEMMA EditingBegins == EditingInit => EditingInv
<1> SUFFICES ASSUME EditingInit PROVE EditingInv
  OBVIOUS
<1> USE EditingAssumption DEF EditingAssumption
<1>1. /\ asked = 0 /\ srv = [status |-> "draft", id |-> 1, content |-> {}]
      /\ acked = {} /\ lost = {} /\ wire = {} /\ asShown = FALSE
      /\ page = [cache |-> srv, loaded |-> srv.id, document |-> srv.content, failed |-> FALSE]
      /\ phone = [detail |-> NoDetail, loading |-> TRUE]
      /\ calls = {Load} /\ overlapped = FALSE
  BY DEF EditingInit, ServerInit, WorkspaceInit, PhoneInit
<1>2. srv \in Rows
  BY <1>1 DEF Rows, Documents
<1>3. Load \in PhoneCalls /\ Load.op = "load" /\ Load.answer = "none"
  BY DEF Load, Call, PhoneCalls, Documents
<1>4. EditingTypeOK
  <2>1. ServerTypeOK
    BY <1>1, <1>2 DEF ServerTypeOK, Documents
  <2>2. srv.id = 1 /\ srv.content = {}
    BY <1>1
  <2>3. srv.content \in Documents /\ srv.id \in 1..MaxReports /\ wire \subseteq Requests
    BY <1>1, <2>2 DEF Documents
  <2>5. WorkspaceTypeOK
    BY <1>1, <1>2, <2>3 DEF WorkspaceTypeOK
  <2>4. PhoneTypeOK
    BY <1>1, <1>3 DEF PhoneTypeOK
  <2> QED
    BY <2>1, <2>4, <2>5 DEF EditingTypeOK
<1>5. EditsStayInTheirReport /\ SavedEditsAreLostOnlyToOlderCopies
  BY <1>1 DEF EditsStayInTheirReport, SavedEditsAreLostOnlyToOlderCopies
<1>6. PageFacts /\ WireFacts /\ DeskFacts /\ ShownFacts
  BY <1>1 DEF PageFacts, WireFacts, DeskFacts, ShownFacts, Gets, Mutations, OneReport
<1>7. PhoneFacts
  BY <1>1, <1>3 DEF PhoneFacts
<1>8. QuietFacts
  BY <1>1, <1>3 DEF QuietFacts, Alone, GoneForGood, Gone, Stored, UpToDate
<1> QED
  BY <1>4, <1>5, <1>6, <1>7, <1>8 DEF EditingInv

\* No request under way is about the new report, and nobody has saved any of it.
LEMMA RedraftKeeps ==
  ASSUME EditingInv, Redraft, UNCHANGED <<workspaceVars, phoneVars>>
  PROVE EditingInv'
<1> USE EditingAssumption DEF EditingAssumption
<1>1. /\ srv.id \in 1..MaxReports /\ srv.id < MaxReports /\ srv.status = "draft"
      /\ srv' \in Rows /\ srv'.id = srv.id + 1 /\ srv'.content = {}
      /\ acked' = {} /\ lost' = {} /\ asked' = asked
  <2>1. srv \in Rows
    BY DEF EditingInv, EditingTypeOK, ServerTypeOK
  <2>2. {} \in Documents
    BY DEF Documents
  <2> QED
    <3>1. srv.id \in 1..MaxReports /\ srv.status \in {"draft", "confirmed"}
      BY <2>1 DEF Rows
    <3>2. /\ srv.status = "draft" /\ srv.id < MaxReports
          /\ srv' = [srv EXCEPT !.id = srv.id + 1, !.content = {}]
      BY DEF Redraft
    <3>4. srv' = [status |-> "draft", id |-> srv.id + 1, content |-> {}]
      BY <2>1, <3>2 DEF Rows
    <3>5. srv.id + 1 \in 1..MaxReports
      BY <3>1, <3>2
    <3>3. srv' \in Rows /\ srv'.id = srv.id + 1 /\ srv'.content = {}
      BY <2>2, <3>4, <3>5 DEF Rows
    <3> QED
      BY <3>1, <3>2, <3>3 DEF Redraft
<1>2. /\ page' = page /\ wire' = wire /\ asShown' = asShown
      /\ phone' = phone /\ calls' = calls /\ overlapped' = overlapped
  BY DEF workspaceVars, phoneVars
<1>3. EditingTypeOK'
  BY <1>1, <1>2 DEF EditingInv, EditingTypeOK, ServerTypeOK, WorkspaceTypeOK,
              PhoneTypeOK, Documents
<1>4. EditsStayInTheirReport' /\ SavedEditsAreLostOnlyToOlderCopies'
  BY <1>1 DEF EditsStayInTheirReport, SavedEditsAreLostOnlyToOlderCopies
<1>5. page.loaded \in 1..MaxReports /\ page.loaded <= srv.id /\ wire \subseteq Requests
  BY DEF EditingInv, PageFacts, EditingTypeOK, WorkspaceTypeOK
<1>6. PageFacts'
  BY <1>1, <1>2, <1>5 DEF EditingInv, PageFacts, OneReport
<1>7. WireFacts'
  <2>1. \A r \in Gets : r.answer = "ok" => r.got.id <= srv'.id
    <3> SUFFICES ASSUME NEW r \in Gets, r.answer = "ok" PROVE r.got.id <= srv'.id
      OBVIOUS
    <3>1. r.got \in Rows /\ r.got.id <= srv.id
      BY DEF EditingInv, WireFacts
    <3>2. r.got.id \in 1..MaxReports
      BY <3>1 DEF Rows
    <3> QED
      BY <1>1, <3>1, <3>2
  <2>2. \A r \in Mutations : ~(r.op = "confirm" /\ r.answer = "ok")
    BY <1>1 DEF EditingInv, WireFacts
  <2> QED
    BY <1>2, <2>1, <2>2 DEF EditingInv, WireFacts, Gets, Mutations, OneReport
<1>8. \A r \in Mutations : r.rid # srv'.id
  <2> SUFFICES ASSUME NEW r \in Mutations PROVE r.rid # srv'.id
    OBVIOUS
  <2>1. r.rid \in 1..page.loaded
    BY DEF EditingInv, WireFacts
  <2> QED
    BY <2>1, <1>1, <1>5
<1>9. DeskFacts'
  BY <1>1, <1>2, <1>8 DEF DeskFacts, Mutations, IsSaved
<1>10. \A c \in calls : c.op = "save" => c.base.id \in 1..MaxReports /\ c.base.id <= srv.id
  BY DEF EditingInv, PhoneFacts, Rows
<1>11. \A c \in calls : c.op = "save" => c.base.id <= srv'.id /\ c.base.id # srv'.id
  BY <1>1, <1>10
<1>12. PhoneFacts'
  <2>1. \A c \in calls : c.op = "load" /\ c.answer = "ok" => c.got.id <= srv'.id
    <3> SUFFICES ASSUME NEW c \in calls, c.op = "load" /\ c.answer = "ok"
                 PROVE c.got.id <= srv'.id
      OBVIOUS
    <3>1. c.got \in Rows /\ c.got.id <= srv.id
      BY DEF EditingInv, PhoneFacts
    <3>2. c.got.id \in 1..MaxReports
      BY <3>1 DEF Rows
    <3> QED
      BY <1>1, <3>1, <3>2
  <2>2. phone.detail # NoDetail => phone.detail.id <= srv'.id
    <3> SUFFICES ASSUME phone.detail # NoDetail PROVE phone.detail.id <= srv'.id
      OBVIOUS
    <3>1. phone.detail \in Rows /\ phone.detail.id <= srv.id
      BY DEF EditingInv, PhoneFacts, EditingTypeOK, PhoneTypeOK
    <3>2. phone.detail.id \in 1..MaxReports
      BY <3>1 DEF Rows
    <3> QED
      BY <1>1, <3>1, <3>2
  <2> QED
    BY <1>2, <1>11, <2>1, <2>2 DEF EditingInv, PhoneFacts, OneReport
<1>13. QuietFacts'
  <2>1. GoneForGood'
    BY <1>1, <1>2, <1>11 DEF GoneForGood, Gone, Stored
  <2>2. ~overlapped => UpToDate'
    BY <1>1, <1>2 DEF EditingInv, QuietFacts, UpToDate, HasDocument
  <2> QED
    BY <1>2, <2>1, <2>2 DEF EditingInv, QuietFacts, Alone
<1>14. ShownFacts'
  BY <1>1, <1>2 DEF EditingInv, ShownFacts
<1> QED
  BY <1>3, <1>4, <1>6, <1>7, <1>9, <1>12, <1>13, <1>14 DEF EditingInv

-----------------------------------------------------------------------------
(* What the agent does on the page                                         *)

\* A fetch that is sent disturbs nothing.
LEMMA FetchKeeps == ASSUME EditingInv, Fetch, UNCHANGED phoneVars PROVE EditingInv'
<1> USE EditingAssumption DEF EditingAssumption
<1>1. /\ page' = page /\ srv' = srv /\ acked' = acked /\ lost' = lost /\ asShown' = asShown
      /\ phone' = phone /\ calls' = calls /\ overlapped' = overlapped
      /\ wire' = wire \cup {Get} /\ Gets = {}
  BY DEF phoneVars, Fetch, Send, serverVars, Pending, Gets
<1>2. Get.op = "get" /\ Get.answer = "none" /\ Get \in Requests
  BY RequestParts DEF Get, Request, Requests, Ops, Documents
<1>3. asked' \in 0..MaxRequests
  BY DEF Fetch, Send, Ask, EditingInv, EditingTypeOK, ServerTypeOK
<1>4. EditingTypeOK'
  BY <1>1, <1>2, <1>3 DEF EditingInv, EditingTypeOK, ServerTypeOK, WorkspaceTypeOK,
              PhoneTypeOK
<1>5. Mutations' = Mutations /\ Gets' = {Get}
  BY <1>1, <1>2 DEF Mutations, Gets
<1>6. PageFacts' /\ EditsStayInTheirReport' /\ SavedEditsAreLostOnlyToOlderCopies'
  BY <1>1 DEF EditingInv, PageFacts, OneReport, EditsStayInTheirReport,
              SavedEditsAreLostOnlyToOlderCopies
<1>7. WireFacts'
  BY <1>1, <1>2, <1>5 DEF EditingInv, WireFacts
<1>8. DeskFacts' /\ ShownFacts'
  BY <1>1, <1>5 DEF EditingInv, DeskFacts, ShownFacts, IsSaved
<1>9. PhoneFacts'
  BY <1>1 DEF EditingInv, PhoneFacts, OneReport
<1>10. QuietFacts'
  BY <1>1, <1>5 DEF EditingInv, QuietFacts, Alone, GoneForGood, Gone, Stored,
              UpToDate, HasDocument
<1> QED
  BY <1>4, <1>6, <1>7, <1>8, <1>9, <1>10 DEF EditingInv

\* What is typed is an edit of the dashboard's for the report that is shown; the
\* page does not show what was confirmed any more.
LEMMA TypeKeeps ==
  ASSUME EditingInv, NEW e \in DeskEdits, Type(e), UNCHANGED phoneVars PROVE EditingInv'
<1> USE EditingAssumption DEF EditingAssumption
<1> DEFINE typed == <<page.loaded, e>>
<1>1. /\ srv' = srv /\ acked' = acked /\ lost' = lost /\ wire' = wire /\ asked' = asked
      /\ asShown' = FALSE
      /\ phone' = phone /\ calls' = calls /\ overlapped' = overlapped
      /\ page' = [page EXCEPT !.document = page.document \cup {typed}]
  BY DEF phoneVars, Type, serverVars
<1>2. /\ page \in [cache : Rows, loaded : 1..MaxReports, document : Documents,
                   failed : BOOLEAN]
  BY DEF EditingInv, EditingTypeOK, WorkspaceTypeOK
<1>3. page.loaded \in 1..MaxReports /\ page.document \in Documents
  BY <1>2
<1>4. typed \in Edits /\ typed[1] = page.loaded /\ typed[2] = e /\ e \notin PhoneEdits
  BY <1>3 DEF Edits, Names
<1> HIDE DEF typed
<1>5. page.document \cup {typed} \in Documents
  BY <1>3, <1>4 DEF Documents
<1>6. /\ page' \in [cache : Rows, loaded : 1..MaxReports, document : Documents,
                    failed : BOOLEAN]
      /\ page'.cache = page.cache /\ page'.loaded = page.loaded
      /\ page'.document = page.document \cup {typed}
  BY <1>1, <1>2, <1>5
<1>7. EditingTypeOK'
  BY <1>1, <1>6 DEF EditingInv, EditingTypeOK, ServerTypeOK, WorkspaceTypeOK,
              PhoneTypeOK
<1>8. Mutations' = Mutations /\ Gets' = Gets
  BY <1>1 DEF Mutations, Gets
<1>9. PageFacts' /\ EditsStayInTheirReport' /\ SavedEditsAreLostOnlyToOlderCopies'
  BY <1>1, <1>4, <1>6 DEF EditingInv, PageFacts, OneReport, EditsStayInTheirReport,
              SavedEditsAreLostOnlyToOlderCopies
<1>10. WireFacts'
  BY <1>1, <1>4, <1>6, <1>8 DEF EditingInv, WireFacts, OneReport
<1>11. DeskFacts' /\ ShownFacts'
  BY <1>1, <1>6, <1>8 DEF EditingInv, DeskFacts, ShownFacts, IsSaved
<1>12. PhoneFacts'
  BY <1>1 DEF EditingInv, PhoneFacts, OneReport
<1>13. QuietFacts'
  BY <1>1, <1>4, <1>6, <1>8 DEF EditingInv, QuietFacts, Alone, GoneForGood, Gone, Stored,
              UpToDate, HasDocument
<1> QED
  BY <1>7, <1>9, <1>10, <1>11, <1>12, <1>13 DEF EditingInv

\* A save or a confirmation is the only mutation, and carries the document shown.
LEMMA SendKeeps ==
  ASSUME EditingInv, NEW op \in {"save", "saveAndConfirm"}, ~Saving,
         Send(Request(op, page.cache.id, page.document)), UNCHANGED phoneVars
  PROVE EditingInv'
<1> USE EditingAssumption DEF EditingAssumption
<1> DEFINE r == Request(op, page.cache.id, page.document)
<1>1. /\ page' = page /\ srv' = srv /\ acked' = acked /\ lost' = lost /\ asShown' = asShown
      /\ phone' = phone /\ calls' = calls /\ overlapped' = overlapped
      /\ wire' = wire \cup {r}
  BY DEF phoneVars, Send, serverVars
<1>2. /\ page \in [cache : Rows, loaded : 1..MaxReports, document : Documents,
                   failed : BOOLEAN]
      /\ wire \subseteq Requests
  BY DEF EditingInv, EditingTypeOK, WorkspaceTypeOK
<1>3. page.loaded \in 1..MaxReports /\ page.document \in Documents /\ page.cache.id = page.loaded
  BY <1>2 DEF EditingInv, PageFacts
<1>4. /\ r.op = op /\ r.rid = page.loaded /\ r.body = page.document /\ r.answer = "none"
      /\ r \in Requests
  BY <1>3, RequestParts DEF Request, Requests, Ops
<1> HIDE DEF r
<1>5. Mutations = {}
  BY <1>2 DEF Saving, Pending, Mutations, Requests, Ops
<1>6. asked' \in 0..MaxRequests
  BY DEF Send, Ask, EditingInv, EditingTypeOK, ServerTypeOK
<1>7. EditingTypeOK'
  BY <1>1, <1>2, <1>4, <1>6 DEF EditingInv, EditingTypeOK, ServerTypeOK, WorkspaceTypeOK,
              PhoneTypeOK
<1>8. Mutations' = {r} /\ Gets' = Gets
  BY <1>1, <1>4, <1>5 DEF Mutations, Gets
<1>9. PageFacts' /\ EditsStayInTheirReport' /\ SavedEditsAreLostOnlyToOlderCopies'
  BY <1>1 DEF EditingInv, PageFacts, OneReport, EditsStayInTheirReport,
              SavedEditsAreLostOnlyToOlderCopies
<1>10. WireFacts'
  BY <1>1, <1>3, <1>4, <1>8 DEF EditingInv, WireFacts, PageFacts, OneReport
<1>11. DeskFacts' /\ ShownFacts'
  BY <1>1, <1>4, <1>8 DEF EditingInv, DeskFacts, ShownFacts, IsSaved
<1>12. PhoneFacts'
  BY <1>1 DEF EditingInv, PhoneFacts, OneReport
<1>13. QuietFacts'
  BY <1>1, <1>4, <1>8 DEF EditingInv, QuietFacts, Alone, GoneForGood, Gone, Stored,
              UpToDate, HasDocument
<1> QED
  BY <1>7, <1>9, <1>10, <1>11, <1>12, <1>13 DEF EditingInv

-----------------------------------------------------------------------------
(* The server carries out a request of the page's                          *)

\* Requests that are answered without a change of the rows, or with one that a
\* confirmation makes.
LEMMA ServeReadKeeps ==
  ASSUME EditingInv, NEW r \in wire, r.answer = "none", NEW verdict \in {"ok", "refused"},
         Answered(r, verdict), UNCHANGED <<asked, page, asShown>>, UNCHANGED phoneVars,
         UNCHANGED <<acked, lost>>,
         \/ r.op = "get" /\ srv' = srv
         \/ r.op \in {"save", "saveAndConfirm"} /\ verdict = "refused" /\ srv' = srv
         \/ /\ r.op = "confirm"
            /\ srv' = srv \/ srv' = [srv EXCEPT !.status = "confirmed"]
            /\ verdict = "ok" => srv'.status = "confirmed"
  PROVE EditingInv'
<1> USE EditingAssumption DEF EditingAssumption
<1>1. /\ page' = page /\ acked' = acked /\ lost' = lost /\ asShown' = asShown /\ asked' = asked
      /\ phone' = phone /\ calls' = calls /\ overlapped' = overlapped
  BY DEF phoneVars
<1>2. EditingTypeOK /\ srv \in Rows
  BY DEF EditingInv, EditingTypeOK, ServerTypeOK
<1>3. /\ srv' \in Rows /\ srv'.id = srv.id /\ srv'.content = srv.content
      /\ srv.status = "confirmed" => srv'.status = "confirmed"
      /\ r.op = "get" => srv' = srv
  BY <1>2 DEF Rows
<1>4. /\ wire' \subseteq Requests
      /\ \A q \in wire' :
           \/ q \in wire /\ q # r
           \/ /\ q.op = r.op /\ q.rid = r.rid /\ q.body = r.body /\ q.answer = verdict
              /\ r.op = "get" => q.got = srv
  BY <1>2, AnsweredParts
<1>5. EditingTypeOK'
  BY <1>1, <1>3, <1>4 DEF EditingInv, EditingTypeOK, ServerTypeOK, WorkspaceTypeOK,
              PhoneTypeOK
<1>6. PageFacts' /\ EditsStayInTheirReport' /\ SavedEditsAreLostOnlyToOlderCopies'
  BY <1>1, <1>3 DEF EditingInv, PageFacts, OneReport, EditsStayInTheirReport,
                    SavedEditsAreLostOnlyToOlderCopies
<1>7. WireFacts'
  <2>1. page.loaded <= srv.id /\ OneReport(srv) /\ srv.id <= srv.id
    BY <1>2 DEF EditingInv, PageFacts, EditsStayInTheirReport, OneReport, Rows
  <2>2. \A p, q \in Gets' : p = q
    BY <1>4 DEF EditingInv, WireFacts, Gets, Answered
  <2>3. \A p, q \in Mutations' : p = q
    BY <1>4 DEF EditingInv, WireFacts, Mutations, Answered
  <2>4. \A q \in Gets' : q.answer = "ok" =>
          /\ q.got \in Rows /\ OneReport(q.got)
          /\ page.loaded <= q.got.id /\ q.got.id <= srv.id
    BY <1>2, <1>4, <2>1 DEF EditingInv, WireFacts, Gets
  <2>5. \A q \in Mutations' : q \in Mutations \/ (r \in Mutations /\
          q.op = r.op /\ q.rid = r.rid /\ q.body = r.body /\ q.answer = verdict)
    BY <1>4 DEF Mutations
  <2>6. \A q \in Mutations' :
       /\ q.rid \in 1..page.loaded
       /\ \A e \in q.body : e[1] = q.rid
       /\ q.rid = page.loaded =>
            /\ q.body \subseteq page.document
            /\ \A e \in page.document : e[2] \in PhoneEdits => e \in q.body
    BY <2>5 DEF EditingInv, WireFacts
  <2>7. \A q \in Mutations' : q.op = "confirm" /\ q.answer = "ok" => srv'.status = "confirmed"
    BY <1>3, <2>5 DEF EditingInv, WireFacts
  <2> QED
    BY <1>1, <1>3, <2>2, <2>3, <2>4, <2>6, <2>7 DEF WireFacts, OneReport
<1>8. \A q \in Mutations' : \E p \in Mutations :
        /\ q.op = p.op /\ q.rid = p.rid /\ q.body = p.body
        /\ q.answer = p.answer \/ p.op = "confirm" \/ q.answer = "refused"
  BY <1>4 DEF Mutations
<1>9. DeskFacts' /\ ShownFacts'
  BY <1>1, <1>3, <1>8 DEF EditingInv, DeskFacts, ShownFacts, IsSaved
<1>10. PhoneFacts'
  BY <1>1, <1>3 DEF EditingInv, PhoneFacts, OneReport
<1>11. QuietFacts'
  BY <1>1, <1>3, <1>8 DEF EditingInv, QuietFacts, Alone, GoneForGood, Gone, Stored,
              UpToDate, HasDocument
<1> QED
  BY <1>5, <1>6, <1>7, <1>9, <1>10, <1>11 DEF EditingInv

\* A document that is saved has every acknowledged edit of the page's, and loses
\* edits of the phone's for good.
LEMMA ServeSaveKeeps ==
  ASSUME EditingInv, NEW r \in wire, r.answer = "none", r.op \in {"save", "saveAndConfirm"},
         AcceptsDocument(r.rid), SaveDocument(r.body, DeskEdits, FALSE), Answered(r, "ok"),
         UNCHANGED <<asked, page, asShown>>, UNCHANGED phoneVars
  PROVE EditingInv'
<1> USE EditingAssumption DEF EditingAssumption
<1>1. /\ page' = page /\ asShown' = asShown /\ asked' = asked
      /\ phone' = phone /\ calls' = calls /\ overlapped' = overlapped
  BY DEF phoneVars
<1>2. EditingTypeOK /\ srv \in Rows /\ r \in Requests /\ page.loaded <= srv.id
  BY DEF EditingInv, EditingTypeOK, ServerTypeOK, WorkspaceTypeOK, PageFacts
<1>3. r.body \in Documents /\ r.rid = srv.id /\ r \in Mutations
  BY <1>2 DEF Requests, AcceptsDocument, Mutations
<1>4. page.loaded = srv.id
  <2>1. r.rid \in 1..page.loaded /\ page.loaded \in 1..MaxReports
    BY <1>3 DEF EditingInv, WireFacts, EditingTypeOK, WorkspaceTypeOK
  <2> QED
    BY <1>2, <1>3, <2>1 DEF Rows
<1>5. /\ r.body \subseteq page.document /\ \A e \in r.body : e[1] = srv.id
      /\ \A e \in page.document : e[2] \in PhoneEdits => e \in r.body
      /\ Mutations = {r}
  BY <1>3, <1>4 DEF EditingInv, WireFacts
<1>6. /\ srv' \in Rows /\ srv'.status = srv.status /\ srv'.id = srv.id /\ srv'.content = r.body
      /\ lost' \in Documents /\ acked' = acked
      /\ \A e \in srv.content \cup lost :
           e \in r.body \/ e \in lost' \/ (e \in srv.content /\ e[2] \in DeskEdits)
  BY <1>2, <1>3, SaveParts
<1>7. /\ wire' \subseteq Requests
      /\ \A q \in wire' :
           \/ q \in wire /\ q # r
           \/ q.op = r.op /\ q.rid = r.rid /\ q.body = r.body /\ q.answer = "ok"
  BY <1>2, AnsweredParts
<1>8. \A e \in acked : e[2] \in DeskEdits => e \in r.body
  BY <1>3 DEF EditingInv, DeskFacts
<1>9. EditingTypeOK'
  BY <1>1, <1>6, <1>7 DEF EditingInv, EditingTypeOK, ServerTypeOK, WorkspaceTypeOK,
              PhoneTypeOK
<1>10. PageFacts' /\ EditsStayInTheirReport' /\ SavedEditsAreLostOnlyToOlderCopies'
  BY <1>1, <1>5, <1>6, <1>8 DEF EditingInv, PageFacts, OneReport, EditsStayInTheirReport,
                    SavedEditsAreLostOnlyToOlderCopies
<1>11. \A q \in Mutations' : q.op = r.op /\ q.rid = r.rid /\ q.body = r.body /\ q.answer = "ok"
  BY <1>5, <1>7 DEF Mutations
<1>12. Gets' \subseteq Gets
  BY <1>3, <1>7 DEF Gets, Mutations
<1>13. WireFacts'
  <2>1. \A p, q \in Mutations' : p = q
    BY <1>5 DEF Mutations, Answered
  <2>2. \A q \in Mutations' :
          /\ q.rid \in 1..page.loaded /\ \A e \in q.body : e[1] = q.rid
          /\ q.rid = page.loaded =>
               /\ q.body \subseteq page.document
               /\ \A e \in page.document : e[2] \in PhoneEdits => e \in q.body
          /\ q.op # "confirm"
    BY <1>3, <1>11 DEF EditingInv, WireFacts
  <2>3. \A p, q \in Gets' : p = q
    BY <1>12 DEF EditingInv, WireFacts
  <2>4. \A q \in Gets' : q.answer = "ok" =>
          /\ q.got \in Rows /\ OneReport(q.got)
          /\ page.loaded <= q.got.id /\ q.got.id <= srv.id
    BY <1>12 DEF EditingInv, WireFacts
  <2> QED
    BY <1>1, <1>6, <2>1, <2>2, <2>3, <2>4 DEF WireFacts, OneReport
<1>14. DeskFacts'
  BY <1>1, <1>3, <1>4, <1>6, <1>8, <1>11 DEF EditingInv, DeskFacts, IsSaved
<1>15. ShownFacts'
  BY <1>1, <1>3, <1>6, <1>11 DEF EditingInv, ShownFacts
<1>16. PhoneFacts'
  BY <1>1, <1>6 DEF EditingInv, PhoneFacts, OneReport
<1>17. QuietFacts'
  <2> SUFFICES ASSUME ~overlapped PROVE Alone' /\ GoneForGood' /\ UpToDate'
    BY <1>1 DEF QuietFacts
  <2>1. Alone /\ GoneForGood /\ UpToDate
    BY DEF EditingInv, QuietFacts
  <2>2. ASSUME NEW e \in Edits, Gone(e)'
        PROVE e \notin page.document /\ (e \in acked => e[2] \in PhoneEdits)
    BY <1>1, <1>5, <1>6, <2>2 DEF Gone
  <2>3. GoneForGood'
    BY <1>1, <1>4, <1>3, <1>6, <1>11, <2>2 DEF GoneForGood
  <2>4. \A e \in acked : e[2] \in PhoneEdits /\ e \in srv'.content => e \in srv.content
    <3> SUFFICES ASSUME NEW e \in acked, e[2] \in PhoneEdits, e \in r.body, e \notin srv.content
                 PROVE FALSE
      BY <1>6
    <3>1. Gone(e) /\ e \in Edits
      BY <1>3 DEF Gone, Documents
    <3> QED
      BY <1>5, <2>1, <3>1 DEF GoneForGood
  <2>5. UpToDate'
    BY <1>1, <1>6, <2>1, <2>4 DEF UpToDate, HasDocument
  <2> QED
    BY <1>1, <2>1, <2>3, <2>5 DEF Alone
<1> QED
  BY <1>9, <1>10, <1>13, <1>14, <1>15, <1>16, <1>17 DEF EditingInv

-----------------------------------------------------------------------------
(* The page is answered, or told of a failure                              *)

\* A fetch never takes the page back; with acknowledged edits it never reloads it.
LEMMA FetchAnsweredKeeps ==
  ASSUME EditingInv, NEW r \in wire, r.answer = "ok", FetchAnswered(r), UNCHANGED asked,
         UNCHANGED phoneVars
  PROVE EditingInv'
<1> USE EditingAssumption DEF EditingAssumption
<1>1. /\ srv' = srv /\ acked' = acked /\ lost' = lost /\ asShown' = asShown /\ asked' = asked
      /\ phone' = phone /\ calls' = calls /\ overlapped' = overlapped
      /\ wire' = wire \ {r} /\ r.op = "get"
  BY DEF phoneVars, FetchAnswered, serverVars
<1>2. /\ r \in Gets /\ r.got \in Rows /\ OneReport(r.got)
      /\ page.loaded <= r.got.id /\ r.got.id <= srv.id
      /\ Gets' = {} /\ Mutations' = Mutations
  BY <1>1 DEF EditingInv, WireFacts, Gets, Mutations
<1>3. /\ page.loaded \in 1..MaxReports /\ r.got.id \in 1..MaxReports /\ srv.id \in 1..MaxReports
  BY <1>2 DEF EditingInv, EditingTypeOK, WorkspaceTypeOK, ServerTypeOK, Rows
<1> DEFINE p == WithCache(r.got)
<1>4. /\ p \in [cache : Rows, loaded : 1..MaxReports, document : Documents, failed : BOOLEAN]
      /\ p.cache = r.got
      /\ p.loaded = (IF r.got.id # page.loaded THEN r.got.id ELSE page.loaded)
      /\ p.document = (IF r.got.id # page.loaded THEN r.got.content ELSE page.document)
  BY <1>2, WithCacheParts DEF EditingInv
<1>5. page' = [p EXCEPT !.failed = FALSE]
  BY DEF FetchAnswered
<1> HIDE DEF p
<1>6. /\ page' \in [cache : Rows, loaded : 1..MaxReports, document : Documents, failed : BOOLEAN]
      /\ page'.cache = r.got /\ page'.loaded = r.got.id
      /\ page'.document = (IF r.got.id # page.loaded THEN r.got.content ELSE page.document)
  BY <1>4, <1>5
<1>7. EditingTypeOK'
  BY <1>1, <1>6 DEF EditingInv, EditingTypeOK, ServerTypeOK, WorkspaceTypeOK,
              PhoneTypeOK
<1>8. PageFacts' /\ EditsStayInTheirReport' /\ SavedEditsAreLostOnlyToOlderCopies'
  BY <1>1, <1>2, <1>6 DEF EditingInv, PageFacts, OneReport, EditsStayInTheirReport,
                    SavedEditsAreLostOnlyToOlderCopies
<1>9. \A q \in Mutations : q.rid \in 1..page.loaded
  BY DEF EditingInv, WireFacts
<1>10. \A q \in Mutations : q.rid \in 1..r.got.id /\ (q.rid = r.got.id => page.loaded = r.got.id)
  BY <1>2, <1>3, <1>9
<1>11. WireFacts'
  BY <1>1, <1>2, <1>6, <1>10 DEF EditingInv, WireFacts
<1>12. page.loaded = srv.id => r.got.id = page.loaded
  BY <1>2, <1>3
<1>13. DeskFacts' /\ ShownFacts'
  BY <1>1, <1>2, <1>6, <1>12 DEF EditingInv, DeskFacts, ShownFacts, IsSaved
<1>14. PhoneFacts'
  BY <1>1 DEF EditingInv, PhoneFacts, OneReport
<1>15. QuietFacts'
  BY <1>1, <1>2, <1>6, <1>12
     DEF EditingInv, QuietFacts, Alone, GoneForGood, Gone, Stored,
              UpToDate, HasDocument
<1> QED
  BY <1>7, <1>8, <1>11, <1>13, <1>14, <1>15 DEF EditingInv

\* A save of the current report is of the report on the page; one of an older
\* report may take the page back, but then nothing of the new one is acknowledged.
LEMMA SaveAnsweredKeeps ==
  ASSUME EditingInv, NEW r \in wire, r.answer = "ok", SaveAnswered(r), UNCHANGED asked,
         UNCHANGED phoneVars
  PROVE EditingInv'
<1> USE EditingAssumption DEF EditingAssumption
<1>1. /\ srv' = srv /\ lost' = lost /\ asShown' = asShown /\ asked' = asked
      /\ phone' = phone /\ calls' = calls /\ overlapped' = overlapped
      /\ wire' = wire \ {r} /\ r.op = "save"
      /\ acked' = acked \cup {e \in r.body : e[1] = srv.id /\ e[2] \in DeskEdits}
  BY DEF phoneVars, SaveAnswered, Acknowledge
<1>2. /\ r \in Mutations /\ r.rid \in 1..page.loaded /\ \A e \in r.body : e[1] = r.rid
      /\ r.rid = page.loaded => r.body \subseteq page.document
      /\ Mutations' = {} /\ Gets' = Gets
  BY <1>1 DEF EditingInv, WireFacts, Gets, Mutations
<1>3. /\ page.loaded \in 1..MaxReports /\ srv.id \in 1..MaxReports /\ page.loaded <= srv.id
      /\ r.body \in Documents /\ acked \in Documents
  BY DEF EditingInv, EditingTypeOK, WorkspaceTypeOK, ServerTypeOK, Rows, PageFacts, Requests
<1>4. r.rid \in 1..MaxReports /\ r.rid <= page.loaded /\ (r.rid = srv.id => page.loaded = srv.id)
  BY <1>2, <1>3
<1> DEFINE c == [page.cache EXCEPT !.id = r.rid, !.content = r.body]
<1>5. page.cache \in Rows
  BY DEF EditingInv, EditingTypeOK, WorkspaceTypeOK
<1>6. c = [status |-> page.cache.status, id |-> r.rid, content |-> r.body]
  BY <1>3, <1>4, <1>5, Overwritten
<1>7. page.cache.status \in {"draft", "confirmed"}
  BY <1>5 DEF Rows
<1>8. c \in Rows /\ c.id = r.rid /\ c.content = r.body
  BY <1>3, <1>4, <1>6, <1>7 DEF Rows
<1>9. page' = WithCache(c)
  BY DEF SaveAnswered
<1> HIDE DEF c
<1>10. /\ page' \in [cache : Rows, loaded : 1..MaxReports, document : Documents, failed : BOOLEAN]
       /\ page'.cache = c /\ page'.loaded = r.rid
       /\ page'.document = (IF r.rid # page.loaded THEN r.body ELSE page.document)
  BY <1>8, <1>9, WithCacheParts DEF EditingInv
<1>11. acked' \in Documents
  BY <1>1, <1>3 DEF Documents
<1>12. EditingTypeOK'
  BY <1>1, <1>10, <1>11 DEF EditingInv, EditingTypeOK, ServerTypeOK, WorkspaceTypeOK,
              PhoneTypeOK
<1>13. r.rid # srv.id => acked' = acked /\ \A e \in acked : e[2] \notin DeskEdits
  BY <1>1, <1>2 DEF EditingInv, DeskFacts
<1>14. r.rid = srv.id => \A e \in r.body : e[2] \in DeskEdits => e \in srv.content \cup lost
  BY <1>2 DEF EditingInv, DeskFacts, IsSaved
<1>15. EditsStayInTheirReport' /\ SavedEditsAreLostOnlyToOlderCopies'
  BY <1>1, <1>13, <1>14 DEF EditingInv, EditsStayInTheirReport, SavedEditsAreLostOnlyToOlderCopies
<1>16. r.rid <= srv.id
  BY <1>3, <1>4
<1>17. PageFacts'
  BY <1>1, <1>2, <1>8, <1>10, <1>16 DEF EditingInv, PageFacts, OneReport
<1>18. WireFacts'
  <2>1. \A q \in Gets : q.answer = "ok" =>
          /\ q.got \in Rows /\ OneReport(q.got)
          /\ page.loaded <= q.got.id /\ q.got.id <= srv.id
    BY DEF EditingInv, WireFacts
  <2>2. \A q \in Gets : q.answer = "ok" => r.rid <= q.got.id
    <3> SUFFICES ASSUME NEW q \in Gets, q.answer = "ok" PROVE r.rid <= q.got.id
      OBVIOUS
    <3>1. q.got.id \in 1..MaxReports /\ page.loaded <= q.got.id
      BY <2>1 DEF Rows
    <3> QED
      BY <1>3, <1>4, <3>1
  <2> QED
    BY <1>1, <1>2, <1>10, <2>1, <2>2 DEF EditingInv, WireFacts, OneReport
<1>19. DeskFacts'
  BY <1>1, <1>2, <1>4, <1>10, <1>13 DEF EditingInv, DeskFacts
<1>20. ShownFacts'
  <2>1. asShown => page.loaded = srv.id /\ r.rid = srv.id
    BY <1>2 DEF EditingInv, ShownFacts
  <2> QED
    BY <1>1, <1>2, <1>10, <2>1 DEF EditingInv, ShownFacts
<1>21. PhoneFacts'
  BY <1>1 DEF EditingInv, PhoneFacts, OneReport
<1>22. \A e : e[2] \in PhoneEdits => (e \in acked' <=> e \in acked)
  BY <1>1
<1>23. QuietFacts'
  <2> SUFFICES ASSUME ~overlapped PROVE Alone' /\ GoneForGood' /\ UpToDate'
    BY <1>1 DEF QuietFacts
  <2>1. Alone /\ GoneForGood /\ UpToDate
    BY DEF EditingInv, QuietFacts
  <2>2. GoneForGood'
    <3> SUFFICES ASSUME NEW e \in Edits, Gone(e)'
                 PROVE page'.loaded = srv.id /\ e \notin page'.document
      BY <1>1, <1>2 DEF GoneForGood
    <3>1. Gone(e)
      BY <1>1, <1>22 DEF Gone, Stored
    <3>2. page.loaded = srv.id /\ e \notin page.document /\ r.rid = srv.id
      BY <1>2, <2>1, <3>1 DEF GoneForGood
    <3> QED
      BY <1>10, <3>2
  <2>3. UpToDate'
    BY <1>1, <1>22, <2>1 DEF UpToDate, HasDocument
  <2> QED
    BY <1>1, <2>1, <2>2, <2>3 DEF Alone
<1> QED
  BY <1>12, <1>15, <1>17, <1>18, <1>19, <1>20, <1>21, <1>23 DEF EditingInv

\* The second request of a confirmation carries on with the document of the first.
LEMMA SaveThenConfirmKeeps ==
  ASSUME EditingInv, NEW r \in wire, r.answer = "ok", SaveThenConfirm(r), UNCHANGED asked,
         UNCHANGED phoneVars
  PROVE EditingInv'
<1> DEFINE s == Request("confirm", r.rid, r.body)
<1>1. /\ page' = page /\ srv' = srv /\ acked' = acked /\ lost' = lost /\ asShown' = asShown
      /\ phone' = phone /\ calls' = calls /\ overlapped' = overlapped /\ asked' = asked
      /\ wire' = (wire \ {r}) \cup {s} /\ r.op = "saveAndConfirm"
  BY DEF phoneVars, SaveThenConfirm, serverVars
<1>2. r \in Requests /\ wire \subseteq Requests
  BY DEF EditingInv, EditingTypeOK, WorkspaceTypeOK
<1>3. /\ s.op = "confirm" /\ s.rid = r.rid /\ s.body = r.body /\ s.answer = "none"
      /\ s \in Requests
  BY <1>2, RequestParts DEF Request, Requests, Ops
<1> HIDE DEF s
<1>4. r \in Mutations /\ Mutations = {r}
  BY <1>1 DEF EditingInv, WireFacts, Mutations
<1>5. Mutations' = {s} /\ Gets' = Gets
  BY <1>1, <1>3, <1>4 DEF Mutations, Gets
<1>6. EditingTypeOK'
  BY <1>1, <1>2, <1>3 DEF EditingInv, EditingTypeOK, ServerTypeOK, WorkspaceTypeOK,
              PhoneTypeOK
<1>7. PageFacts' /\ EditsStayInTheirReport' /\ SavedEditsAreLostOnlyToOlderCopies'
  BY <1>1 DEF EditingInv, PageFacts, OneReport, EditsStayInTheirReport,
              SavedEditsAreLostOnlyToOlderCopies
<1>8. WireFacts'
  BY <1>1, <1>3, <1>4, <1>5 DEF EditingInv, WireFacts, OneReport
<1>9. DeskFacts' /\ ShownFacts'
  BY <1>1, <1>3, <1>4, <1>5 DEF EditingInv, DeskFacts, ShownFacts, IsSaved
<1>10. PhoneFacts'
  BY <1>1 DEF EditingInv, PhoneFacts, OneReport
<1>11. QuietFacts'
  BY <1>1, <1>3, <1>4, <1>5
     DEF EditingInv, QuietFacts, Alone, GoneForGood, Gone, Stored,
              UpToDate, HasDocument
<1> QED
  BY <1>6, <1>7, <1>8, <1>9, <1>10, <1>11 DEF EditingInv

\* The confirmed document has reached the server, and if it is the current
\* report's, it is the page's.
LEMMA ConfirmAnsweredKeeps ==
  ASSUME EditingInv, NEW r \in wire, r.answer = "ok", ConfirmAnswered(r), UNCHANGED asked,
         UNCHANGED phoneVars
  PROVE EditingInv'
<1> USE EditingAssumption DEF EditingAssumption
<1>1. /\ srv' = srv /\ lost' = lost /\ page' = page /\ asked' = asked
      /\ phone' = phone /\ calls' = calls /\ overlapped' = overlapped
      /\ wire' = {q \in wire \ {r} : q.op # "get"} \cup {Get} /\ r.op = "confirm"
      /\ acked' = acked \cup {e \in r.body : e[1] = srv.id /\ e[2] \in DeskEdits}
      /\ asShown' = (r.rid = srv.id /\ r.body = page.document)
  BY DEF phoneVars, ConfirmAnswered, Acknowledge
<1>2. Get.op = "get" /\ Get.answer = "none" /\ Get \in Requests
  BY RequestParts DEF Get, Request, Requests, Ops, Documents
<1>3. /\ r \in Mutations /\ Mutations = {r} /\ r.rid \in 1..page.loaded
      /\ \A e \in r.body : e[1] = r.rid
      /\ r.rid = page.loaded => r.body \subseteq page.document
      /\ srv.status = "confirmed"
  BY <1>1 DEF EditingInv, WireFacts, Mutations
<1>4. Mutations' = {} /\ Gets' = {Get}
  BY <1>1, <1>2, <1>3 DEF Mutations, Gets
<1>5. /\ page.loaded \in 1..MaxReports /\ srv.id \in 1..MaxReports /\ page.loaded <= srv.id
      /\ r.body \in Documents /\ acked \in Documents /\ wire \subseteq Requests
  BY DEF EditingInv, EditingTypeOK, WorkspaceTypeOK, ServerTypeOK, Rows, PageFacts, Requests
<1>6. r.rid = srv.id => page.loaded = srv.id
  BY <1>3, <1>5
<1>7. acked' \in Documents /\ asShown' \in BOOLEAN
  BY <1>1, <1>5 DEF Documents
<1>8. wire' \subseteq Requests
  BY <1>1, <1>2, <1>5
<1>9. EditingTypeOK'
  BY <1>1, <1>7, <1>8 DEF EditingInv, EditingTypeOK, ServerTypeOK, WorkspaceTypeOK,
              PhoneTypeOK
<1>10. r.rid = srv.id => \A e \in r.body : e[2] \in DeskEdits => e \in srv.content \cup lost
  BY <1>3, <1>1 DEF EditingInv, DeskFacts, IsSaved
<1>11. PageFacts' /\ EditsStayInTheirReport' /\ SavedEditsAreLostOnlyToOlderCopies'
  BY <1>1, <1>3, <1>10 DEF EditingInv, PageFacts, OneReport, EditsStayInTheirReport,
              SavedEditsAreLostOnlyToOlderCopies
<1>12. WireFacts'
  BY <1>2, <1>4 DEF WireFacts
<1>13. DeskFacts' /\ ShownFacts'
  BY <1>1, <1>3, <1>4, <1>6, <1>10 DEF EditingInv, DeskFacts, ShownFacts
<1>14. PhoneFacts'
  BY <1>1 DEF EditingInv, PhoneFacts, OneReport
<1>15. \A e : e[2] \in PhoneEdits => (e \in acked' <=> e \in acked)
  BY <1>1
<1>16. QuietFacts'
  <2> SUFFICES ASSUME ~overlapped PROVE Alone' /\ GoneForGood' /\ UpToDate'
    BY <1>1 DEF QuietFacts
  <2>1. Alone /\ GoneForGood /\ UpToDate
    BY DEF EditingInv, QuietFacts
  <2>2. GoneForGood'
    BY <1>1, <1>4, <1>15, <2>1 DEF GoneForGood, Gone, Stored
  <2>3. UpToDate'
    BY <1>1, <1>15, <2>1 DEF UpToDate, HasDocument
  <2> QED
    BY <1>1, <2>1, <2>2, <2>3 DEF Alone
<1> QED
  BY <1>9, <1>11, <1>12, <1>13, <1>14, <1>16 DEF EditingInv

\* A request that is given up takes nothing with it.
LEMMA FailKeeps ==
  ASSUME EditingInv, NEW r \in wire, Fail(r), UNCHANGED phoneVars PROVE EditingInv'
<1>1. /\ srv' = srv /\ acked' = acked /\ lost' = lost /\ asShown' = asShown /\ asked' = asked
      /\ phone' = phone /\ calls' = calls /\ overlapped' = overlapped /\ wire' = wire \ {r}
      /\ page' = [page EXCEPT !.failed = page.failed \/ r.op = "get"]
  BY DEF phoneVars, Fail, serverVars
<1>2. /\ page \in [cache : Rows, loaded : 1..MaxReports, document : Documents,
                   failed : BOOLEAN]
  BY DEF EditingInv, EditingTypeOK, WorkspaceTypeOK
<1>3. PICK failed \in BOOLEAN : page' = [page EXCEPT !.failed = failed]
  BY <1>1
<1>4. /\ page' \in [cache : Rows, loaded : 1..MaxReports, document : Documents,
                    failed : BOOLEAN]
      /\ page'.cache = page.cache /\ page'.loaded = page.loaded
      /\ page'.document = page.document
  BY <1>2, <1>3
<1>5. EditingTypeOK'
  BY <1>1, <1>4 DEF EditingInv, EditingTypeOK, ServerTypeOK, WorkspaceTypeOK,
              PhoneTypeOK
<1>6. Mutations' \subseteq Mutations /\ Gets' \subseteq Gets
  BY <1>1 DEF Mutations, Gets
<1>7. PageFacts' /\ EditsStayInTheirReport' /\ SavedEditsAreLostOnlyToOlderCopies'
  BY <1>1, <1>4 DEF EditingInv, PageFacts, OneReport, EditsStayInTheirReport,
              SavedEditsAreLostOnlyToOlderCopies
<1>8. WireFacts'
  BY <1>1, <1>4, <1>6 DEF EditingInv, WireFacts, OneReport
<1>9. DeskFacts' /\ ShownFacts'
  BY <1>1, <1>4, <1>6 DEF EditingInv, DeskFacts, ShownFacts, IsSaved
<1>10. PhoneFacts'
  BY <1>1 DEF EditingInv, PhoneFacts, OneReport
<1>11. QuietFacts'
  BY <1>1, <1>4, <1>6
     DEF EditingInv, QuietFacts, Alone, GoneForGood, Gone, Stored,
              UpToDate, HasDocument
<1> QED
  BY <1>5, <1>7, <1>8, <1>9, <1>10, <1>11 DEF EditingInv

\* Every step of the page's preserves EditingInv.
LEMMA WorkspaceKeeps == ASSUME EditingInv, WorkspaceNext, UNCHANGED phoneVars PROVE EditingInv'
<1>1. CASE Fetch
  BY <1>1, FetchKeeps
<1>2. CASE Save \/ Confirm
  BY <1>2, SendKeeps DEF Save, Confirm
<1>3. ASSUME NEW e \in DeskEdits, Type(e) PROVE EditingInv'
  BY <1>3, TypeKeeps
<1>4. ASSUME NEW r \in wire, Serve(r) PROVE EditingInv'
  <2>1. /\ r.answer = "none" /\ UNCHANGED <<asked, page, asShown>>
        /\ r \in Requests
    BY <1>4 DEF Serve, EditingInv, EditingTypeOK, WorkspaceTypeOK
  <2>2. CASE r.op = "get" /\ Answered(r, "ok") /\ UNCHANGED serverVars
    BY <2>1, <2>2, ServeReadKeeps DEF serverVars
  <2>3. CASE r.op \in {"save", "saveAndConfirm"} /\ Answered(r, "refused") /\ UNCHANGED serverVars
    BY <2>1, <2>3, ServeReadKeeps DEF serverVars
  <2>4. CASE /\ r.op \in {"save", "saveAndConfirm"} /\ AcceptsDocument(r.rid)
             /\ SaveDocument(r.body, DeskEdits, FALSE) /\ Answered(r, "ok")
    BY <2>1, <2>4, ServeSaveKeeps
  <2>5. CASE /\ r.op = "confirm" /\ ConfirmOrRefuse
             /\ Answered(r, IF srv'.status = "confirmed" THEN "ok" ELSE "refused")
    <3>1. /\ srv' = srv \/ srv' = [srv EXCEPT !.status = "confirmed"]
          /\ UNCHANGED <<acked, lost>>
      BY <2>5 DEF ConfirmOrRefuse
    <3> QED
      BY <2>1, <2>5, <3>1, ServeReadKeeps
  <2> QED
    BY <1>4, <2>2, <2>3, <2>4, <2>5 DEF Serve
<1>5. ASSUME NEW r \in wire, Answer(r) PROVE EditingInv'
  BY <1>5, FetchAnsweredKeeps, SaveAnsweredKeeps, SaveThenConfirmKeeps, ConfirmAnsweredKeeps
     DEF Answer
<1>6. ASSUME NEW r \in wire, Fail(r) PROVE EditingInv'
  BY <1>6, FailKeeps
<1> QED
  BY <1>1, <1>2, <1>3, <1>4, <1>5, <1>6 DEF WorkspaceNext

-----------------------------------------------------------------------------
(* The phone                                                               *)

\* Calls other than saves carry nothing.
LEMMA StartKeeps ==
  ASSUME EditingInv, NEW op \in {"dismiss", "confirm"}, Start(Call(op, NoDetail, {})),
         UNCHANGED workspaceVars
  PROVE EditingInv'
<1> USE EditingAssumption DEF EditingAssumption
<1> DEFINE c == Call(op, NoDetail, {})
<1>1. /\ page' = page /\ wire' = wire /\ asShown' = asShown /\ phone' = phone
      /\ srv' = srv /\ acked' = acked /\ lost' = lost /\ calls' = calls \cup {c}
      /\ (overlapped \/ SavesBullet => overlapped') /\ overlapped' \in BOOLEAN
  BY DEF workspaceVars, Start, serverVars, EditingInv, EditingTypeOK,
         PhoneTypeOK
<1>2. c.op = op /\ c.answer = "none" /\ c \in PhoneCalls
  BY CallParts DEF Call, PhoneCalls, Documents
<1> HIDE DEF c
<1>3. asked' \in 0..MaxRequests
  BY DEF Start, Ask, EditingInv, EditingTypeOK, ServerTypeOK
<1>4. EditingTypeOK'
  BY <1>1, <1>2, <1>3 DEF EditingInv, EditingTypeOK, ServerTypeOK, WorkspaceTypeOK,
              PhoneTypeOK
<1>5. PageFacts' /\ EditsStayInTheirReport' /\ SavedEditsAreLostOnlyToOlderCopies'
  BY <1>1 DEF EditingInv, PageFacts, OneReport, EditsStayInTheirReport,
              SavedEditsAreLostOnlyToOlderCopies
<1>6. WireFacts' /\ DeskFacts' /\ ShownFacts'
  BY <1>1 DEF EditingInv, WireFacts, DeskFacts, ShownFacts, IsSaved, OneReport,
              Gets, Mutations
<1>7. PhoneFacts'
  BY <1>1, <1>2 DEF EditingInv, PhoneFacts, OneReport
<1>8. QuietFacts'
  BY <1>1, <1>2 DEF EditingInv, QuietFacts, SavesBullet, Alone, GoneForGood, Gone, Stored, UpToDate,
                    HasDocument, Mutations
<1> QED
  BY <1>4, <1>5, <1>6, <1>7, <1>8 DEF EditingInv

\* A bullet that is saved is put into the document the screen shows.
LEMMA SaveBulletKeeps ==
  ASSUME EditingInv, NEW e \in PhoneEdits, SaveBullet(e), UNCHANGED workspaceVars
  PROVE EditingInv'
<1> USE EditingAssumption DEF EditingAssumption
<1> DEFINE typed == <<phone.detail.id, e>>
           body == phone.detail.content \cup {typed}
           c == Call("save", phone.detail, body)
<1>1. /\ page' = page /\ wire' = wire /\ asShown' = asShown /\ phone' = phone
      /\ srv' = srv /\ acked' = acked /\ lost' = lost /\ calls' = calls \cup {c}
      /\ (overlapped \/ SavesBullet => overlapped') /\ overlapped' \in BOOLEAN
      /\ phone.detail # NoDetail /\ typed \notin acked
  BY DEF workspaceVars, SaveBullet, Usable, Start, serverVars, EditingInv, EditingTypeOK,
         PhoneTypeOK
<1>2. ~overlapped' => calls = {}
  <2>1. Start(c) /\ c.op = "save"
    BY CallParts DEF SaveBullet
  <2> HIDE DEF c
  <2> QED
    BY <2>1 DEF Start
<1>3. phone.detail \in Rows /\ OneReport(phone.detail) /\ phone.detail.id <= srv.id
  BY <1>1 DEF EditingInv, PhoneFacts, EditingTypeOK, PhoneTypeOK
<1>4. typed \in Edits /\ typed[1] = phone.detail.id
  BY <1>3 DEF Edits, Names, Rows
<1>5. body \in Documents /\ phone.detail.content \subseteq body
      /\ \A b \in body : b[1] = phone.detail.id /\ (b \in acked => b \in phone.detail.content)
  BY <1>1, <1>3, <1>4 DEF Rows, Documents, OneReport
<1> HIDE DEF typed, body
<1>6. /\ c.op = "save" /\ c.base = phone.detail /\ c.body = body /\ c.answer = "none"
      /\ c \in PhoneCalls
  BY <1>3, <1>5, CallParts DEF Call, PhoneCalls
<1> HIDE DEF c
<1>7. asked' \in 0..MaxRequests
  BY DEF SaveBullet, Start, Ask, EditingInv, EditingTypeOK, ServerTypeOK
<1>8. EditingTypeOK'
  BY <1>1, <1>6, <1>7 DEF EditingInv, EditingTypeOK, ServerTypeOK, WorkspaceTypeOK,
              PhoneTypeOK
<1>9. PageFacts' /\ EditsStayInTheirReport' /\ SavedEditsAreLostOnlyToOlderCopies'
  BY <1>1 DEF EditingInv, PageFacts, OneReport, EditsStayInTheirReport,
              SavedEditsAreLostOnlyToOlderCopies
<1>10. WireFacts' /\ DeskFacts' /\ ShownFacts'
  BY <1>1 DEF EditingInv, WireFacts, DeskFacts, ShownFacts, IsSaved, OneReport,
              Gets, Mutations
<1>11. PhoneFacts'
  BY <1>1, <1>3, <1>5, <1>6 DEF EditingInv, PhoneFacts, OneReport
<1>12. QuietFacts'
  <2> SUFFICES ASSUME ~overlapped' PROVE Alone' /\ GoneForGood' /\ UpToDate'
    BY DEF QuietFacts
  <2>1. calls' = {c} /\ GoneForGood /\ UpToDate
    BY <1>1, <1>2 DEF EditingInv, QuietFacts
  <2>2. GoneForGood'
    BY <1>1, <1>6, <2>1 DEF GoneForGood, Gone, Stored, Mutations
  <2>3. UpToDate'
    BY <1>1, <1>5, <1>6, <2>1 DEF UpToDate, HasDocument
  <2> QED
    BY <2>1, <2>2, <2>3 DEF Alone
<1> QED
  BY <1>8, <1>9, <1>10, <1>11, <1>12 DEF EditingInv

\* A call that changes at most the showing's status.
LEMMA ServeReviewKeeps ==
  ASSUME EditingInv, NEW c \in calls, NEW verdict \in {"ok", "refused"}, Verdict(c, verdict),
         c.op = "save" => verdict = "refused",
         UNCHANGED <<asked, phone, overlapped>>, UNCHANGED workspaceVars,
         UNCHANGED <<acked, lost>>, srv' = srv \/ srv' = [srv EXCEPT !.status = "confirmed"],
         c.op = "load" => srv' = srv
  PROVE EditingInv'
<1> USE EditingAssumption DEF EditingAssumption
<1>1. /\ page' = page /\ wire' = wire /\ asShown' = asShown /\ asked' = asked
      /\ acked' = acked /\ lost' = lost /\ phone' = phone /\ overlapped' = overlapped
  BY DEF workspaceVars
<1>2. EditingTypeOK /\ srv \in Rows
  BY DEF EditingInv, EditingTypeOK, ServerTypeOK
<1>3. /\ srv' \in Rows /\ srv'.id = srv.id /\ srv'.content = srv.content
      /\ srv.status = "confirmed" => srv'.status = "confirmed"
  BY <1>2 DEF Rows
<1>4. /\ calls' \subseteq PhoneCalls
      /\ \A d \in calls' :
           \/ d \in calls /\ d # c
           \/ /\ d.op = c.op /\ d.base = c.base /\ d.body = c.body /\ d.answer = verdict
              /\ c.op = "load" => d.got = srv
  BY <1>2, VerdictParts
<1>5. EditingTypeOK'
  BY <1>1, <1>3, <1>4 DEF EditingInv, EditingTypeOK, ServerTypeOK, WorkspaceTypeOK,
              PhoneTypeOK
<1>6. PageFacts' /\ EditsStayInTheirReport' /\ SavedEditsAreLostOnlyToOlderCopies'
  BY <1>1, <1>3 DEF EditingInv, PageFacts, OneReport, EditsStayInTheirReport,
                    SavedEditsAreLostOnlyToOlderCopies
<1>7. WireFacts' /\ DeskFacts' /\ ShownFacts'
  BY <1>1, <1>3 DEF EditingInv, WireFacts, DeskFacts, ShownFacts, IsSaved, OneReport,
              Gets, Mutations
<1>8. OneReport(srv) /\ srv.id <= srv.id
  BY <1>2 DEF EditingInv, EditsStayInTheirReport, OneReport, Rows
<1>9. PhoneFacts'
  BY <1>1, <1>2, <1>3, <1>4, <1>8 DEF EditingInv, PhoneFacts, OneReport
<1>10. QuietFacts'
  <2> SUFFICES ASSUME ~overlapped PROVE Alone' /\ GoneForGood' /\ UpToDate'
    BY <1>1 DEF QuietFacts
  <2>1. Alone /\ GoneForGood /\ UpToDate
    BY DEF EditingInv, QuietFacts
  <2>2. Alone'
    BY <1>4, <2>1 DEF Alone, Verdict
  <2>3. GoneForGood'
    BY <1>1, <1>3, <1>4, <2>1 DEF GoneForGood, Gone, Stored, Mutations
  <2>4. UpToDate'
    BY <1>1, <1>3, <1>4, <2>1 DEF UpToDate, HasDocument
  <2> QED
    BY <2>2, <2>3, <2>4
<1> QED
  BY <1>5, <1>6, <1>7, <1>9, <1>10 DEF EditingInv

\* A bullet's document drops other edits into `lost`; alone, none of the phone's.
LEMMA ServeBulletKeeps ==
  ASSUME EditingInv, NEW c \in calls, c.op = "save", AcceptsDocument(c.base.id),
         SaveDocument(c.body, PhoneEdits, overlapped), Verdict(c, "ok"),
         UNCHANGED <<asked, phone, overlapped>>, UNCHANGED workspaceVars
  PROVE EditingInv'
<1> USE EditingAssumption DEF EditingAssumption
<1>1. /\ page' = page /\ wire' = wire /\ asShown' = asShown /\ asked' = asked
      /\ phone' = phone /\ overlapped' = overlapped
  BY DEF workspaceVars
<1>2. EditingTypeOK /\ c \in PhoneCalls /\ overlapped \in BOOLEAN
  BY DEF EditingInv, EditingTypeOK, PhoneTypeOK
<1>3. /\ c.body \in Documents /\ c.base.id = srv.id
      /\ \A e \in c.body : e[1] = srv.id
  BY <1>2 DEF PhoneCalls, AcceptsDocument, EditingInv, PhoneFacts
<1>4. /\ srv' \in Rows /\ srv'.status = srv.status /\ srv'.id = srv.id /\ srv'.content = c.body
      /\ lost' \in Documents /\ acked' = acked
      /\ \A e \in srv.content \cup lost :
           \/ e \in c.body \/ e \in lost'
           \/ e \in srv.content /\ e[2] \in PhoneEdits /\ ~overlapped
  BY <1>2, <1>3, SaveParts
<1>5. /\ calls' \subseteq PhoneCalls
      /\ \A d \in calls' :
           \/ d \in calls /\ d # c
           \/ d.op = c.op /\ d.base = c.base /\ d.body = c.body /\ d.answer = "ok"
  BY <1>2, VerdictParts
<1>6. ~overlapped => \A e \in acked : e[2] \in PhoneEdits /\ e \in srv.content => e \in c.body
  BY <1>3 DEF EditingInv, QuietFacts, UpToDate, HasDocument
<1>7. ~overlapped => \A d \in calls' :
        d.op = c.op /\ d.base = c.base /\ d.body = c.body /\ d.answer = "ok"
  BY <1>5 DEF EditingInv, QuietFacts, Alone
<1>8. EditingTypeOK'
  BY <1>1, <1>4, <1>5 DEF EditingInv, EditingTypeOK, ServerTypeOK, WorkspaceTypeOK,
              PhoneTypeOK
<1>9. PageFacts' /\ EditsStayInTheirReport' /\ SavedEditsAreLostOnlyToOlderCopies'
  BY <1>1, <1>3, <1>4, <1>6 DEF EditingInv, PageFacts, OneReport, EditsStayInTheirReport,
                    SavedEditsAreLostOnlyToOlderCopies
<1>10. WireFacts'
  BY <1>1, <1>4 DEF EditingInv, WireFacts, OneReport, Gets, Mutations
<1>11. DeskFacts' /\ ShownFacts'
  BY <1>1, <1>4 DEF EditingInv, DeskFacts, ShownFacts, IsSaved, Mutations
<1>12. PhoneFacts'
  <2>1. \A d \in calls' : d.op = "load" /\ d.answer = "ok" =>
          d.got \in Rows /\ OneReport(d.got) /\ d.got.id <= srv.id
    BY <1>5 DEF EditingInv, PhoneFacts
  <2>2. \A d \in calls' : d.op = "save" =>
          /\ d.base \in Rows /\ OneReport(d.base) /\ d.base.id <= srv.id
          /\ \A e \in d.body : e[1] = d.base.id
    BY <1>5 DEF EditingInv, PhoneFacts
  <2>3. \A d \in calls' : d.op = "save" /\ d.answer = "ok" /\ d.base.id = srv.id =>
          \A e \in d.body : e[2] \in PhoneEdits => e \in c.body \cup lost'
    BY <1>4, <1>5, <1>7 DEF EditingInv, PhoneFacts
  <2> QED
    BY <1>1, <1>4, <2>1, <2>2, <2>3 DEF EditingInv, PhoneFacts, OneReport
<1>13. QuietFacts'
  <2> SUFFICES ASSUME ~overlapped PROVE Alone' /\ GoneForGood' /\ UpToDate'
    BY <1>1 DEF QuietFacts
  <2>1. Alone /\ GoneForGood /\ UpToDate
    BY DEF EditingInv, QuietFacts
  <2>2. Alone'
    BY <2>1 DEF Alone, Verdict
  <2>3. \A e : Gone(e)' => Gone(e)
    BY <1>4, <1>6, <1>7 DEF Gone, Stored
  <2>4. GoneForGood'
    BY <1>1, <1>4, <2>1, <2>3 DEF GoneForGood, Mutations
  <2>5. UpToDate'
    <3>1. phone.detail = c.base
          /\ \A e \in c.body : e[2] \in PhoneEdits /\ e \in acked => e \in c.base.content
      BY <2>1 DEF UpToDate
    <3> QED
      BY <1>1, <1>4, <1>7, <3>1 DEF UpToDate, HasDocument
  <2> QED
    BY <2>2, <2>4, <2>5
<1> QED
  BY <1>8, <1>9, <1>10, <1>11, <1>12, <1>13 DEF EditingInv

\* A save that is answered was the only one, or the phone's edits are anybody's.
LEMMA SaveToldKeeps ==
  ASSUME EditingInv, NEW c \in calls, c.answer = "ok", SaveTold(c), UNCHANGED asked,
         UNCHANGED workspaceVars
  PROVE EditingInv'
<1> USE EditingAssumption DEF EditingAssumption
<1>1. /\ page' = page /\ wire' = wire /\ asShown' = asShown /\ asked' = asked
      /\ srv' = srv /\ lost' = lost /\ overlapped' = overlapped
      /\ calls' = calls \ {c} /\ c.op = "save"
      /\ acked' = acked \cup {e \in c.body : e[1] = srv.id /\ e[2] \in PhoneEdits}
      /\ phone' = [phone EXCEPT !.detail = [c.base EXCEPT !.content = c.body]]
  BY DEF workspaceVars, SaveTold, Acknowledge
<1>2. /\ c.base \in Rows /\ c.base.id <= srv.id /\ \A e \in c.body : e[1] = c.base.id
      /\ c.base.id = srv.id =>
           \A e \in c.body : e[2] \in PhoneEdits => e \in srv.content \cup lost
  BY <1>1 DEF EditingInv, PhoneFacts
<1>3. c.body \in Documents /\ acked \in Documents /\ phone \in [detail : Rows \cup {NoDetail},
                                                              loading : BOOLEAN]
  BY DEF EditingInv, EditingTypeOK, PhoneTypeOK, PhoneCalls, ServerTypeOK
<1>4. PICK d : d = [c.base EXCEPT !.content = c.body]
  OBVIOUS
<1>5. d \in Rows /\ d.id = c.base.id /\ d.content = c.body
  BY <1>2, <1>3, <1>4 DEF Rows
<1>6. phone' = [phone EXCEPT !.detail = d]
  BY <1>1, <1>4
<1>7. phone' \in [detail : Rows \cup {NoDetail}, loading : BOOLEAN] /\ phone'.detail = d
  BY <1>3, <1>5, <1>6
<1>8. acked' \in Documents
  BY <1>1, <1>3 DEF Documents
<1>9. EditingTypeOK'
  BY <1>1, <1>7, <1>8 DEF EditingInv, EditingTypeOK, ServerTypeOK, WorkspaceTypeOK,
              PhoneTypeOK
<1>10. PageFacts' /\ EditsStayInTheirReport' /\ SavedEditsAreLostOnlyToOlderCopies'
  BY <1>1, <1>2 DEF EditingInv, PageFacts, OneReport, EditsStayInTheirReport,
                    SavedEditsAreLostOnlyToOlderCopies
<1>11. \A e \in acked' : e[2] \in DeskEdits => e \in acked
  BY <1>1
<1>12. WireFacts' /\ DeskFacts' /\ ShownFacts'
  BY <1>1, <1>11
     DEF EditingInv, WireFacts, DeskFacts, ShownFacts, IsSaved, OneReport,
              Gets, Mutations
<1>13. PhoneFacts'
  BY <1>1, <1>2, <1>5, <1>7 DEF EditingInv, PhoneFacts, OneReport
<1>14. QuietFacts'
  <2> SUFFICES ASSUME ~overlapped PROVE Alone' /\ GoneForGood' /\ UpToDate'
    BY <1>1 DEF QuietFacts
  <2>1. calls' = {} /\ GoneForGood /\ UpToDate
    BY <1>1 DEF EditingInv, QuietFacts, Alone
  <2>2. \A e : Gone(e)' => Gone(e)
    BY <1>1, <1>2, <2>1 DEF Gone, Stored
  <2>3. GoneForGood'
    BY <1>1, <2>1, <2>2 DEF GoneForGood, Mutations
  <2>4. c.base.id = srv.id =>
          \A e \in acked' : e[2] \in PhoneEdits /\ e \in srv.content => e \in c.body
    BY <1>1, <2>1 DEF UpToDate, HasDocument
  <2>5. UpToDate'
    BY <1>1, <1>5, <1>7, <2>1, <2>4 DEF UpToDate, HasDocument
  <2> QED
    BY <2>1, <2>3, <2>5 DEF Alone
<1> QED
  BY <1>9, <1>10, <1>12, <1>13, <1>14 DEF EditingInv

\* What was loaded is shown.
LEMMA LoadToldKeeps ==
  ASSUME EditingInv, NEW c \in calls, c.answer = "ok", LoadTold(c), UNCHANGED asked,
         UNCHANGED workspaceVars
  PROVE EditingInv'
<1>1. /\ page' = page /\ wire' = wire /\ asShown' = asShown /\ asked' = asked
      /\ srv' = srv /\ lost' = lost /\ acked' = acked /\ overlapped' = overlapped
      /\ calls' = calls \ {c} /\ c.op = "load"
      /\ phone' = [phone EXCEPT !.detail = c.got, !.loading = FALSE]
  BY DEF workspaceVars, LoadTold, serverVars
<1>2. c.got \in Rows /\ c.got.id <= srv.id /\ OneReport(c.got)
  BY <1>1 DEF EditingInv, PhoneFacts
<1>3. phone \in [detail : Rows \cup {NoDetail}, loading : BOOLEAN]
  BY DEF EditingInv, EditingTypeOK, PhoneTypeOK
<1>4. phone' = [detail |-> c.got, loading |-> FALSE]
  BY <1>1, <1>3
<1>5. phone' \in [detail : Rows \cup {NoDetail}, loading : BOOLEAN] /\ phone'.detail = c.got
  BY <1>2, <1>4
<1>6. EditingTypeOK'
  BY <1>1, <1>5 DEF EditingInv, EditingTypeOK, ServerTypeOK, WorkspaceTypeOK,
              PhoneTypeOK
<1>7. PageFacts' /\ EditsStayInTheirReport' /\ SavedEditsAreLostOnlyToOlderCopies'
  BY <1>1 DEF EditingInv, PageFacts, OneReport, EditsStayInTheirReport,
              SavedEditsAreLostOnlyToOlderCopies
<1>8. WireFacts' /\ DeskFacts' /\ ShownFacts'
  BY <1>1 DEF EditingInv, WireFacts, DeskFacts, ShownFacts, IsSaved, OneReport,
              Gets, Mutations
<1>9. PhoneFacts'
  BY <1>1, <1>2, <1>5 DEF EditingInv, PhoneFacts, OneReport
<1>10. QuietFacts'
  <2> SUFFICES ASSUME ~overlapped PROVE Alone' /\ GoneForGood' /\ UpToDate'
    BY <1>1 DEF QuietFacts
  <2>1. Alone /\ GoneForGood /\ UpToDate /\ \A d \in calls : d.op # "save"
    BY <1>1 DEF EditingInv, QuietFacts, Alone
  <2>2. Alone' /\ GoneForGood'
    BY <1>1, <2>1 DEF Alone, GoneForGood, Gone, Stored, Mutations
  <2>3. UpToDate'
    BY <1>1, <1>5, <2>1 DEF UpToDate, HasDocument
  <2> QED
    BY <2>2, <2>3
<1> QED
  BY <1>6, <1>7, <1>8, <1>9, <1>10 DEF EditingInv

\* After a dismissal or a confirmation the showing is loaded again.
LEMMA ReviewToldKeeps ==
  ASSUME EditingInv, NEW c \in calls, ReviewTold(c), UNCHANGED asked, UNCHANGED workspaceVars
  PROVE EditingInv'
<1>1. /\ page' = page /\ wire' = wire /\ asShown' = asShown /\ asked' = asked
      /\ srv' = srv /\ lost' = lost /\ acked' = acked /\ overlapped' = overlapped
      /\ calls' = (calls \ {c}) \cup {Load} /\ c.op \in {"dismiss", "confirm"}
      /\ phone' = [phone EXCEPT !.loading = TRUE]
  BY DEF workspaceVars, ReviewTold, serverVars
<1>2. phone \in [detail : Rows \cup {NoDetail}, loading : BOOLEAN]
  BY DEF EditingInv, EditingTypeOK, PhoneTypeOK
<1>3. phone' \in [detail : Rows \cup {NoDetail}, loading : BOOLEAN]
      /\ phone'.detail = phone.detail
  BY <1>1, <1>2
<1>4. Load \in PhoneCalls /\ Load.op = "load" /\ Load.answer = "none"
  BY DEF Load, Call, PhoneCalls, Documents
<1>5. EditingTypeOK'
  BY <1>1, <1>3, <1>4 DEF EditingInv, EditingTypeOK, ServerTypeOK, WorkspaceTypeOK,
              PhoneTypeOK
<1>6. PageFacts' /\ EditsStayInTheirReport' /\ SavedEditsAreLostOnlyToOlderCopies'
  BY <1>1 DEF EditingInv, PageFacts, OneReport, EditsStayInTheirReport,
              SavedEditsAreLostOnlyToOlderCopies
<1>7. WireFacts' /\ DeskFacts' /\ ShownFacts'
  BY <1>1 DEF EditingInv, WireFacts, DeskFacts, ShownFacts, IsSaved, OneReport,
              Gets, Mutations
<1>8. PhoneFacts'
  BY <1>1, <1>3, <1>4 DEF EditingInv, PhoneFacts, OneReport
<1>9. QuietFacts'
  <2> SUFFICES ASSUME ~overlapped PROVE Alone' /\ GoneForGood' /\ UpToDate'
    BY <1>1 DEF QuietFacts
  <2>1. Alone /\ GoneForGood /\ UpToDate /\ \A d \in calls : d.op # "save"
    BY <1>1 DEF EditingInv, QuietFacts, Alone
  <2>2. \A d \in calls' : d.op # "save"
    BY <1>1, <1>4, <2>1
  <2>3. Alone' /\ GoneForGood'
    BY <1>1, <2>1, <2>2 DEF Alone, GoneForGood, Gone, Stored, Mutations
  <2>4. UpToDate'
    BY <1>1, <1>3, <1>4, <2>1 DEF UpToDate, HasDocument
  <2> QED
    BY <2>3, <2>4
<1> QED
  BY <1>5, <1>6, <1>7, <1>8, <1>9 DEF EditingInv

\* A call that fails takes nothing with it.
LEMMA CallFailsKeeps ==
  ASSUME EditingInv, NEW c \in calls, CallFails(c), UNCHANGED workspaceVars
  PROVE EditingInv'
<1>1. /\ page' = page /\ wire' = wire /\ asShown' = asShown /\ asked' = asked
      /\ srv' = srv /\ lost' = lost /\ acked' = acked /\ overlapped' = overlapped
      /\ calls' = calls \ {c}
      /\ phone' = [phone EXCEPT !.loading = phone.loading /\ c.op # "load"]
  BY DEF workspaceVars, CallFails, serverVars
<1>2. phone \in [detail : Rows \cup {NoDetail}, loading : BOOLEAN]
  BY DEF EditingInv, EditingTypeOK, PhoneTypeOK
<1>3. PICK loading \in BOOLEAN : phone' = [phone EXCEPT !.loading = loading]
  BY <1>1
<1>4. phone' \in [detail : Rows \cup {NoDetail}, loading : BOOLEAN]
      /\ phone'.detail = phone.detail
  BY <1>2, <1>3
<1>5. EditingTypeOK'
  BY <1>1, <1>4 DEF EditingInv, EditingTypeOK, ServerTypeOK, WorkspaceTypeOK,
              PhoneTypeOK
<1>6. PageFacts' /\ EditsStayInTheirReport' /\ SavedEditsAreLostOnlyToOlderCopies'
  BY <1>1 DEF EditingInv, PageFacts, OneReport, EditsStayInTheirReport,
              SavedEditsAreLostOnlyToOlderCopies
<1>7. WireFacts' /\ DeskFacts' /\ ShownFacts'
  BY <1>1 DEF EditingInv, WireFacts, DeskFacts, ShownFacts, IsSaved, OneReport,
              Gets, Mutations
<1>8. PhoneFacts'
  BY <1>1, <1>4 DEF EditingInv, PhoneFacts, OneReport
<1>9. QuietFacts'
  BY <1>1, <1>4 DEF EditingInv, QuietFacts, Alone, GoneForGood, Gone, Stored, UpToDate,
              HasDocument, Mutations
<1> QED
  BY <1>5, <1>6, <1>7, <1>8, <1>9 DEF EditingInv

\* Every step of the phone's preserves EditingInv.
LEMMA PhoneKeeps == ASSUME EditingInv, PhoneNext, UNCHANGED workspaceVars PROVE EditingInv'
<1>1. CASE Dismiss \/ ConfirmOnPhone
  BY <1>1, StartKeeps DEF Dismiss, ConfirmOnPhone
<1>2. ASSUME NEW e \in PhoneEdits, SaveBullet(e) PROVE EditingInv'
  BY <1>2, SaveBulletKeeps
<1>3. ASSUME NEW c \in calls, ServeCall(c) PROVE EditingInv'
  <2>1. UNCHANGED <<asked, phone, overlapped>>
    BY <1>3 DEF ServeCall
  <2>2. CASE c.op \in {"load", "dismiss"} /\ UNCHANGED serverVars /\ Verdict(c, "ok")
    BY <2>1, <2>2, ServeReviewKeeps DEF serverVars
  <2>3. CASE c.op = "save" /\ UNCHANGED serverVars /\ Verdict(c, "refused")
    BY <2>1, <2>3, ServeReviewKeeps DEF serverVars
  <2>4. CASE /\ c.op = "save" /\ AcceptsDocument(c.base.id)
             /\ SaveDocument(c.body, PhoneEdits, overlapped) /\ Verdict(c, "ok")
    BY <2>1, <2>4, ServeBulletKeeps
  <2>5. CASE /\ c.op = "confirm" /\ ConfirmOrRefuse
             /\ Verdict(c, IF srv'.status = "confirmed" THEN "ok" ELSE "refused")
    <3>1. /\ srv' = srv \/ srv' = [srv EXCEPT !.status = "confirmed"]
          /\ UNCHANGED <<acked, lost>>
      BY <2>5 DEF ConfirmOrRefuse
    <3> QED
      BY <2>1, <2>5, <3>1, ServeReviewKeeps
  <2> QED
    BY <1>3, <2>2, <2>3, <2>4, <2>5 DEF ServeCall
<1>4. ASSUME NEW c \in calls, TellPhone(c) PROVE EditingInv'
  BY <1>4, SaveToldKeeps, LoadToldKeeps, ReviewToldKeeps DEF TellPhone
<1>5. ASSUME NEW c \in calls, CallFails(c) PROVE EditingInv'
  BY <1>5, CallFailsKeeps
<1> QED
  BY <1>1, <1>2, <1>3, <1>4, <1>5 DEF PhoneNext

-----------------------------------------------------------------------------
(* The theorems                                                            *)

\* The inductive invariant: whatever the two clients, the server and the network
\* do, EditingInv holds.
THEOREM EditingInvariance == EditingSpec => []EditingInv
<1>1. EditingInv /\ [EditingNext]_editingVars => EditingInv'
  <2> SUFFICES ASSUME EditingInv, [EditingNext]_editingVars PROVE EditingInv'
    OBVIOUS
  <2>1. CASE Redraft /\ UNCHANGED <<workspaceVars, phoneVars>>
    BY <2>1, RedraftKeeps
  <2>2. CASE WorkspaceNext /\ UNCHANGED phoneVars
    BY <2>2, WorkspaceKeeps
  <2>3. CASE PhoneNext /\ UNCHANGED workspaceVars
    BY <2>3, PhoneKeeps
  <2>4. CASE UNCHANGED editingVars
    BY <2>4 DEF editingVars, serverVars, workspaceVars, phoneVars, EditingInv, EditingTypeOK,
       ServerTypeOK, WorkspaceTypeOK, PhoneTypeOK, EditsStayInTheirReport,
       SavedEditsAreLostOnlyToOlderCopies, PageFacts, WireFacts, DeskFacts, PhoneFacts,
       QuietFacts, ShownFacts, Alone, GoneForGood, Gone, Stored, UpToDate, HasDocument, OneReport,
       Gets, Mutations, IsSaved
  <2> QED
    BY <2>1, <2>2, <2>3, <2>4 DEF EditingNext
<1> QED
  BY <1>1, EditingBegins, PTL DEF EditingSpec

\* The pages, the requests and the rows keep their types.
THEOREM EditingTypeCorrect == EditingSpec => []EditingTypeOK
<1>1. EditingInv => EditingTypeOK
  BY DEF EditingInv
<1> QED
  BY <1>1, EditingInvariance, PTL

\* What was typed for one report never gets into the report that replaced it.
THEOREM EditsStay == EditingSpec => []EditsStayInTheirReport
<1>1. EditingInv => EditsStayInTheirReport
  BY DEF EditingInv
<1> QED
  BY <1>1, EditingInvariance, PTL

\* An acknowledged edit leaves the report only by a save of an older copy that is
\* another client's, or is the phone's next to another request of its.
THEOREM SavedEditsStay == EditingSpec => []SavedEditsAreLostOnlyToOlderCopies
<1>1. EditingInv => SavedEditsAreLostOnlyToOlderCopies
  BY DEF EditingInv
<1> QED
  BY <1>1, EditingInvariance, PTL

\* What the dashboard shows as the report it confirmed is in the confirmed report,
\* unless another client saved over it.
THEOREM ConfirmedStays == EditingSpec => []ConfirmedIsOnTheServer
<1>1. EditingInv => ConfirmedIsOnTheServer
  BY DEF EditingInv, ShownFacts, ConfirmedIsOnTheServer
<1> QED
  BY <1>1, EditingInvariance, PTL

=============================================================================
