---------------------------- MODULE ReportServer ----------------------------
(***************************************************************************)
(* What the backend keeps of one showing that the report editors of the    *)
(* dashboard and of the phone read and write.  A handler is one            *)
(* transaction (ReportLifecycle has the detail), so here it is an operator *)
(* that says whether a request is accepted and what it leaves behind.      *)
(*                                                                         *)
(* A report document is the set of edits it contains.  An edit is a pair   *)
(* <<report it was typed for, name>>.                                      *)
(***************************************************************************)
EXTENDS Naturals

CONSTANTS
  NoDetail,    \* nothing fetched, no answer
  DeskEdits,   \* what may be typed in the dashboard
  PhoneEdits,  \* what may be typed on the phone
  MaxReports,  \* bound: reports generated for the showing
  MaxRequests  \* bound: requests the agent makes, on both clients

\* The two clients' edits are told apart by their names.
ASSUME EditingAssumption ==
  /\ MaxReports \in Nat \ {0} /\ MaxRequests \in Nat
  /\ DeskEdits \cap PhoneEdits = {}

VARIABLES
  asked,  \* how many requests the agent has made
  srv,    \* the rows of the showing
  acked,  \* history: edits of the report whose author was told they are saved
  lost    \* history: edits of it dropped by a save made from a copy without them

serverVars == <<srv, acked, lost>>

Names == DeskEdits \cup PhoneEdits
Edits == (1..MaxReports) \X Names
Documents == SUBSET Edits

\* What a confirmation asks of the property and of the observations is left to
\* module ReviewWorkspace, delivery to module Delivery.
Rows == [status : {"draft", "confirmed"}, id : 1..MaxReports, content : Documents]

ServerTypeOK ==
  /\ asked \in 0..MaxRequests
  /\ srv \in Rows
  /\ acked \in Documents
  /\ lost \in Documents

\* The first report has been drafted.
ServerInit ==
  /\ asked = 0
  /\ srv = [status |-> "draft", id |-> 1, content |-> {}]
  /\ acked = {}
  /\ lost = {}

Ask ==
  /\ asked < MaxRequests
  /\ asked' = asked + 1

\* update_report takes the document of any report that still exists.
AcceptsDocument(rid) == srv.id = rid

\* update_report.  `mine` are the names of the client that saves: dropping one
\* of its own edits counts as a loss it accepts only when `excused`.
SaveDocument(body, mine, excused) ==
  /\ srv' = [srv EXCEPT !.content = body]
  /\ lost' = (lost \ body) \cup {e \in srv.content \ body : e[2] \notin mine \/ excused}
  /\ UNCHANGED acked

\* The client whose names are `mine` is told its document is saved.
Acknowledge(body, mine) ==
  acked' = acked \cup {e \in body : e[1] = srv.id /\ e[2] \in mine}

\* confirm_showing: the newest report is confirmed as it stands, or the review is
\* not complete.
ConfirmOrRefuse ==
  /\ srv' \in {srv, [srv EXCEPT !.status = "confirmed"]}
  /\ UNCHANGED <<acked, lost>>

\* Processing that was started again replaces the pending report.
Redraft ==
  /\ srv.status = "draft"
  /\ srv.id < MaxReports
  /\ srv' = [srv EXCEPT !.id = @ + 1, !.content = {}]
  /\ acked' = {}
  /\ lost' = {}
  /\ UNCHANGED asked

=============================================================================
