---------------------------- MODULE ReportEditing ----------------------------
(***************************************************************************)
(* One draft report under edit in the dashboard (ReportWorkspace) and on   *)
(* the phone (PhoneReport) at once, while processing may replace it.  Both *)
(* clients save the whole document they were shown, and the server keeps   *)
(* the last one it gets.                                                   *)
(***************************************************************************)
EXTENDS ReportWorkspace, PhoneReport

editingVars == <<asked, serverVars, workspaceVars, phoneVars>>

EditingTypeOK == ServerTypeOK /\ WorkspaceTypeOK /\ PhoneTypeOK

EditingInit == ServerInit /\ WorkspaceInit /\ PhoneInit

EditingNext ==
  \/ Redraft /\ UNCHANGED <<workspaceVars, phoneVars>>
  \/ WorkspaceNext /\ UNCHANGED phoneVars
  \/ PhoneNext /\ UNCHANGED workspaceVars

EditingSpec == EditingInit /\ [][EditingNext]_editingVars

\* An edit whose author was told it is saved stays in the report, unless another
\* client saves a copy that is older than the edit, or the phone does because a
\* save of its was not alone under way (saveBullet has no such guard).
SavedEditsAreLostOnlyToOlderCopies == acked \subseteq srv.content \cup lost

\* What was typed for one report never ends up in the report that replaced it,
\* however late a refetch, an answer or a save arrives.
EditsStayInTheirReport == \A e \in srv.content : e[1] = srv.id

\* Once the dashboard was told that its confirmation succeeded, what it typed
\* and shows as the confirmed report is in the confirmed report, unless it was
\* typed after the button or another client saved over it.
ConfirmedIsOnTheServer ==
  asShown => {e \in page.document : e[2] \in DeskEdits} \subseteq srv.content \cup lost

=============================================================================
