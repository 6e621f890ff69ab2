------------------------------ MODULE Clients ------------------------------
(***************************************************************************)
(* The clients' models, and billing, under one specification.  They meet   *)
(* only through the server's rows, and those that share rows (the report's *)
(* workspace and the phone's report screen) are one program here,          *)
(* ReportEditing.                                                          *)
(* Each behaviour is one program's; the others stay as they began.         *)
(***************************************************************************)
EXTENDS ReportEditing, ReviewWorkspace, DeliveryPanel, NewShowing, ShowingsList,
  WebSession, PhoneSession, Recording, Billing

VARIABLE program  \* the program whose behaviour it is

Programs == {"editing", "review", "form", "panel", "list", "web", "phone", "recorder",
             "billing"}

ClientsInit ==
  /\ program \in Programs
  /\ EditingInit /\ ReviewInit /\ FormInit /\ PanelInit
  /\ ListInit /\ WebInit /\ SessionInit /\ RecordingInit
  /\ BillingInit
  \* idle: one initial state is enough
  /\ program # "review" => /\ db.property /\ db.processing = "ready"

ClientsNext ==
  \/ /\ program = "editing" /\ EditingNext
     /\ UNCHANGED <<program, reviewVars, formVars, panelVars, listVars, webVars, sessionVars,
                    recordingVars, billingVars>>
  \/ /\ program = "review" /\ ReviewNext
     /\ UNCHANGED <<program, editingVars, formVars, panelVars, listVars, webVars, sessionVars,
                    recordingVars, billingVars>>
  \/ /\ program = "form" /\ FormNext
     /\ UNCHANGED <<program, editingVars, reviewVars, panelVars, listVars, webVars, sessionVars,
                    recordingVars, billingVars>>
  \/ /\ program = "panel" /\ PanelNext
     /\ UNCHANGED <<program, editingVars, reviewVars, formVars, listVars, webVars, sessionVars,
                    recordingVars, billingVars>>
  \/ /\ program = "list" /\ ListNext
     /\ UNCHANGED <<program, editingVars, reviewVars, formVars, panelVars, webVars, sessionVars,
                    recordingVars, billingVars>>
  \/ /\ program = "web" /\ WebNext
     /\ UNCHANGED <<program, editingVars, reviewVars, formVars, panelVars, listVars, sessionVars,
                    recordingVars, billingVars>>
  \/ /\ program = "phone" /\ SessionNext
     /\ UNCHANGED <<program, editingVars, reviewVars, formVars, panelVars, listVars, webVars,
                    recordingVars, billingVars>>
  \/ /\ program = "recorder" /\ RecordingNext
     /\ UNCHANGED <<program, editingVars, reviewVars, formVars, panelVars, listVars, webVars,
                    sessionVars, billingVars>>
  \/ /\ program = "billing" /\ BillingNext
     /\ UNCHANGED <<program, editingVars, reviewVars, formVars, panelVars, listVars, webVars,
                    sessionVars, recordingVars>>

clientsVars == <<program, editingVars, reviewVars, formVars, panelVars, listVars, webVars,
                 sessionVars, recordingVars, billingVars>>

ClientsSpec == ClientsInit /\ [][ClientsNext]_clientsVars

-----------------------------------------------------------------------------
(* The properties, each about one program; see its module.                 *)

\* The state of the program has its type.
ClientsTypeOK ==
  CASE program = "editing" -> EditingTypeOK
    [] program = "review" -> ReviewTypeOK
    [] program = "form" -> FormTypeOK
    [] program = "panel" -> PanelTypeOK
    [] program = "list" -> ListTypeOK
    [] program = "web" -> WebTypeOK
    [] program = "phone" -> SessionTypeOK
    [] program = "recorder" -> RecordingTypeOK
    [] program = "billing" -> BillingTypeOK

=============================================================================
