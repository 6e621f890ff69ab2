--------------------------- MODULE ClientsProofs ---------------------------
(***************************************************************************)
(* Proofs about Clients.  A behaviour of Clients is, of each program's     *)
(* variables, a behaviour of that program's specification: a step of one   *)
(* leaves the variables of the others alone.  So every theorem about a     *)
(* program holds here, for all of them together.                           *)
(***************************************************************************)
EXTENDS Clients, ReportEditingProofs, DashboardProofs, PhoneProofs, BillingProofs

ClientsConstants ==
  /\ FormConstants /\ ListConstants /\ PanelConstants /\ ReviewConstants
  /\ SessionConstants /\ MaxSignIns \in Nat
  /\ MaxSegments \in Nat /\ MaxDeaths \in Nat
  /\ MaxTime \in Nat \ {0} /\ MaxEvents \in Nat

-----------------------------------------------------------------------------
(* The programs keep out of each other's way.                              *)

LEMMA EachBegins ==
  ASSUME ClientsInit
  PROVE  /\ program \in Programs
         /\ EditingInit /\ ReviewInit /\ FormInit /\ PanelInit
         /\ ListInit /\ WebInit /\ SessionInit /\ RecordingInit /\ BillingInit
BY DEF ClientsInit

LEMMA EachGoesOn ==
  ASSUME [ClientsNext]_clientsVars
  PROVE  /\ UNCHANGED program
         /\ [EditingNext]_editingVars /\ [ReviewNext]_reviewVars /\ [FormNext]_formVars
         /\ [PanelNext]_panelVars /\ [ListNext]_listVars /\ [WebNext]_webVars
         /\ [SessionNext]_sessionVars /\ [RecordingNext]_recordingVars
         /\ [BillingNext]_billingVars
BY DEF ClientsNext, clientsVars

\* The composition is each of its programs: what one does is no step of another, and the
\* behaviour stays the program's it began as.
THEOREM ClientsAreEach ==
  ClientsSpec => /\ [](program \in Programs)
                 /\ EditingSpec /\ ReviewSpec /\ FormSpec /\ PanelSpec /\ ListSpec
                 /\ WebSpec /\ SessionSpec /\ RecordingSpec /\ BillingSpec
<1>1. ClientsInit => /\ program \in Programs
                     /\ EditingInit /\ ReviewInit /\ FormInit /\ PanelInit
                     /\ ListInit /\ WebInit /\ SessionInit /\ RecordingInit /\ BillingInit
  BY EachBegins
<1>2. [ClientsNext]_clientsVars =>
        /\ UNCHANGED program
        /\ [EditingNext]_editingVars /\ [ReviewNext]_reviewVars /\ [FormNext]_formVars
        /\ [PanelNext]_panelVars /\ [ListNext]_listVars /\ [WebNext]_webVars
        /\ [SessionNext]_sessionVars /\ [RecordingNext]_recordingVars
        /\ [BillingNext]_billingVars
  BY EachGoesOn
<1>3. program \in Programs /\ UNCHANGED program => (program \in Programs)'
  OBVIOUS
<1> QED  BY <1>1, <1>2, <1>3, PTL
         DEF ClientsSpec, EditingSpec, ReviewSpec, FormSpec, PanelSpec, ListSpec, WebSpec,
             SessionSpec, RecordingSpec, BillingSpec

-----------------------------------------------------------------------------
(* What holds of each holds of the whole.                                  *)

\* Each page's and screen's variables keep their types in every state, and no counter
\* passes its bound, whichever program runs.
THEOREM ClientsAreTyped == ClientsConstants => (ClientsSpec => []ClientsTypeOK)
<1> SUFFICES ASSUME ClientsConstants PROVE ClientsSpec => []ClientsTypeOK
  OBVIOUS
<1>1. EditingSpec => []EditingTypeOK
  BY EditingTypeCorrect
<1>2. ReviewSpec => []ReviewInv
  BY ReviewInvariance DEF ClientsConstants
<1>3. FormSpec => []FormInv
  BY FormInvariance DEF ClientsConstants
<1>4. PanelSpec => []PanelInv
  BY PanelInvariance DEF ClientsConstants
<1>5. ListSpec => []ListInv
  BY ListInvariance DEF ClientsConstants
<1>6. WebSpec => []WebInv
  BY WebInvariance DEF ClientsConstants
<1>7. SessionSpec => []SessionInv
  BY SessionInvariance DEF ClientsConstants
<1>8. RecordingSpec => []RecordingTypeOK
  BY RecordingTypeCorrect DEF ClientsConstants
<1>9. BillingSpec => []BillingTypeOK
  BY BillingTypeCorrect DEF ClientsConstants
<1>10. SessionInv => SessionTypeOK
  BY DEF SessionInv, TypeInv, SessionTypeOK, SignSet, JobSet, RenewalSet, PhoneSet, StoreSet
<1>11. /\ program \in Programs /\ EditingTypeOK /\ ReviewInv /\ FormInv /\ PanelInv /\ ListInv
       /\ WebInv /\ SessionTypeOK /\ RecordingTypeOK /\ BillingTypeOK
       => ClientsTypeOK
  <2>1. /\ ReviewInv => ReviewTypeOK
        /\ FormInv => FormTypeOK
        /\ PanelInv => PanelTypeOK
        /\ ListInv => ListTypeOK
        /\ WebInv => WebTypeOK
    BY DEF ReviewInv, FormInv, PanelInv, ListInv, WebInv
  <2> QED  BY <2>1 DEF ClientsTypeOK, Programs
<1> QED  BY <1>1, <1>2, <1>3, <1>4, <1>5, <1>6, <1>7, <1>8, <1>9, <1>10, <1>11,
            ClientsAreEach, PTL

\* And the safety properties of all of them, with one agent's pages, phone and subscription
\* side by side.
THEOREM ClientsAreSafe ==
  ClientsConstants =>
    (ClientsSpec => /\ []SavedEditsAreLostOnlyToOlderCopies /\ []EditsStayInTheirReport
                    /\ []ConfirmedIsOnTheServer
                    /\ []LastReviewWins /\ []RefusedOnlyWhenStale
                    /\ []FormTellsTheTruth /\ []RevokedLinksAreWithdrawn /\ []ListsAreComplete
                    /\ []CookiesAreOfTheLastSignIn /\ []CallsTakeEffectOnce
                    /\ []SessionsAreTheAccounts
                    /\ []RecordingsAreQueuedOnce /\ []CapturesPrecedeTheEnd
                    /\ []RowFollowsStripe)
<1> SUFFICES ASSUME ClientsConstants
             PROVE  ClientsSpec =>
                      /\ []SavedEditsAreLostOnlyToOlderCopies /\ []EditsStayInTheirReport
                      /\ []ConfirmedIsOnTheServer
                      /\ []LastReviewWins /\ []RefusedOnlyWhenStale
                      /\ []FormTellsTheTruth /\ []RevokedLinksAreWithdrawn
                      /\ []ListsAreComplete
                      /\ []CookiesAreOfTheLastSignIn /\ []CallsTakeEffectOnce
                      /\ []SessionsAreTheAccounts
                      /\ []RecordingsAreQueuedOnce /\ []CapturesPrecedeTheEnd
                      /\ []RowFollowsStripe
  OBVIOUS
<1>1. EditingSpec => /\ []SavedEditsAreLostOnlyToOlderCopies /\ []EditsStayInTheirReport
                     /\ []ConfirmedIsOnTheServer
  BY SavedEditsStay, EditsStay, ConfirmedStays
<1>2. ReviewSpec => []LastReviewWins /\ []RefusedOnlyWhenStale
  BY LastButtonWins, OfferedIsAccepted DEF ClientsConstants
<1>3. FormSpec => []FormTellsTheTruth
  BY FormIsTruthful DEF ClientsConstants
<1>4. PanelSpec => []RevokedLinksAreWithdrawn
  BY RevokedLinksLeave DEF ClientsConstants
<1>5. ListSpec => []ListsAreComplete
  BY ListsLeaveOutNothing DEF ClientsConstants
<1>6. WebSpec => []CookiesAreOfTheLastSignIn /\ []CallsTakeEffectOnce
  BY CookiesFollowTheSignIn, CallsAreNotRepeated DEF ClientsConstants
<1>7. SessionSpec => []SessionsAreTheAccounts
  BY AccountsStayApart DEF ClientsConstants
<1>8. RecordingSpec => []RecordingsAreQueuedOnce /\ []CapturesPrecedeTheEnd
  BY AudioIsQueuedOnce, ShotsPrecedeTheEnd
<1>9. BillingSpec => []RowFollowsStripe
  BY RowIsFollowing
<1> QED  BY <1>1, <1>2, <1>3, <1>4, <1>5, <1>6, <1>7, <1>8, <1>9, ClientsAreEach, PTL

=============================================================================
