SPECIFICATION ClientsSpec
CHECK_DEADLOCK FALSE

CONSTANTS
  NoDetail = NoDetail
  DeskEdits = {d1}
  PhoneEdits = {p1, p2}
  MaxReports = 2
  MaxRequests = 3
  NoRows = NoRows
  Obs = {o1, o2}
  Sensitive = {o1}
  MaxPressed = 2
  Files = {a1, f1}
  Recordings = {a1}
  MaxShowings = 2
  MaxLinks = 2
  MaxPresses = 3
  Filters = {q1, q2}
  Everything = Everything
  MaxShowing = 3
  PageSize = 1
  MaxChanges = 1
  MaxReads = 4
  Calls = {c1, c2}
  MaxSignIns = 2
  MaxSessions = 2
  Accounts = {a, b}
  Nobody = Nobody
  Signs = {s1, s2}
  Jobs = {j1}
  Renewals = {r1, r2}
  NoRenewal = NoRenewal
  MaxRestarts = 1
  Shots = {shot}
  MaxSegments = 2
  MaxDeaths = 1
  MaxSubs = 3
  MaxEvents = 4
  MaxTime = 2

INVARIANTS
  ClientsTypeOK
  SavedEditsAreLostOnlyToOlderCopies
  
  ConfirmedIsOnTheServer
  LastReviewWins
  
  FormTellsTheTruth
  RevokedLinksAreWithdrawn
  ListsAreComplete
  CookiesAreOfTheLastSignIn
  CallsTakeEffectOnce
  SessionsAreTheAccounts
  RecordingsAreQueuedOnce
  CapturesPrecedeTheEnd
  RowFollowsStripe
