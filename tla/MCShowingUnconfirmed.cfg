\* A second processing chain that overlaps the confirmation.
SPECIFICATION ShowingSpec
CONSTANTS
  Audio = {a1}
  Chains = {k1}
  MaxRuns = 2
  Contents = {c1, c2}
  Drafts = {c1}
  NoContent = NoContent
  Obs = {o1}
  SensitiveObs = {o1}
  Refinish = TRUE
  MaxReports = 2
  MaxRevisions = 1
  Requests = {}
  MaxAttempts = 0
  MaxLinks = 0
CHECK_DEADLOCK FALSE
PROPERTY OnlyTheAgentConfirms
