\* One medium, one chain at a time, two runs; one e-mail attempt, two links.
SPECIFICATION FairShowingSpec
CONSTANTS
  Audio = {a1}
  Chains = {k1}
  MaxRuns = 2
  Contents = {c1, c2}
  Drafts = {c1}
  NoContent = NoContent
  Obs = {o1, o2}
  SensitiveObs = {o1}
  Refinish = TRUE
  MaxReports = 2
  MaxRevisions = 1
  Requests = {r1}
  MaxAttempts = 1
  MaxLinks = 2
CHECK_DEADLOCK FALSE
  
PROPERTIES ChainsAreAsAssumed  EmailSettles
