\* One report, one attempt, one edit: enough to mail a PDF that is out of date.
SPECIFICATION Spec
CONSTANTS
  Contents = {c1, c2}
  Drafts = {c1, c2}
  NoContent = NoContent
  Obs = {o1}
  SensitiveObs = {o1}
  Chains = {k1}
  Refinish = TRUE
  Requests = {r1}
  MaxReports = 1
  MaxRevisions = 1
  MaxAttempts = 1
  MaxLinks = 1
CHECK_DEADLOCK FALSE
INVARIANT SentPdfIsTheReport
