SPECIFICATION Spec
CONSTANTS
  Contents = {c1, c2}
  Drafts = {c1, c2}
  NoContent = NoContent
  Obs = {o1}
  SensitiveObs = {o1}
  Chains = {k1}
  Refinish = TRUE
  Requests = {r1, r2}
  MaxReports = 2
  MaxRevisions = 2
  MaxAttempts = 2
  MaxLinks = 2
CHECK_DEADLOCK FALSE
INVARIANTS AtMostOneEmail RecordedOutcomeIsTrue OneAttemptInFlight RevisionsFormAChain LinksLeadToCurrentReports SentHasADelivery
PROPERTIES SentReportsAreFrozen OneEmailPromise
