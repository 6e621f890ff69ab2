\* Finish is accepted again over earlier processing.
SPECIFICATION Spec
CONSTANTS
  Audio = {a1}
  Chains = {k1}
  MaxRuns = 2
CHECK_DEADLOCK FALSE
INVARIANT OneSetOfEvidence
