\* A process dies and the agent insists.
SPECIFICATION InsistentSpec
CONSTANTS
  Audio = {a1}
  Chains = {k1}
  MaxRuns = 3
CHECK_DEADLOCK FALSE
PROPERTY ProcessingSettles
