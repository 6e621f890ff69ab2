\* Two chains that can overlap, three runs, media that arrive late.
SPECIFICATION FairSpec
CONSTANTS
  Audio = {a1, a2}
  Chains = {k1, k2}
  MaxRuns = 3
CHECK_DEADLOCK FALSE
INVARIANTS TypeOK ReadyHasReport    
PROPERTIES SettlesUnlessWorkIsLost PhoneSeesProcessing
