\* A lost answer, then an expired URL.
SPECIFICATION Spec
CONSTANTS
  Media = {a1}
  Audio = {a1}
  Large = {}
  Tags = {}
  Refreshes = {r1}
INVARIANT RejectedIsAbsent
