\* One refresh and the recording screen.
SPECIFICATION Spec
CONSTANTS
  Media = {a1}
  Audio = {a1}
  Large = {}
  Tags = {t1}
  Refreshes = {r1}
INVARIANT WorkIsQueued
