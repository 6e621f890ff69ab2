\* A recording, a photo the server refuses, a tag; one refresh after another.
SPECIFICATION FairSpec
CONSTANTS
  Media = {a1, p1}
  Audio = {a1}
  Large = {p1}
  Tags = {t1}
  Refreshes = {r1}
INVARIANTS TypeOK ProcessingHasEverything
PROPERTY FinishArrives
