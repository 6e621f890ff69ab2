\* Two refreshes that overlap.
SPECIFICATION Spec
CONSTANTS
  Media = {a1}
  Audio = {a1}
  Large = {}
  Tags = {t1}
  Refreshes = {r1, r2}
SYMMETRY Symmetry
INVARIANT WorkIsQueuedUnlessMasked
