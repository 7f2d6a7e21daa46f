SPECIFICATION SnapshotsSpec
CONSTANTS
  Browsers = {b1, b2}
  Texts = {t1, t2}
  MaxFallbacks = 2
  None = None
SYMMETRY Symmetry
INVARIANTS
  TextOnceUnlessMixed
