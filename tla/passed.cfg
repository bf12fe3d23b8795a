CONSTANTS
  t1 = t1
  t2 = t2
  Tabs = {t1}
  Thresholds <- ThreeLevels
  Types <- PowThenCaptcha
  Countdowns <- OneTick
  MaxRate = 6
  MaxChanges = 0
SPECIFICATION Spec
INVARIANT PassedMeansGranted
