CONSTANTS
  t1 = t1
  t2 = t2
  Tabs = {t1, t2}
  Thresholds <- ThreeLevels
  Types <- Ladder
  Countdowns <- AtOnceAndSlow
  MaxRate = 6
  MaxChanges = 0
SPECIFICATION PageSpec
PROPERTY ServedUnaided
